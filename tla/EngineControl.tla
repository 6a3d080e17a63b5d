----------------------------- MODULE EngineControl -----------------------------
(***************************************************************************)
(* Who runs the trading engine: the run-loop tasks (RuntimeLoop.run), the  *)
(* START, STOP and MIGRATE requests of the dashboard, Ctrl+C, the operator *)
(* who releases a halt from the command line, and the process that dies.   *)
(* All but the migration and the release share one event loop, so a step   *)
(* is the code between two awaits.                                         *)
(*                                                                         *)
(* Between them they write four flags: _running, _run_loop_alive,          *)
(* _shutdown_in_progress and _shutdown_completed.  Nothing keeps a second  *)
(* run-loop task from being started beside a first one.                    *)
(* Left out: what a pass trades (OrderLifecycle), the background workers,  *)
(* and the deadline of 30 s on waiting for another caller's teardown.      *)
(***************************************************************************)
EXTENDS Naturals

CONSTANTS
    Loops,      \* run-loop tasks that may exist at the same time
    Attempts,   \* connection attempts of one boot
    MaxBoots,   \* bound: processes explored
    Faults      \* which faults may happen

\* connect: the terminal does not answer;  read: the safety row cannot be read;
\* boot: the warm-up raises;  persist: a halt cannot be written;  disconnect: the
\* adapter raises when it is told to
FaultKinds == {"connect", "read", "boot", "persist", "disconnect"}

ASSUME ConstantsAssumption ==
    /\ {Attempts, MaxBoots} \subseteq Nat \ {0}
    /\ Faults \subseteq FaultKinds

VARIABLES
    pc,         \* where each run-loop task is
    tries,      \* connection attempts it has made
    idle,       \* the tasks that leave without having been armed
    running,    \* _running
    alive,      \* _run_loop_alive
    busy,       \* _shutdown_in_progress
    closed,     \* _shutdown_completed
    short,      \* history: the last teardown left something open
    mem,        \* _runtime_risk_state
    row,        \* the persisted safety state
    broker,     \* the adapter is connected
    plane,      \* the audit repository has its write plane
    retrain,    \* a fine-tuning task runs
    stop,       \* where the STOP request is
    migration,  \* a database migration holds the maintenance lock
    waiting,    \* a START waits for that lock, and the event loop with it
    hasty,      \* history: a request came before the previous one was through
    boots

engine == <<running, alive, busy, closed, short>>
outside == <<broker, plane, retrain>>
safety == <<mem, row>>
requests == <<stop, migration, waiting, hasty>>
vars == <<pc, tries, idle, engine, outside, safety, requests, boots>>

Fault(k) == k \in Faults

\* starting: created, not yet run;  connecting: before an attempt;  blocked: idle
\* behind a halt;  arming: warming up;  loop: at the head of the tick loop;  polling:
\* waiting for the tick;  closing, awaiting: in its own or in another's teardown
PC == {"done", "starting", "connecting", "blocked", "arming", "loop", "polling",
       "closing", "awaiting"}
Ticking(t) == pc[t] \in {"loop", "polling"}
Live == \E t \in Loops : pc[t] # "done"

\* The event loop runs.
Free == ~waiting

-----------------------------------------------------------------------------
(* Teardown *)

\* Everything after the fine-tuning task: adapter, evaluator, audit, notifier.  A phase
\* that raises is logged and passed over.
Close(connected) ==
    /\ broker' = FALSE \/ (Fault("disconnect") /\ broker' = connected)
    /\ plane' = FALSE
    /\ busy' = FALSE /\ closed' = TRUE /\ short' = broker'

\* The CancelledError of the fine-tuning task is no Exception: it leaves the teardown,
\* whose last clause says completed all the same.
Abandon ==
    /\ busy' = FALSE /\ closed' = TRUE /\ short' = TRUE
    /\ retrain' = FALSE /\ UNCHANGED <<broker, plane>>

\* Mutant of Shutdown: two callers close side by side.
ShutdownTwice(out, connected) ==
    \/ out = "done" /\ closed /\ broker' = connected /\ UNCHANGED <<busy, closed, short, plane>>
    \/ /\ out = "closing" /\ ~closed /\ retrain
       /\ busy' = TRUE /\ broker' = connected /\ UNCHANGED <<closed, short, plane>>
    \/ out = "done" /\ ~closed /\ ~retrain /\ Close(connected)

\* _shutdown_async: over at once, or in another caller's hands, or the caller's own;
\* it only pauses where it waits for the fine-tuning task it has cancelled.
Shutdown(out, connected) ==
    \/ out = "done" /\ closed /\ broker' = connected /\ UNCHANGED <<busy, closed, short, plane>>
    \/ /\ out = "awaiting" /\ ~closed /\ busy
       /\ broker' = connected /\ UNCHANGED <<busy, closed, short, plane>>
    \/ /\ out = "closing" /\ ~closed /\ ~busy /\ retrain
       /\ busy' = TRUE /\ broker' = connected /\ UNCHANGED <<closed, short, plane>>
    \/ out = "done" /\ ~closed /\ ~busy /\ ~retrain /\ Close(connected)

Moves(t, to) == pc' = [pc EXCEPT ![t] = to]

\* A task that was never armed clears _run_loop_alive last.
LastWord(t, out) == alive' = (alive /\ ~(t \in idle' /\ out = "done"))

\* The fine-tuning task has gone, and takes the teardown and the caller with it.
Closes(t) ==
    /\ Free /\ pc[t] = "closing"
    /\ Abandon
    /\ Moves(t, "done")
    /\ UNCHANGED <<tries, idle, running, alive, safety, requests, boots>>

Awaited(t) ==
    /\ Free /\ pc[t] = "awaiting"
    /\ closed \/ ~busy
    /\ Moves(t, "done") /\ UNCHANGED idle /\ LastWord(t, "done")
    /\ UNCHANGED <<tries, running, busy, closed, short, outside, safety, requests, boots>>

-----------------------------------------------------------------------------
(* RuntimeLoop.run: boot *)

\* Mutant of Enter: the run starts with the markers of the last teardown.
EnterMarked(t) ==
    /\ Free /\ pc[t] = "starting"
    /\ Moves(t, "connecting")
    /\ alive' = TRUE
    /\ UNCHANGED <<tries, idle, running, busy, closed, short, outside, safety, requests, boots>>

Enter(t) ==
    /\ Free /\ pc[t] = "starting"
    /\ Moves(t, "connecting")
    /\ alive' = TRUE /\ busy' = FALSE /\ closed' = FALSE
    /\ UNCHANGED <<tries, idle, running, short, outside, safety, requests, boots>>

\* Mutant of Exhausted: one attempt too many.
ExhaustedLate(t) == tries[t] >= Attempts

Exhausted(t) == tries[t] + 1 >= Attempts

\* The loop sleeps before the next attempt; after the last one it gives up, and
\* closes nothing.
ConnectFails(t) ==
    /\ Free /\ pc[t] = "connecting" /\ Fault("connect")
    /\ IF Exhausted(t)
       THEN Moves(t, "done") /\ alive' = FALSE /\ UNCHANGED tries
       ELSE tries' = [tries EXCEPT ![t] = @ + 1] /\ UNCHANGED <<pc, alive>>
    /\ UNCHANGED <<idle, running, busy, closed, short, outside, safety, requests, boots>>

\* Mutant of Decided: a failed read means that there is no halt.
DecidedBlindly(d) == d = row \/ (d = "RUNNING" /\ Fault("read"))

\* _restore_runtime_risk_state: a row that cannot be read refuses trading.
Decided(d) == d = row \/ (d = "UNREAD" /\ Fault("read"))

\* From the connection to the first await: the persisted decision is adopted before
\* the engine is armed.
Armed(t) ==
    /\ Free /\ pc[t] = "connecting"
    /\ Decided("RUNNING")
    /\ mem' = "RUNNING" /\ row' = "RUNNING"
    /\ running' = TRUE /\ broker' = TRUE
    /\ Moves(t, "arming")
    /\ UNCHANGED <<tries, idle, alive, busy, closed, short, plane, retrain, requests, boots>>

Blocked(t) ==
    /\ Free /\ pc[t] = "connecting"
    /\ Decided("HALTED")
    /\ mem' = "HALTED" /\ running' = FALSE /\ broker' = TRUE
    /\ Moves(t, "blocked")
    /\ UNCHANGED <<tries, idle, alive, busy, closed, short, plane, retrain, row, requests, boots>>

Unread(t) ==
    /\ Free /\ pc[t] = "connecting"
    /\ Decided("UNREAD")
    /\ mem' = "UNREAD" /\ running' = FALSE
    /\ idle' = idle \cup {t}
    /\ \E out \in PC : Shutdown(out, TRUE) /\ Moves(t, out) /\ LastWord(t, out)
    /\ UNCHANGED <<tries, retrain, row, requests, boots>>

\* The idle loop looks at the state in memory, which a release does not touch.
Unblocked(t) ==
    /\ Free /\ pc[t] = "blocked"
    /\ mem # "HALTED"
    /\ idle' = idle \cup {t}
    /\ \E out \in PC : Shutdown(out, broker) /\ Moves(t, out) /\ LastWord(t, out)
    /\ UNCHANGED <<tries, running, retrain, safety, requests, boots>>

Warm(t) ==
    /\ Free /\ pc[t] = "arming"
    /\ Moves(t, "loop")
    /\ UNCHANGED <<tries, idle, engine, outside, safety, requests, boots>>

\* An exception leaves run() with every flag as it was.
BootFails(t) ==
    /\ Free /\ pc[t] = "arming" /\ Fault("boot")
    /\ Moves(t, "done")
    /\ UNCHANGED <<tries, idle, engine, outside, safety, requests, boots>>

-----------------------------------------------------------------------------
(* RuntimeLoop.run: the tick loop *)

\* Mutant of Poll: the loop does not look at the flag again.
PollAlways(t) ==
    /\ Free /\ pc[t] = "loop"
    /\ Moves(t, "polling")
    /\ UNCHANGED <<tries, idle, engine, outside, safety, requests, boots>>

Poll(t) ==
    /\ Free /\ pc[t] = "loop" /\ running
    /\ Moves(t, "polling")
    /\ UNCHANGED <<tries, idle, engine, outside, safety, requests, boots>>

\* A pass of the pipeline; a new bar may start the fine-tuning.  Without a write plane
\* it raises when it logs its signal, and the loop goes on.
Pass(t) ==
    /\ Free /\ pc[t] = "polling"
    /\ retrain' \in {retrain, broker /\ plane}
    /\ Moves(t, "loop")
    /\ UNCHANGED <<tries, idle, engine, broker, plane, safety, requests, boots>>

\* Mutant of Halt: the halt reaches the row, not the gate in memory.
HaltOnDisk(t) ==
    /\ Free /\ pc[t] = "polling" /\ broker /\ plane
    /\ row' = "HALTED" /\ running' = FALSE
    /\ Moves(t, "loop")
    /\ UNCHANGED <<tries, idle, alive, busy, closed, short, outside, mem, requests, boots>>

\* trigger_runtime_halt: the row first, then memory, whether or not it was written.
Halt(t) ==
    /\ Free /\ pc[t] = "polling" /\ broker /\ plane
    /\ row' = "HALTED" \/ (Fault("persist") /\ UNCHANGED row)
    /\ mem' = "HALTED" /\ running' = FALSE
    /\ Moves(t, "loop")
    /\ UNCHANGED <<tries, idle, alive, busy, closed, short, outside, requests, boots>>

\* The watchdog of a stalled feed.
Reconnect(t) ==
    /\ Free /\ pc[t] = "loop" /\ running /\ ~broker
    /\ broker' = TRUE
    /\ UNCHANGED <<pc, tries, idle, engine, plane, retrain, safety, requests, boots>>

Leave(t) ==
    /\ Free /\ pc[t] = "loop" /\ ~running
    /\ alive' = FALSE
    /\ \E out \in PC : Shutdown(out, broker) /\ Moves(t, out)
    /\ UNCHANGED <<tries, idle, running, retrain, safety, requests, boots>>

RetrainEnds ==
    /\ Free /\ retrain /\ retrain' = FALSE
    /\ UNCHANGED <<pc, tries, idle, engine, broker, plane, safety, requests, boots>>

-----------------------------------------------------------------------------
(* Requests *)

\* The operator does not wait for the answer to the last request, or for the loop.
Hurries == hasty' = (hasty \/ Live \/ stop # "idle")

Booting == \E t \in Loops : pc[t] \in {"starting", "connecting"}

Spawn(t) ==
    /\ ~running /\ pc[t] = "done"
    /\ pc' = [pc EXCEPT ![t] = "starting"]
    /\ tries' = [tries EXCEPT ![t] = 0]
    /\ idle' = idle \ {t}

\* Mutant of Start: START does not ask for the maintenance lock.
StartUnlocked ==
    /\ Free /\ Hurries
    /\ \E t \in Loops : Spawn(t)
    /\ UNCHANGED <<engine, outside, safety, stop, migration, waiting, boots>>

\* START of toggle_engine: a run-loop task unless _running; the lock is a thread lock,
\* taken on the event loop.
Start ==
    /\ Free /\ Hurries
    /\ IF migration
       THEN waiting' = TRUE /\ UNCHANGED <<pc, tries, idle>>
       ELSE UNCHANGED waiting /\ \E t \in Loops : Spawn(t)
    /\ UNCHANGED <<engine, outside, safety, stop, migration, boots>>

\* The lock is free: START goes on, if there is a task left to explore and none runs.
StartResumes ==
    /\ waiting /\ ~migration
    /\ waiting' = FALSE
    /\ \/ \E t \in Loops : Spawn(t)
       \/ running /\ UNCHANGED <<pc, tries, idle>>
    /\ UNCHANGED <<engine, outside, safety, stop, migration, hasty, boots>>

\* A loop that still connects sets _running when it arms: it has not seen the STOP.
StopPressed ==
    /\ Free /\ stop = "idle"
    /\ running' = FALSE /\ stop' = "waiting"
    /\ hasty' = (hasty \/ Booting)
    /\ UNCHANGED <<pc, tries, idle, alive, busy, closed, short, outside, safety, migration,
                   waiting, boots>>

\* STOP waits for the loop, then makes sure of the teardown.
StopGoesOn ==
    /\ Free /\ stop = "waiting" /\ ~alive
    /\ \E out \in PC :
          /\ Shutdown(out, broker)
          /\ stop' = IF out = "done" THEN "idle" ELSE out
    /\ UNCHANGED <<pc, tries, idle, running, alive, retrain, safety, migration, waiting,
                   hasty, boots>>

StopCloses ==
    /\ Free /\ stop = "closing"
    /\ Abandon /\ stop' = "idle"
    /\ UNCHANGED <<pc, tries, idle, running, alive, safety, migration, waiting, hasty, boots>>

\* Answered: by the other's teardown, or after 30 s behind a loop that stays alive.
StopAnswered ==
    /\ Free
    /\ \/ stop = "awaiting" /\ (closed \/ ~busy)
       \/ stop = "waiting" /\ alive
    /\ stop' = "idle"
    /\ UNCHANGED <<pc, tries, idle, engine, outside, safety, migration, waiting, hasty, boots>>

\* Ctrl+C: ShutdownSupervisor.request_shutdown.
Interrupt ==
    /\ Free /\ running
    /\ running' = FALSE
    /\ UNCHANGED <<pc, tries, idle, alive, busy, closed, short, outside, safety, requests, boots>>

\* migration_guard: a thread takes the lock, if _running is not set.
MigrationBegins ==
    /\ Free /\ ~migration /\ ~running
    /\ migration' = TRUE /\ Hurries
    /\ UNCHANGED <<pc, tries, idle, engine, outside, safety, stop, waiting, boots>>

MigrationEnds ==
    /\ migration /\ migration' = FALSE
    /\ UNCHANGED <<pc, tries, idle, engine, outside, safety, stop, waiting, hasty, boots>>

\* nexus risk release, in a process of its own.
Release ==
    /\ row = "HALTED" /\ row' = "RUNNING"
    /\ UNCHANGED <<pc, tries, idle, engine, outside, mem, requests, boots>>

-----------------------------------------------------------------------------
(* The process *)

\* A process begins with one run-loop task; only the row is kept.
Launched(t) == [u \in Loops |-> IF u = t THEN "starting" ELSE "done"]

Init ==
    /\ pc \in {Launched(t) : t \in Loops}
    /\ tries = [t \in Loops |-> 0] /\ idle = {}
    /\ running = FALSE /\ alive = FALSE /\ busy = FALSE /\ closed = FALSE /\ short = FALSE
    /\ broker = FALSE /\ plane = TRUE /\ retrain = FALSE
    /\ mem = "RUNNING" /\ row = "RUNNING"
    /\ stop = "idle" /\ migration = FALSE /\ waiting = FALSE /\ hasty = FALSE
    /\ boots = 1

Relaunch ==
    /\ boots < MaxBoots /\ boots' = boots + 1
    /\ pc' \in {Launched(t) : t \in Loops}
    /\ tries' = [t \in Loops |-> 0] /\ idle' = {}
    /\ running' = FALSE /\ alive' = FALSE /\ busy' = FALSE /\ closed' = FALSE /\ short' = FALSE
    /\ broker' = FALSE /\ plane' = TRUE /\ retrain' = FALSE
    /\ mem' = "RUNNING"
    /\ stop' = "idle" /\ migration' = FALSE /\ waiting' = FALSE /\ hasty' = FALSE
    /\ UNCHANGED row

LoopStep(t) ==
    \/ Enter(t) \/ ConnectFails(t) \/ Armed(t) \/ Blocked(t) \/ Unread(t)
    \/ Unblocked(t) \/ Warm(t) \/ BootFails(t)
    \/ Poll(t) \/ Pass(t) \/ Halt(t) \/ Leave(t)
    \/ Closes(t) \/ Awaited(t)

Request ==
    \/ Start \/ StartResumes \/ StopPressed \/ StopGoesOn \/ StopCloses \/ StopAnswered
    \/ Interrupt \/ MigrationBegins \/ MigrationEnds \/ Release

Next ==
    \/ \E t \in Loops : LoopStep(t) \/ Reconnect(t)
    \/ RetrainEnds
    \/ Request
    \/ Relaunch

Spec == Init /\ [][Next]_vars

\* The event loop runs every task that is ready, a migration ends and gives the lock
\* back; nobody has to press a button.
Fairness ==
    /\ \A t \in Loops : WF_vars(LoopStep(t))
    /\ WF_vars(MigrationEnds) /\ WF_vars(StartResumes)

FairSpec == Spec /\ Fairness

-----------------------------------------------------------------------------
(* Properties *)

TypeOK ==
    /\ pc \in [Loops -> PC] /\ tries \in [Loops -> 0..(Attempts - 1)] /\ idle \subseteq Loops
    /\ {running, alive, busy, closed, short, broker, plane, retrain, migration, waiting, hasty}
           \subseteq BOOLEAN
    /\ mem \in {"RUNNING", "HALTED", "UNREAD"} /\ row \in {"RUNNING", "HALTED"}
    /\ stop \in {"idle", "waiting", "awaiting", "closing"}
    /\ boots \in 1..MaxBoots

\* While a persisted halt stands no pass of any run loop finds the dispatch gate open:
\* over restarts, failed reads, several loops in one process and releases in between.
HaltHolds == row = "HALTED" => \A t \in Loops : Ticking(t) => mem # "RUNNING"

\* No boot, failed read, second loop or later halt turns a persisted halt into RUNNING:
\* that takes the operator's release, which touches nothing in the engine.
OnlyOperatorReleases ==
    [][row = "HALTED" /\ row' = "RUNNING" => UNCHANGED <<pc, engine, mem, boots>>]_vars

\* A completed shutdown is one: no loop is armed or idling behind a halt, no teardown
\* is under way, and nothing is connected unless the teardown was cut short, by the
\* fine-tuning task it cancelled or an adapter that raised.  For an operator who
\* waits; a START too early breaks it.
ClosedIsQuiet ==
    closed /\ ~hasty =>
        /\ \A t \in Loops : pc[t] \in {"done", "starting", "awaiting"}
        /\ ~busy /\ (short \/ ~(broker \/ plane))

\* The loop that ends and the STOP that waits for it never tear down side by side.
OneTeardown ==
    ~hasty =>
        /\ \A s, t \in Loops : pc[s] = "closing" /\ pc[t] = "closing" => s = t
        /\ stop = "closing" => \A t \in Loops : pc[t] # "closing"

\* A migration has the database to itself: no run loop exists while it runs, a START
\* that comes in between is held until it ends.
MigrationAlone == migration /\ ~hasty => ~Live

\* An armed engine that is told to stop, or halts, ends its tick loop.
StopEnds ==
    \A t \in Loops :
        Ticking(t) /\ (stop = "waiting" \/ mem # "RUNNING") ~> ~Ticking(t) \/ hasty
=============================================================================
