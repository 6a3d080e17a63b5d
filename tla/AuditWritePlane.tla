--------------------------- MODULE AuditWritePlane ---------------------------
(***************************************************************************)
(* The write-behind path of the audit database: producers on the engine's  *)
(* threads, the bounded queue, the single AuditDB_Worker thread that       *)
(* commits batches, the durable overflow directory, the dead-letter table, *)
(* and the bounded shutdown (adapters/database/audit_write_plane.py with   *)
(* the parts of audit_repository.py and dead_letter_store.py it calls).    *)
(*                                                                         *)
(* A financial row is a lifecycle record of one ticket: OPEN is the        *)
(* statement of log_ledger_opened (INSERT .. ON CONFLICT DO NOTHING),      *)
(* CLOSE that of log_ledger_closed (an upsert that keeps the entry fields  *)
(* already stored).  The CLOSE modelled is the one reconciliation writes   *)
(* without entry fields, the case that depends on the order of the two.    *)
(***************************************************************************)
EXTENDS Naturals, Sequences, FiniteSets

CONSTANTS
    Ticket,         \* broker tickets
    Telemetry,      \* droppable rows
    BadArity,       \* rows whose args do not match their placeholders
    Pooled,         \* TRUE: pooled provider; FALSE: the SQLite single writer
    QueueMax,       \* QUEUE_MAXSIZE
    BatchMax,       \* BATCH_MAX_ROWS
    OverflowMax,    \* _FINANCIAL_OVERFLOW_MAX_FILES
    OverflowBatch,  \* OVERFLOW_RECOVERY_BATCH
    MaxRestarts,    \* bound: process deaths explored
    Faults          \* which environment faults may happen

FaultKinds == {"construct", "touch", "statement", "deadletter", "file",
               "retire", "close", "crash"}

Row == [ticket : Ticket, kind : {"OPEN", "CLOSE"}]
Item == Row \cup Telemetry

OpenOf(t) == [ticket |-> t, kind |-> "OPEN"]

ASSUME ConstantsAssumption ==
    /\ Telemetry \cap Row = {}
    /\ BadArity \subseteq Item
    /\ Pooled \in BOOLEAN
    /\ QueueMax \in Nat \ {0}
    /\ BatchMax \in Nat \ {0}
    /\ OverflowMax \in Nat
    /\ OverflowBatch \in Nat \ {0}
    /\ MaxRestarts \in Nat
    /\ Faults \subseteq FaultKinds

VARIABLES
    pc,         \* producer of each item: idle, held, naming, spilling, returned, failed
    queue,      \* the bounded queue
    unfinished, \* queue.unfinished_tasks
    wpc,        \* where the worker thread is
    batch,      \* the batch in the worker's hands
    done,       \* rows of the batch executed so far
    work,       \* the ledger as the open transaction sees it
    file,       \* overflow file of each row: none, tmp, torn, whole
    stamp,      \* name of that file as its place in name order, 0 before it is drawn
    named,      \* where the sequence counter and the clock stand in that order
    pass,       \* files the current recovery pass still has to visit
    retiring,   \* the file replayed or rejected and not retired yet
    due,        \* the recovery cadence has elapsed
    ledger,     \* audit_ledger, one row per ticket
    dead,       \* rows in audit_dead_letter with their args
    husk,       \* rows in audit_dead_letter whose args are gone
    lost,       \* rows whose dead-letter write failed, logged CRITICAL
    cpc,        \* closer: up, flushing, joining, down
    covered,    \* rows a flush that returned TRUE vouched for
    restarts,   \* process deaths so far
    crashLost   \* rows that died in memory with the process

queueVars  == <<queue, unfinished>>
workerVars == <<wpc, batch, done, work>>
fileVars   == <<file, stamp, named>>
drainVars  == <<pass, retiring, due>>
storeVars  == <<ledger, dead, husk, lost>>
lifeVars   == <<cpc, covered, restarts, crashLost>>

vars == <<pc, queueVars, workerVars, fileVars, drainVars, storeVars, lifeVars>>

-----------------------------------------------------------------------------
(* Ledger and queue vocabulary *)

LedgerState == {"NONE", "OPENED", "CLOSED", "CLOSED_NO_ENTRY"}

\* Mutant of Apply: the OPEN statement is INSERT OR REPLACE.
ApplyReplacing(l, i) ==
    IF i \notin Row THEN l
    ELSE [l EXCEPT ![i.ticket] =
            CASE i.kind = "OPEN" -> "OPENED"
              [] i.kind = "CLOSE" /\ @ = "NONE" -> "CLOSED_NO_ENTRY"
              [] i.kind = "CLOSE" /\ @ = "OPENED" -> "CLOSED"
              [] OTHER -> @]

\* One statement against the ledger: OPEN does nothing on conflict, CLOSE
\* upserts and keeps what entry context is there.
Apply(l, i) ==
    IF i \notin Row THEN l
    ELSE [l EXCEPT ![i.ticket] =
            CASE i.kind = "OPEN"  /\ @ = "NONE"   -> "OPENED"
              [] i.kind = "CLOSE" /\ @ = "NONE"   -> "CLOSED_NO_ENTRY"
              [] i.kind = "CLOSE" /\ @ = "OPENED" -> "CLOSED"
              [] OTHER -> @]

\* Row r is in ledger l.
DurableIn(l, r) ==
    IF r.kind = "OPEN" THEN l[r.ticket] # "NONE"
                       ELSE l[r.ticket] \in {"CLOSED", "CLOSED_NO_ENTRY"}

Durable(r) == DurableIn(ledger, r)

Elems(s) == {s[n] : n \in 1..Len(s)}

\* Batch items the worker has neither committed nor salvaged.
Unsettled ==
    CASE wpc = "ack"     -> {}
      [] wpc = "salvage" -> {batch[n] : n \in done + 1..Len(batch)}
      [] OTHER           -> Elems(batch)

Pending == Elems(queue) \cup Unsettled

running == cpc = "up"   \* plane._running, and the repository's plane reference

Fault(k) == k \in Faults

\* DeadLetterStore.record: stores the row, or fails loudly; it never raises.
DeadLetter(r) ==
    /\ \/ r \in Row /\ dead' = dead \cup {r} /\ UNCHANGED lost
       \/ r \in Row /\ Fault("deadletter") /\ lost' = lost \cup {r} /\ UNCHANGED dead
       \/ r \notin Row /\ UNCHANGED <<dead, lost>>
    /\ UNCHANGED husk

\* The same call with args = (): what is stored cannot be replayed.
DeadLetterNoArgs(r) ==
    /\ \/ husk' = husk \cup {r} /\ UNCHANGED lost
       \/ Fault("deadletter") /\ lost' = lost \cup {r} /\ UNCHANGED husk
    /\ UNCHANGED dead

-----------------------------------------------------------------------------
Init ==
    /\ pc = [i \in Item |-> "idle"]
    /\ queue = <<>> /\ unfinished = 0
    /\ wpc = "construct" /\ batch = <<>> /\ done = 0
    /\ work = [t \in Ticket |-> "NONE"]
    /\ file = [r \in Row |-> "none"] /\ stamp = [r \in Row |-> 0] /\ named = 0
    /\ pass = {} /\ retiring = {} /\ due = TRUE
    /\ ledger = [t \in Ticket |-> "NONE"]
    /\ dead = {} /\ husk = {} /\ lost = {}
    /\ cpc = "up" /\ covered = {} /\ restarts = 0 /\ crashLost = {}

-----------------------------------------------------------------------------
(* Producers *)

\* self._write_plane is read: an engine thread logs the CLOSE of a ticket only
\* after its OPEN was logged.  Once close() dropped the plane the call raises.
Resolve(i) ==
    /\ pc[i] = "idle"
    /\ i \in Row /\ i.kind = "CLOSE"
         => pc[OpenOf(i.ticket)] \in {"returned", "failed"}
    /\ pc' = [pc EXCEPT ![i] = IF running THEN "held" ELSE "failed"]
    /\ UNCHANGED <<queueVars, workerVars, fileVars, drainVars, storeVars, lifeVars>>

\* A row with the wrong number of args never travels: a financial one is
\* dead-lettered at the producer, a telemetry one is dropped.
RefuseArity(i) ==
    /\ pc[i] = "held" /\ i \in BadArity
    /\ DeadLetter(i)
    /\ pc' = [pc EXCEPT ![i] = "returned"]
    /\ UNCHANGED <<queueVars, workerVars, fileVars, drainVars, ledger, lifeVars>>

\* Mutant of Put: the queue is unbounded.
PutUnbounded(i) ==
    /\ pc[i] = "held" /\ i \notin BadArity
    /\ queue' = Append(queue, i)
    /\ unfinished' = unfinished + 1
    /\ pc' = [pc EXCEPT ![i] = "returned"]
    /\ UNCHANGED <<workerVars, fileVars, drainVars, storeVars, lifeVars>>

\* put / put_nowait on a queue with room.
Put(i) ==
    /\ pc[i] = "held" /\ i \notin BadArity
    /\ Len(queue) < QueueMax
    /\ queue' = Append(queue, i)
    /\ unfinished' = unfinished + 1
    /\ pc' = [pc EXCEPT ![i] = "returned"]
    /\ UNCHANGED <<workerVars, fileVars, drainVars, storeVars, lifeVars>>

\* Queue full: a telemetry row is counted and dropped.
DropTelemetry(i) ==
    /\ pc[i] = "held" /\ i \in Telemetry \ BadArity
    /\ Len(queue) = QueueMax
    /\ pc' = [pc EXCEPT ![i] = "returned"]
    /\ UNCHANGED <<queueVars, workerVars, fileVars, drainVars, storeVars, lifeVars>>

\* What overflow_dir.glob("overflow_*.json") sees: not a *.json.tmp.
Glob == {r \in Row : file[r] \in {"torn", "whole"}}

\* The rows whose producers drew the file name that r's drew.
Sharers(r) == {s \in Row \ {r} : stamp[s] = stamp[r] /\ stamp[r] # 0}

Shared(r) == Sharers(r) # {}

\* A list of file names, held as rows, once the file of some row of S is r's.
Follow(L, S, r) == IF L \cap S = {} THEN L ELSE (L \ S) \cup {r}

\* What the files of the rows of S held is gone; the name now holds r's bytes.
TakesFile(r, S, bytes) ==
    /\ file' = [s \in Row |-> IF s = r THEN bytes ELSE IF s \in S THEN "none" ELSE file[s]]
    /\ pass' = Follow(pass, S, r)
    /\ retiring' = Follow(retiring, S, r)

\* Queue full past the bounded wait, and fewer files than the cap: the name is
\* drawn from the clock (whole seconds) and the sequence counter, which is read
\* in one step and counted on in another, without a lock.
Name(r) ==
    /\ pc[r] = "held" /\ r \in Row \ BadArity
    /\ Len(queue) = QueueMax
    /\ Cardinality(Glob) < OverflowMax
    /\ \/ UNCHANGED named
       \/ named' = named + 1 /\ \E s \in Row : stamp[s] = named'  \* a later second
    /\ stamp' = [stamp EXCEPT ![r] = named' + 1]
    /\ pc' = [pc EXCEPT ![r] = "naming"]
    /\ UNCHANGED <<queueVars, workerVars, file, drainVars, storeVars, lifeVars>>

\* The counter is past the name, and the file is created or truncated: the SQLite
\* sink opens the final name, the pooled one a temporary beside it.
Open(r) ==
    /\ pc[r] = "naming"
    /\ named' = IF named < stamp[r] THEN stamp[r] ELSE named
    /\ TakesFile(r, {s \in Sharers(r) : Pooled => file[s] = "tmp"},
                 IF Pooled THEN "tmp" ELSE "torn")
    /\ pc' = [pc EXCEPT ![r] = "spilling"]
    /\ UNCHANGED <<queueVars, workerVars, stamp, due, storeVars, lifeVars>>

\* The write completes, in whatever file has the name by now: over another
\* row's bytes the longer of the two shows through.  The temporary is moved to
\* its final name; bytes written to an unlinked or overwritten file are nowhere.
SpillDone(r) ==
    /\ pc[r] = "spilling"
    /\ \/ /\ \E s \in Sharers(r) \cup {r} : file[s] # "none" /\ (Pooled => file[s] = "tmp")
          /\ \E bytes \in {"whole", "torn"} :
               /\ bytes = "torn" => Shared(r)
               /\ TakesFile(r, Sharers(r), bytes)
       \/ file[r] = "none" /\ ~Pooled /\ UNCHANGED <<file, pass, retiring>>
    /\ pc' = [pc EXCEPT ![r] = "returned"]
    /\ UNCHANGED <<queueVars, workerVars, stamp, named, due, storeVars, lifeVars>>

\* Another producer has moved the shared temporary away, and with it perhaps
\* r's bytes: os.replace raises, and the row is dead-lettered.
SpillBeaten(r) ==
    /\ pc[r] = "spilling" /\ Pooled
    /\ \A s \in Sharers(r) \cup {r} : file[s] # "tmp"
    /\ \/ UNCHANGED <<file, pass, retiring>>
       \/ /\ \E s \in Sharers(r) : file[s] # "none"
          /\ \E bytes \in {"whole", "torn"} : TakesFile(r, Sharers(r), bytes)
    /\ DeadLetter(r)
    /\ pc' = [pc EXCEPT ![r] = "returned"]
    /\ UNCHANGED <<queueVars, workerVars, stamp, named, due, ledger, lifeVars>>

\* The file cap is reached, or the directory refuses: the row is dead-lettered.
SpillRefused(r) ==
    /\ \/ /\ pc[r] = "held" /\ r \in Row \ BadArity
          /\ Len(queue) = QueueMax
          /\ Cardinality(Glob) >= OverflowMax \/ Fault("file")
       \/ pc[r] = "spilling" /\ Fault("file")
    /\ DeadLetter(r)
    /\ pc' = [pc EXCEPT ![r] = "returned"]
    /\ UNCHANGED <<queueVars, workerVars, fileVars, drainVars, ledger, lifeVars>>

-----------------------------------------------------------------------------
(* The AuditDB_Worker thread *)

\* backend_factory() returned: the pooled backend is ready, SQLite still has to
\* open its connection on this thread.
Construct ==
    /\ wpc = "construct"
    /\ wpc' = IF Pooled THEN "loop" ELSE "touch"
    /\ UNCHANGED <<pc, queueVars, batch, done, work, fileVars, drainVars, storeVars, lifeVars>>

\* backend_factory() raised: retried for as long as the plane runs.
ConstructFails ==
    /\ wpc = "construct" /\ Fault("construct")
    /\ wpc' = IF running THEN "construct" ELSE "exited"
    /\ UNCHANGED <<pc, queueVars, batch, done, work, fileVars, drainVars, storeVars, lifeVars>>

Touch ==
    /\ wpc = "touch"
    /\ wpc' = "loop"
    /\ UNCHANGED <<pc, queueVars, batch, done, work, fileVars, drainVars, storeVars, lifeVars>>

\* backend.touch() raised outside every handler: the thread dies.
TouchFails ==
    /\ wpc = "touch" /\ Fault("touch")
    /\ wpc' = "exited"
    /\ UNCHANGED <<pc, queueVars, batch, done, work, fileVars, drainVars, storeVars, lifeVars>>

\* while self._running or not q.empty()
LoopHead ==
    /\ wpc = "loop"
    /\ wpc' = IF running \/ queue # <<>> THEN "taking" ELSE "exited"
    /\ UNCHANGED <<pc, queueVars, batch, done, work, fileVars, drainVars, storeVars, lifeVars>>

\* Mutant of Take: task_done() as soon as the item is taken.
TakeAcks ==
    /\ wpc = "taking" /\ queue # <<>> /\ Len(batch) < BatchMax
    /\ batch' = Append(batch, Head(queue))
    /\ queue' = Tail(queue)
    /\ unfinished' = unfinished - 1
    /\ UNCHANGED <<pc, wpc, done, work, fileVars, drainVars, storeVars, lifeVars>>

Take ==
    /\ wpc = "taking" /\ queue # <<>> /\ Len(batch) < BatchMax
    /\ batch' = Append(batch, Head(queue))
    /\ queue' = Tail(queue)
    /\ UNCHANGED <<pc, unfinished, wpc, done, work, fileVars, drainVars, storeVars, lifeVars>>

\* Batch full or queue empty: open the transaction.
BeginBatch ==
    /\ wpc = "taking" /\ batch # <<>>
    /\ queue = <<>> \/ Len(batch) = BatchMax
    /\ wpc' = "txn" /\ work' = ledger
    /\ UNCHANGED <<pc, queueVars, batch, done, fileVars, drainVars, storeVars, lifeVars>>

\* Mutant of Execute: the batch is sorted by statement text, CLOSE before OPEN.
ExecuteSorted ==
    /\ wpc = "txn" /\ done < Len(batch)
    /\ work' = LET Closes == SelectSeq(batch, LAMBDA i : i \in Row /\ i.kind = "CLOSE")
                   Others == SelectSeq(batch, LAMBDA i : ~(i \in Row /\ i.kind = "CLOSE"))
               IN  Apply(work, (Closes \o Others)[done + 1])
    /\ done' = done + 1
    /\ UNCHANGED <<pc, queueVars, wpc, batch, fileVars, drainVars, storeVars, lifeVars>>

\* The next statement of the batch, in the order the producers enqueued.
Execute ==
    /\ wpc = "txn" /\ done < Len(batch)
    /\ work' = Apply(work, batch[done + 1])
    /\ done' = done + 1
    /\ UNCHANGED <<pc, queueVars, wpc, batch, fileVars, drainVars, storeVars, lifeVars>>

Commit ==
    /\ wpc = "txn" /\ done = Len(batch)
    /\ ledger' = work
    /\ wpc' = "ack"
    /\ UNCHANGED <<pc, queueVars, batch, done, work, fileVars, drainVars, dead, husk, lost, lifeVars>>

\* Mutant of Rollback: a failed batch is acknowledged without salvage.
RollbackDropsBatch ==
    /\ wpc = "txn" /\ Fault("statement")
    /\ wpc' = "ack" /\ done' = 0
    /\ UNCHANGED <<pc, queueVars, batch, work, fileVars, drainVars, storeVars, lifeVars>>

\* A statement or the commit raised: rollback, then salvage row by row.
Rollback ==
    /\ wpc = "txn" /\ Fault("statement")
    /\ wpc' = "salvage" /\ done' = 0
    /\ UNCHANGED <<pc, queueVars, batch, work, fileVars, drainVars, storeVars, lifeVars>>

SalvageRow ==
    /\ wpc = "salvage" /\ done < Len(batch)
    /\ \/ ledger' = Apply(ledger, batch[done + 1]) /\ UNCHANGED <<dead, husk, lost>>
       \/ Fault("statement") /\ DeadLetter(batch[done + 1]) /\ UNCHANGED ledger
    /\ done' = done + 1
    /\ UNCHANGED <<pc, queueVars, wpc, batch, work, fileVars, drainVars, lifeVars>>

SalvageDone ==
    /\ wpc = "salvage" /\ done = Len(batch)
    /\ wpc' = "ack"
    /\ UNCHANGED <<pc, queueVars, batch, done, work, fileVars, drainVars, storeVars, lifeVars>>

\* task_done() for every item of the batch.
Acknowledge ==
    /\ wpc = "ack"
    /\ unfinished' = unfinished - Len(batch)
    /\ batch' = <<>> /\ done' = 0
    /\ wpc' = "loop"
    /\ UNCHANGED <<pc, queue, work, fileVars, drainVars, storeVars, lifeVars>>

-----------------------------------------------------------------------------
(* Overflow recovery, on the worker's idle passes *)

\* Mutant of Idle: overflow files are terminal (BUG-285).
IdleNoDrain ==
    /\ wpc = "taking" /\ batch = <<>> /\ queue = <<>>
    /\ wpc' = "drain" /\ due' = FALSE /\ pass' = {}
    /\ UNCHANGED <<pc, queueVars, batch, done, work, fileVars, retiring, storeVars, lifeVars>>

\* q.get timed out on an empty queue: one recovery pass, if one is due, over
\* the oldest files.
Idle ==
    /\ wpc = "taking" /\ batch = <<>> /\ queue = <<>>
    /\ wpc' = "drain"
    /\ due' = FALSE
    /\ pass' = IF due
               THEN {r \in Glob :
                       Cardinality({s \in Glob : stamp[s] < stamp[r]}) < OverflowBatch}
               ELSE {}
    /\ UNCHANGED <<pc, queueVars, batch, done, work, fileVars, retiring, storeVars, lifeVars>>

Oldest(r, S) == r \in S /\ \A s \in S : stamp[r] <= stamp[s]

\* Mutant of Replay: the statement is executed and never committed.
ReplayUncommitted(r) ==
    /\ wpc = "drain" /\ retiring = {} /\ Oldest(r, pass)
    /\ file[r] = "whole"
    /\ pass' = pass \ {r} /\ retiring' = {r}
    /\ UNCHANGED <<pc, queueVars, workerVars, fileVars, due, storeVars, lifeVars>>

\* A whole file is replayed, in a transaction of its own.
Replay(r) ==
    /\ wpc = "drain" /\ retiring = {} /\ Oldest(r, pass)
    /\ file[r] = "whole"
    /\ ledger' = Apply(ledger, r)
    /\ pass' = pass \ {r} /\ retiring' = {r}
    /\ UNCHANGED <<pc, queueVars, workerVars, fileVars, due, dead, husk, lost, lifeVars>>

\* A torn file does not parse; a whole one may fail to execute.  Its args are a
\* JSON string, so the record that replaces it carries none.
ReplayRejected(r) ==
    /\ wpc = "drain" /\ retiring = {} /\ Oldest(r, pass)
    /\ file[r] = "torn" \/ Fault("statement")
    /\ DeadLetterNoArgs(r)
    /\ pass' = pass \ {r} /\ retiring' = {r}
    /\ UNCHANGED <<pc, queueVars, workerVars, fileVars, due, ledger, lifeVars>>

\* Rename, then unlink; both refused (an open handle on Windows) leaves the file.
Retire(r) ==
    /\ wpc = "drain" /\ r \in retiring
    /\ \/ file' = [file EXCEPT ![r] = "none"]
       \/ Fault("retire") /\ UNCHANGED file
    /\ retiring' = {}
    /\ UNCHANGED <<pc, queueVars, workerVars, stamp, named, pass, due, storeVars, lifeVars>>

DrainEnds ==
    /\ wpc = "drain" /\ retiring = {} /\ pass = {}
    /\ wpc' = "loop"
    /\ UNCHANGED <<pc, queueVars, batch, done, work, fileVars, drainVars, storeVars, lifeVars>>

\* overflow_recovery_interval_sec since the last pass.
CadenceElapses ==
    /\ ~due
    /\ due' = TRUE
    /\ UNCHANGED <<pc, queueVars, workerVars, fileVars, pass, retiring, storeVars, lifeVars>>

-----------------------------------------------------------------------------
(* Shutdown, process death and restart *)

\* close(): _running is cleared and the plane reference dropped, then stop().
BeginClose ==
    /\ cpc = "up" /\ Fault("close")
    /\ cpc' = "flushing"
    /\ UNCHANGED <<pc, queueVars, workerVars, fileVars, drainVars, storeVars,
                   covered, restarts, crashLost>>

FlushReturns ==
    /\ cpc = "flushing" /\ unfinished = 0
    /\ covered' = {r \in Row : pc[r] = "returned"}
    /\ cpc' = "joining"
    /\ UNCHANGED <<pc, queueVars, workerVars, fileVars, drainVars, storeVars,
                   restarts, crashLost>>

\* Mutant of FlushTimesOut: queue.join() has no deadline.
FlushWaitsForever == FALSE /\ UNCHANGED vars

FlushTimesOut ==
    /\ cpc = "flushing" /\ unfinished > 0
    /\ cpc' = "joining"
    /\ UNCHANGED <<pc, queueVars, workerVars, fileVars, drainVars, storeVars,
                   covered, restarts, crashLost>>

\* worker.join(timeout): returns when the thread is gone or the time is up.
JoinEnds ==
    /\ cpc = "joining"
    /\ cpc' = "down"
    /\ UNCHANGED <<pc, queueVars, workerVars, fileVars, drainVars, storeVars,
                   covered, restarts, crashLost>>

\* The process ends, after close() or by a crash, taking its daemon thread and
\* its memory with it, and a new one starts on what was left on disk.
Restart ==
    /\ cpc = "down" \/ Fault("crash")
    /\ restarts < MaxRestarts
    /\ restarts' = restarts + 1
    /\ crashLost' = crashLost \cup (Pending \cap Row)
    /\ pc' = [i \in Item |-> IF pc[i] \in {"held", "naming", "spilling"} THEN "failed" ELSE pc[i]]
    /\ named' = named + 1   \* a later second
    /\ queue' = <<>> /\ unfinished' = 0
    /\ wpc' = "construct" /\ batch' = <<>> /\ done' = 0 /\ work' = ledger
    /\ pass' = {} /\ retiring' = {} /\ due' = TRUE
    /\ cpc' = "up" /\ covered' = {}
    /\ UNCHANGED <<file, stamp, storeVars>>

-----------------------------------------------------------------------------
Produce ==
    \/ \E i \in Item : Resolve(i) \/ RefuseArity(i) \/ Put(i) \/ DropTelemetry(i)
    \/ \E r \in Row : Name(r) \/ Open(r) \/ SpillDone(r) \/ SpillBeaten(r) \/ SpillRefused(r)

Worker ==
    \/ Construct \/ ConstructFails \/ Touch \/ TouchFails \/ LoopHead
    \/ Take \/ BeginBatch \/ Execute \/ Commit \/ Rollback
    \/ SalvageRow \/ SalvageDone \/ Acknowledge
    \/ Idle \/ DrainEnds
    \/ \E r \in Row : Replay(r) \/ ReplayRejected(r) \/ Retire(r)

Closer == BeginClose \/ FlushReturns \/ FlushTimesOut \/ JoinEnds

Next == Produce \/ Worker \/ CadenceElapses \/ Closer \/ Restart

Spec == Init /\ [][Next]_vars

\* The worker thread is scheduled, the clock advances, and a flush or a join
\* that was begun ends: each has a deadline.
Fairness ==
    /\ WF_vars(Worker)
    /\ WF_vars(CadenceElapses)
    /\ WF_vars(FlushReturns \/ FlushTimesOut \/ JoinEnds)
    /\ \A r \in Row : WF_vars(Open(r) \/ SpillDone(r) \/ SpillBeaten(r) \/ SpillRefused(r))

FairSpec == Spec /\ Fairness

-----------------------------------------------------------------------------
(* Properties *)

\* Where row r stands for its producer, once enqueue_financial returned.
Fate(r) ==
    CASE pc[r] # "returned"  -> "absent"
      [] pc[r] = "returned" /\ r \in Pending -> "pending"
      [] OTHER ->
           IF file[r] = "whole"      THEN "spilled"
           ELSE IF r \in dead        THEN "dead"
           ELSE IF r \in lost        THEN "lost"
           ELSE IF r \in husk        THEN "husk"
           ELSE IF r \in crashLost   THEN "died"
           ELSE IF Durable(r)        THEN "durable"
           ELSE IF file[r] = "torn"  THEN "garbled"
           ELSE "vanished"

\* Types, and the capacity QUEUE_MAXSIZE gives the queue and BATCH_MAX_ROWS
\* the batch.
TypeOK ==
    /\ pc \in [Item -> {"idle", "held", "naming", "spilling", "returned", "failed"}]
    /\ queue \in Seq(Item) /\ Len(queue) <= QueueMax
    /\ unfinished \in Nat
    /\ wpc \in {"construct", "touch", "loop", "taking", "txn", "salvage", "ack",
                "drain", "exited"}
    /\ batch \in Seq(Item) /\ Len(batch) <= BatchMax
    /\ done \in 0..Len(batch)
    /\ work \in [Ticket -> LedgerState]
    /\ file \in [Row -> {"none", "tmp", "torn", "whole"}]
    /\ stamp \in [Row -> Nat] /\ named \in Nat
    /\ pass \subseteq Row /\ retiring \subseteq Row /\ due \in BOOLEAN
    /\ ledger \in [Ticket -> LedgerState]
    /\ dead \subseteq Row /\ husk \subseteq Row /\ lost \subseteq Row
    /\ cpc \in {"up", "flushing", "joining", "down"}
    /\ covered \subseteq Row /\ restarts \in Nat /\ crashLost \subseteq Row

\* A financial row is silently dropped in one way only: its producer drew the
\* overflow file name another producer was drawing, and that other row is still
\* kept.  Otherwise, once enqueue_financial returned, the row is on its way to the
\* ledger, in it, in an overflow file, in the dead-letter table, logged CRITICAL
\* as unrecoverable, or it was in the memory of a process that died.  Broken by
\* any hand-over (queue, batch, salvage, spill, replay, retirement) that lets go
\* before the next one holds.
NoSilentLoss == \A r \in Row :
    Fate(r) = "vanished" => \E s \in Sharers(r) : Fate(s) # "vanished"

\* A flush that returned TRUE did not leave behind a row accepted before it
\* returned: none of them is still in the queue or in the worker's hands.
FlushHonest == covered \cap Pending = {}

\* A closed ticket has lost its entry context only if its OPEN never reached the
\* ledger in queue order: it was spilled, dead-lettered or lost, or died with a
\* process (ACID-01: one batch may hold the OPEN and the CLOSE of a ticket).
EntryContextKept ==
    \A t \in Ticket :
        ledger[t] = "CLOSED_NO_ENTRY" /\ pc[OpenOf(t)] = "returned" =>
            \/ stamp[OpenOf(t)] # 0
            \/ OpenOf(t) \in dead \cup lost \cup crashLost

\* No replay, salvage or restart moves a ticket backwards: a recorded close
\* stays closed and a stored entry context stays stored.
LedgerMovesForward ==
    \A t \in Ticket : ledger'[t] # ledger[t] =>
        <<ledger[t], ledger'[t]>> \in
            {<<"NONE", "OPENED">>, <<"NONE", "CLOSED">>, <<"NONE", "CLOSED_NO_ENTRY">>,
             <<"OPENED", "CLOSED">>}
LedgerNeverRegresses == [][LedgerMovesForward]_vars

\* What the contract sees of r: nothing, from the moment two producers have
\* drawn one file name.
Standing(r) == IF Shared(r) THEN "exempt" ELSE Fate(r)

Contract == INSTANCE AuditDurability WITH fate <- [r \in Row |-> Standing(r)]

\* The plane implements the durability contract of AuditDurability: whatever
\* the interleaving of producers, worker, shutdown and crashes, what a producer
\* could observe of its row changes only as the contract allows.
ImplementsContract == Contract!Spec

\* A row accepted before shutdown, by a plane whose worker has its connection,
\* reaches the ledger or the dead-letter path while the process lives, or is left
\* in an overflow file by a shutdown; a row whose file name was drawn twice is not
\* counted.
Settles ==
    \A r \in Row :
        (pc[r] = "returned" /\ cpc = "up" /\ wpc \notin {"construct", "touch", "exited"}) ~>
            \/ Fate(r) \in {"durable", "dead", "husk", "lost"} \/ Shared(r)
            \/ cpc # "up" /\ Fate(r) = "spilled"

\* close() returns whatever became of the worker.
CloseTerminates == (cpc = "flushing") ~> (cpc = "down")
=============================================================================
