----------------------- MODULE AuditContract_proofs -----------------------
(***************************************************************************)
(* Where a row of AuditWritePlane is and which of two rows comes first:    *)
(* the entry context of a closed ticket, and the implementation of the     *)
(* durability contract of AuditDurability, for every value of the          *)
(* constants.                                                              *)
(*                                                                         *)
(* The argument.  An item is in the memory of the plane at most once, and  *)
(* only after its producer returned (MemoryInv).  The CLOSE of a ticket is *)
(* handed over after its OPEN, so queue and batch hold them in that order  *)
(* (OrderInv), and a statement that finds no entry context finds a ticket  *)
(* whose OPEN did not travel that way (EntryInv).  A row whose overflow    *)
(* file name is its own is held in one place at a time - memory, that      *)
(* file, the dead-letter records - until the step that settles it          *)
(* (PlaceInv); hence each step changes the standing of at most the rows    *)
(* the contract lets it change.                                            *)
(***************************************************************************)
EXTENDS AuditWritePlane_proofs

CloseOf(t) == [ticket |-> t, kind |-> "CLOSE"]

\* What the plane holds in memory was handed over, and is there once.
MemoryInv ==
    /\ \A n \in 1..Len(queue) : pc[queue[n]] = "returned"
    /\ \A n \in 1..Len(batch) : pc[batch[n]] = "returned"
    /\ \A m, n \in 1..Len(queue) : queue[m] = queue[n] => m = n
    /\ \A m, n \in 1..Len(batch) : batch[m] = batch[n] => m = n
    /\ \A m \in 1..Len(batch) : \A n \in 1..Len(queue) : batch[m] # queue[n]

\* A CLOSE is started after its OPEN was answered, and stays behind it.
StartInv == \A t \in Ticket :
    pc[CloseOf(t)] # "idle" => pc[OpenOf(t)] \in {"returned", "failed"}

Before(s, o, c) == \A m, n \in 1..Len(s) : s[m] = c /\ s[n] = o => n < m

OrderInv == \A t \in Ticket :
    /\ Before(queue, OpenOf(t), CloseOf(t))
    /\ Before(batch, OpenOf(t), CloseOf(t))
    /\ \A m \in 1..Len(batch) : \A n \in 1..Len(queue) :
         ~(batch[m] = CloseOf(t) /\ queue[n] = OpenOf(t))

SequenceInv == MemoryInv /\ StartInv /\ OrderInv

-----------------------------------------------------------------------------
(* Memory: each item once, and in the order of the producers *)

LEMMA TicketRows ==
    ASSUME NEW t \in Ticket
    PROVE  /\ OpenOf(t) \in Row /\ OpenOf(t) \in Item
           /\ CloseOf(t) \in Row /\ CloseOf(t) \in Item
           /\ OpenOf(t).kind = "OPEN" /\ OpenOf(t).ticket = t
           /\ CloseOf(t).kind = "CLOSE" /\ CloseOf(t).ticket = t
           /\ OpenOf(t) # CloseOf(t)
  BY DEF Row, Item, OpenOf, CloseOf

LEMMA SequenceInit == Init => SequenceInv
  BY TicketRows DEF Init, SequenceInv, MemoryInv, StartInv, OrderInv, Before

\* A step that moves no item and takes back no answer.
LEMMA SequenceFrame ==
    ASSUME TypeOK, TypeOK', SequenceInv, StartInv', queue' = queue,
           batch' = batch \/ batch' = <<>>,
           \A i \in Item : pc[i] = "returned" => pc'[i] = "returned"
    PROVE  SequenceInv'
  <1>1. CASE batch' = batch
    BY <1>1 DEF TypeOK, SequenceInv, MemoryInv, OrderInv, Before
  <1>2. CASE batch' = <<>>
    BY <1>2 DEF TypeOK, SequenceInv, MemoryInv, OrderInv, Before
  <1>3. QED
    BY <1>1, <1>2

\* The overflow path of a producer.
Overflow(r) == Name(r) \/ Open(r) \/ SpillDone(r) \/ SpillBeaten(r) \/ SpillRefused(r)

LEMMA StartStep == TypeOK /\ TypeOK' /\ StartInv /\ [Next]_vars => StartInv'
  <1> SUFFICES ASSUME TypeOK, TypeOK', StartInv, [Next]_vars
               PROVE  StartInv'
    OBVIOUS
  <1> USE TicketRows, RowFields DEF vars, queueVars, workerVars, fileVars, drainVars, storeVars, lifeVars
  <1>1. ASSUME NEW i \in Item, Resolve(i)
        PROVE  StartInv'
    BY <1>1 DEF Resolve, StartInv, TypeOK
  <1>2. ASSUME NEW i \in Item, RefuseArity(i) \/ Put(i) \/ DropTelemetry(i)
        PROVE  StartInv'
    BY <1>2 DEF RefuseArity, Put, DropTelemetry, StartInv, TypeOK
  <1>3. ASSUME NEW r \in Row, Overflow(r)
        PROVE  StartInv'
    <2>1. /\ pc[r] \in {"held", "naming", "spilling"}
          /\ \E x \in {"naming", "spilling", "returned"} : pc' = [pc EXCEPT ![r] = x]
      BY <1>3 DEF Overflow, Name, Open, SpillDone, SpillBeaten, SpillRefused
    <2>2. PICK y \in {"naming", "spilling", "returned"} : pc' = [pc EXCEPT ![r] = y]
      BY <2>1
    <2>3. /\ \A s \in Row : s # r => pc'[s] = pc[s]
          /\ pc'[r] = y
      BY <2>2 DEF TypeOK
    <2>4. ASSUME NEW t \in Ticket, pc'[CloseOf(t)] # "idle"
          PROVE  pc'[OpenOf(t)] \in {"returned", "failed"}
      <3>1. pc[CloseOf(t)] # "idle"
        BY <2>1, <2>3, <2>4
      <3>2. pc[OpenOf(t)] \in {"returned", "failed"}
        BY <3>1 DEF StartInv
      <3>3. QED
        BY <2>1, <2>3, <3>2
    <2>5. QED
      BY <2>4 DEF StartInv, OpenOf, CloseOf
  <1>4. CASE Restart
    BY <1>4 DEF Restart, StartInv, TypeOK
  <1>5. CASE pc' = pc
    BY <1>5 DEF StartInv
  <1>6. CASE Worker \/ CadenceElapses \/ Closer
    BY <1>5, <1>6 DEF Worker, CadenceElapses, Closer, Construct, ConstructFails, Touch,
       TouchFails, LoopHead, Take, BeginBatch, Execute, Commit, Rollback, SalvageRow,
       SalvageDone, Acknowledge, Idle, DrainEnds, Replay, ReplayRejected, Retire,
       BeginClose, FlushReturns, FlushTimesOut, JoinEnds
  <1>7. QED
    BY <1>1, <1>2, <1>3, <1>4, <1>5, <1>6 DEF Next, Produce, Overflow

LEMMA PutSequence ==
    ASSUME TypeOK, TypeOK', SequenceInv, StartInv', NEW i \in Item, Put(i)
    PROVE  SequenceInv'
  <1>1. /\ pc[i] = "held" /\ pc'[i] = "returned"
        /\ \A x \in Item : pc[x] = "returned" => pc'[x] = "returned"
        /\ batch' = batch
    BY DEF Put, TypeOK, workerVars
  <1>2. /\ Len(queue) \in Nat /\ Len(queue') = Len(queue) + 1
        /\ \A n \in 1..Len(queue) : queue'[n] = queue[n] /\ queue[n] \in Item
        /\ queue'[Len(queue) + 1] = i
    BY DEF Put, TypeOK
  <1>3. \A n \in 1..Len(queue') : n \in 1..Len(queue) \/ n = Len(queue) + 1
    BY <1>2
  <1>4. \A n \in 1..Len(batch) : batch[n] \in Item /\ batch[n] # i
    BY <1>1 DEF TypeOK, SequenceInv, MemoryInv
  <1>5. \A n \in 1..Len(queue) : queue[n] # i
    BY <1>1 DEF SequenceInv, MemoryInv
  <1>6. MemoryInv'
    BY <1>1, <1>2, <1>3, <1>4, <1>5 DEF SequenceInv, MemoryInv
  <1>7. ASSUME NEW t \in Ticket, i = OpenOf(t)
        PROVE  /\ \A n \in 1..Len(queue) : queue[n] # CloseOf(t)
               /\ \A n \in 1..Len(batch) : batch[n] # CloseOf(t)
    <2>1. pc[CloseOf(t)] = "idle"
      BY <1>1, <1>7 DEF SequenceInv, StartInv
    <2>2. QED
      BY <2>1 DEF SequenceInv, MemoryInv
  <1>8. ASSUME NEW t \in Ticket
        PROVE  /\ Before(queue', OpenOf(t), CloseOf(t))
               /\ Before(batch', OpenOf(t), CloseOf(t))
               /\ \A m \in 1..Len(batch') : \A n \in 1..Len(queue') :
                    ~(batch'[m] = CloseOf(t) /\ queue'[n] = OpenOf(t))
    <2>1. /\ Before(queue, OpenOf(t), CloseOf(t))
          /\ Before(batch, OpenOf(t), CloseOf(t))
          /\ \A m \in 1..Len(batch) : \A n \in 1..Len(queue) :
               ~(batch[m] = CloseOf(t) /\ queue[n] = OpenOf(t))
      BY DEF SequenceInv, OrderInv
    <2>2. OpenOf(t) # CloseOf(t)
      BY TicketRows
    <2>3. Before(queue', OpenOf(t), CloseOf(t))
      BY <1>2, <1>3, <1>5, <1>7, <2>1, <2>2 DEF Before
    <2>4. QED
      BY <1>1, <1>2, <1>3, <1>7, <2>1, <2>3
  <1>9. OrderInv'
    BY <1>8 DEF OrderInv, Before
  <1>10. QED
    BY <1>6, <1>9 DEF SequenceInv

LEMMA TakeSequence ==
    ASSUME TypeOK, TypeOK', SequenceInv, StartInv', Take
    PROVE  SequenceInv'
  <1> DEFINE h == Head(queue)
  <1>1. /\ Len(queue) \in Nat /\ Len(queue) > 0 /\ Len(queue') = Len(queue) - 1
        /\ h = queue[1] /\ h \in Item
        /\ \A n \in 1..Len(queue') : queue'[n] = queue[n + 1] /\ n + 1 \in 1..Len(queue)
    BY ElemsTail DEF Take, TypeOK
  <1>2. /\ Len(batch) \in Nat /\ Len(batch') = Len(batch) + 1
        /\ \A n \in 1..Len(batch) : batch'[n] = batch[n]
        /\ batch'[Len(batch) + 1] = h
    BY <1>1 DEF Take, TypeOK
  <1>3. \A n \in 1..Len(batch') : n \in 1..Len(batch) \/ n = Len(batch) + 1
    BY <1>2
  <1>4. pc' = pc /\ 1 \in 1..Len(queue)
    BY <1>1 DEF Take
  <1> HIDE DEF h
  <1>5. MemoryInv'
    <2>1. /\ \A n \in 1..Len(queue') : pc'[queue'[n]] = "returned"
          /\ \A m, n \in 1..Len(queue') : queue'[m] = queue'[n] => m = n
      BY <1>1, <1>4 DEF SequenceInv, MemoryInv
    <2>2. \A n \in 1..Len(batch') : pc'[batch'[n]] = "returned"
      BY <1>1, <1>2, <1>3, <1>4 DEF SequenceInv, MemoryInv
    <2>3. \A n \in 1..Len(batch) : batch[n] # h
      BY <1>1, <1>4 DEF SequenceInv, MemoryInv
    <2>4. \A m, n \in 1..Len(batch') : batch'[m] = batch'[n] => m = n
      BY <1>2, <1>3, <2>3 DEF SequenceInv, MemoryInv
    <2>5. ASSUME NEW m \in 1..Len(batch'), NEW n \in 1..Len(queue')
          PROVE  batch'[m] # queue'[n]
      BY <1>1, <1>2, <1>3, <1>4 DEF SequenceInv, MemoryInv
    <2>6. QED
      BY <2>1, <2>2, <2>4, <2>5 DEF MemoryInv
  <1>6. ASSUME NEW t \in Ticket
        PROVE  /\ Before(queue', OpenOf(t), CloseOf(t))
               /\ Before(batch', OpenOf(t), CloseOf(t))
               /\ \A m \in 1..Len(batch') : \A n \in 1..Len(queue') :
                    ~(batch'[m] = CloseOf(t) /\ queue'[n] = OpenOf(t))
    <2>1. /\ Before(queue, OpenOf(t), CloseOf(t))
          /\ Before(batch, OpenOf(t), CloseOf(t))
          /\ \A m \in 1..Len(batch) : \A n \in 1..Len(queue) :
               ~(batch[m] = CloseOf(t) /\ queue[n] = OpenOf(t))
      BY DEF SequenceInv, OrderInv
    <2>2. OpenOf(t) # CloseOf(t)
      BY TicketRows
    <2>3. Before(queue', OpenOf(t), CloseOf(t))
      BY <1>1, <2>1 DEF Before
    <2>4. Before(batch', OpenOf(t), CloseOf(t))
      <3>1. h = OpenOf(t) => \A m \in 1..Len(batch) : batch[m] # CloseOf(t)
        BY <1>1, <1>4, <2>1
      <3>2. QED
        BY <1>2, <1>3, <2>1, <2>2, <3>1 DEF Before
    <2>5. ASSUME NEW m \in 1..Len(batch'), NEW n \in 1..Len(queue')
          PROVE  ~(batch'[m] = CloseOf(t) /\ queue'[n] = OpenOf(t))
      BY <1>1, <1>2, <1>3, <1>4, <2>1 DEF Before
    <2>6. QED
      BY <2>3, <2>4, <2>5
  <1>7. OrderInv'
    BY <1>6 DEF OrderInv, Before
  <1>8. QED
    BY <1>5, <1>7 DEF SequenceInv

LEMMA SequenceStep == TypeInv /\ TypeInv' /\ SequenceInv /\ [Next]_vars => SequenceInv'
  <1> SUFFICES ASSUME TypeInv, TypeInv', SequenceInv, [Next]_vars
               PROVE  SequenceInv'
    OBVIOUS
  <1> USE DEF vars, queueVars, workerVars, fileVars, drainVars, storeVars, lifeVars
  <1>0. TypeOK /\ TypeOK' /\ StartInv'
    BY StartStep DEF TypeInv, SequenceInv
  <1>1. ASSUME NEW i \in Item, Put(i)
        PROVE  SequenceInv'
    BY <1>0, <1>1, PutSequence
  <1>2. CASE Take
    BY <1>0, <1>2, TakeSequence
  <1>3. CASE Restart
    <2>1. queue' = <<>> /\ batch' = <<>>
      BY <1>3 DEF Restart
    <2>2. QED
      BY <1>0, <2>1 DEF SequenceInv, MemoryInv, OrderInv, Before
  <1>4. ASSUME queue' = queue, batch' = batch \/ batch' = <<>>,
               \A i \in Item : pc[i] = "returned" => pc'[i] = "returned"
        PROVE  SequenceInv'
    BY <1>0, <1>4, SequenceFrame
  <1>5. ASSUME NEW i \in Item, Resolve(i) \/ RefuseArity(i) \/ DropTelemetry(i)
        PROVE  SequenceInv'
    BY <1>0, <1>4, <1>5 DEF Resolve, RefuseArity, DropTelemetry, TypeOK
  <1>6. ASSUME NEW r \in Row, Overflow(r)
        PROVE  SequenceInv'
    <2>1. /\ pc[r] # "returned" /\ queue' = queue /\ batch' = batch
          /\ \E x \in {"naming", "spilling", "returned"} : pc' = [pc EXCEPT ![r] = x]
      BY <1>6 DEF Overflow, Name, Open, SpillDone, SpillBeaten, SpillRefused
    <2>2. QED
      BY <1>0, <1>4, <2>1, RowFields DEF TypeOK
  <1>7. CASE Worker
    BY <1>2, <1>4, <1>7 DEF Worker, Construct, ConstructFails, Touch,
       TouchFails, LoopHead, BeginBatch, Execute, Commit, Rollback, SalvageRow,
       SalvageDone, Acknowledge, Idle, DrainEnds, Replay, ReplayRejected, Retire
  <1>8. CASE CadenceElapses \/ Closer \/ UNCHANGED vars
    BY <1>4, <1>8 DEF CadenceElapses, Closer, BeginClose, FlushReturns, FlushTimesOut, JoinEnds
  <1>9. QED
    BY <1>1, <1>3, <1>5, <1>6, <1>7, <1>8 DEF Next, Produce, Overflow
-----------------------------------------------------------------------------
(* Placement: a row is held in one place until it is settled *)

Memory == Elems(queue) \cup Elems(batch)

Gone(r) == r \in dead \cup lost \cup husk \cup crashLost

\* A row whose overflow file name no other row has: while it is written, in a
\* recovery pass, in its file, and once its file is left behind.
Alone(r) ==
    /\ pc[r] = "spilling" =>
         /\ file[r] # "whole" /\ r \notin dead \cup crashLost
         /\ file[r] = "none" \/ r \in retiring => r \in lost \cup husk
    /\ r \in pass => file[r] \in {"torn", "whole"} /\ r \notin retiring
    /\ file[r] = "whole" => r \notin dead \cup crashLost
    /\ pc[r] = "returned" /\ file[r] \in {"tmp", "torn"} => r \in dead \cup lost

\* Before a row is handed over, and in memory.
Placed(r) ==
    /\ pc[r] \in {"idle", "held"} => stamp[r] = 0
    /\ pc[r] \in {"idle", "held", "naming"} => ~Gone(r)
    /\ r \in Memory => stamp[r] = 0
    /\ r \in Pending => ~Gone(r)
    /\ stamp[r] = 0 => file[r] = "none" /\ r \notin husk /\ r \notin pass /\ r \notin retiring
    /\ file[r] = "whole" => pc[r] = "returned"
    /\ Shared(r) \/ Alone(r)

PlaceInv == \A r \in Row : Placed(r)

\* The recovery pass exists only while the worker drains.
DrainInv == wpc # "drain" => pass = {} /\ retiring = {}

LEMMA PendingInMemory == TypeOK => Pending \subseteq Memory
  BY DEF TypeOK, Pending, Unsettled, Memory, Elems

LEMMA MemoryReturned ==
    ASSUME SequenceInv, NEW i \in Memory
    PROVE  pc[i] = "returned"
  BY DEF SequenceInv, MemoryInv, Memory, Elems

LEMMA PlaceInit == Init => PlaceInv
  BY RowFields DEF Init, PlaceInv, Placed, Alone, Memory, Pending, Unsettled, Elems, Gone

LEMMA SharedFrame ==
    ASSUME stamp' = stamp
    PROVE  \A r \in Row : Shared(r)' <=> Shared(r)
  BY DEF Shared, Sharers

LEMMA UnnamedAlone ==
    ASSUME NEW r \in Row, stamp[r] = 0
    PROVE  ~Shared(r)
  BY DEF Shared, Sharers

\* A producer that writes its file, or truncates it, touches no row that has a
\* name of its own, its own row apart.
LEMMA TakesFileAlone ==
    ASSUME NEW x \in Row, NEW S \in SUBSET Sharers(x), NEW bytes, TakesFile(x, S, bytes)
    PROVE  /\ file'[x] = bytes
           /\ \A r \in Row : ~Shared(r) =>
                /\ r # x => file'[r] = file[r]
                /\ r \in pass' <=> r \in pass
                /\ r \in retiring' <=> r \in retiring
           /\ \A r \in Row : r # x => file'[r] \in {file[r], "none"}
           /\ pass' \subseteq pass \cup {x} /\ retiring' \subseteq retiring \cup {x}
           /\ x \in pass' => \E s \in pass : stamp[s] = stamp[x]
  <1>1. \A r \in Row : file'[r] = IF r = x THEN bytes ELSE IF r \in S THEN "none" ELSE file[r]
    BY DEF TakesFile
  <1>2. \A r \in Row : ~Shared(r) => r \notin S /\ (r = x => S = {})
    BY DEF Shared, Sharers
  <1>3. /\ pass' = IF pass \cap S = {} THEN pass ELSE (pass \ S) \cup {x}
        /\ retiring' = IF retiring \cap S = {} THEN retiring ELSE (retiring \ S) \cup {x}
    BY DEF TakesFile, Follow
  <1>4. \A s \in S : stamp[s] = stamp[x]
    BY DEF Sharers
  <1>5. \A r \in Row : ~Shared(r) => (r \in pass' <=> r \in pass)
    BY <1>2, <1>3
  <1>6. \A r \in Row : ~Shared(r) => (r \in retiring' <=> r \in retiring)
    BY <1>2, <1>3
  <1>7. x \in pass' => \E s \in pass : stamp[s] = stamp[x]
    BY <1>3, <1>4
  <1>8. QED
    BY <1>1, <1>2, <1>3, <1>5, <1>6, <1>7

\* A step that leaves the rows' files, stamps and records alone and brings
\* nothing into memory.
LEMMA PlaceFrame ==
    ASSUME PlaceInv, UNCHANGED <<pc, stamp, file, dead, lost, husk, crashLost>>,
           pass' \subseteq pass, retiring' \subseteq retiring,
           Memory' \subseteq Memory, Pending' \subseteq Pending
    PROVE  PlaceInv'
  BY SharedFrame DEF PlaceInv, Placed, Alone, Gone

\* The worker's steps that do not write a store, and the closer's.
Quiet ==
    \/ Construct \/ ConstructFails \/ Touch \/ TouchFails \/ LoopHead \/ Take
    \/ BeginBatch \/ Execute \/ Commit \/ Rollback \/ SalvageDone \/ Acknowledge
    \/ DrainEnds \/ CadenceElapses \/ Closer \/ UNCHANGED vars

LEMMA QuietMemory ==
    ASSUME TypeInv, Quiet
    PROVE  /\ Memory' \subseteq Memory /\ Pending' \subseteq Pending
           /\ Commit \/ Pending' = Pending
  <1> USE DEF vars, queueVars, workerVars, fileVars, drainVars, storeVars, lifeVars
  <1>0. TypeOK /\ BatchInv
    BY DEF TypeInv
  <1>1. CASE Take
    <2>1. Elems(queue) = Elems(queue') \cup {Head(queue)} /\ Head(queue) \in Item
      BY <1>0, <1>1, ElemsTail DEF Take, TypeOK
    <2>2. Elems(batch') = Elems(batch) \cup {Head(queue)}
      BY <1>0, <2>1, <1>1, ElemsAppend DEF Take, TypeOK
    <2>3. Pending = Elems(queue) \cup Elems(batch) /\ Pending' = Elems(queue') \cup Elems(batch')
      BY <1>1 DEF Take, Pending, Unsettled, Elems
    <2>4. QED
      BY <2>1, <2>2, <2>3 DEF Memory
  <1>2. CASE Commit
    BY <1>2 DEF Commit, Memory, Pending, Unsettled, Elems
  <1>3. CASE Acknowledge
    BY <1>0, <1>3 DEF Acknowledge, Memory, Pending, Unsettled, Elems, TypeOK
  <1>4. CASE Rollback
    BY <1>0, <1>4 DEF Rollback, Memory, Pending, Unsettled, Elems, TypeOK
  <1>5. CASE SalvageDone
    BY <1>0, <1>5 DEF SalvageDone, Memory, Pending, Unsettled, Elems, TypeOK
  <1>6. CASE queue' = queue /\ batch' = batch /\ Unsettled' = Unsettled
    BY <1>6 DEF Memory, Pending, Elems
  <1>7. CASE Construct \/ ConstructFails \/ Touch \/ TouchFails \/ LoopHead
             \/ BeginBatch \/ Execute \/ DrainEnds
    <2>1. queue' = queue /\ batch' = batch
      BY <1>7 DEF Construct, ConstructFails, Touch, TouchFails, LoopHead, BeginBatch,
         Execute, DrainEnds
    <2>2. wpc \notin {"ack", "salvage"} /\ wpc' \notin {"ack", "salvage"}
      BY <1>7 DEF Construct, ConstructFails, Touch, TouchFails, LoopHead, BeginBatch,
         Execute, DrainEnds
    <2>3. QED
      BY <1>6, <2>1, <2>2 DEF Unsettled, Elems
  <1>8. CASE CadenceElapses \/ Closer \/ UNCHANGED vars
    <2>1. queue' = queue /\ batch' = batch /\ wpc' = wpc /\ done' = done
      BY <1>8 DEF CadenceElapses, Closer, BeginClose, FlushReturns, FlushTimesOut, JoinEnds
    <2>2. QED
      BY <1>6, <2>1 DEF Unsettled, Elems
  <1>9. QED
    BY <1>1, <1>2, <1>3, <1>4, <1>5, <1>7, <1>8 DEF Quiet

LEMMA QuietPlace ==
    ASSUME TypeInv, PlaceInv, Quiet
    PROVE  PlaceInv'
  <1> USE DEF vars, queueVars, workerVars, fileVars, drainVars, storeVars, lifeVars
  <1>1. CASE Construct \/ ConstructFails \/ Touch \/ TouchFails \/ LoopHead \/ Take
             \/ BeginBatch \/ Execute \/ Commit \/ Rollback \/ SalvageDone \/ Acknowledge
             \/ DrainEnds
    <2>1. UNCHANGED <<pc, stamp, file, dead, lost, husk, crashLost, pass, retiring>>
      BY <1>1 DEF Construct, ConstructFails, Touch, TouchFails, LoopHead, Take, BeginBatch,
         Execute, Commit, Rollback, SalvageDone, Acknowledge, DrainEnds
    <2>2. QED
      BY <2>1, QuietMemory, PlaceFrame
  <1>2. CASE CadenceElapses \/ Closer \/ UNCHANGED vars
    <2>1. UNCHANGED <<pc, stamp, file, dead, lost, husk, crashLost, pass, retiring>>
      BY <1>2 DEF CadenceElapses, Closer, BeginClose, FlushReturns, FlushTimesOut, JoinEnds
    <2>2. QED
      BY <2>1, QuietMemory, PlaceFrame
  <1>3. QED
    BY <1>1, <1>2 DEF Quiet

\* The row salvaged next is not in memory a second time.
LEMMA SalvageOnce ==
    ASSUME TypeInv, SequenceInv, SalvageRow, NEW i \in Item, i = batch[done + 1]
    PROVE  /\ i \in Pending /\ Memory' = Memory
           /\ Pending' = Pending \ {i}
  <1>1. /\ done \in Nat /\ Len(batch) \in Nat /\ done + 1 \in 1..Len(batch) /\ wpc = "salvage"
        /\ queue' = queue /\ batch' = batch /\ wpc' = wpc /\ done' = done + 1
    BY DEF SalvageRow, TypeInv, TypeOK, queueVars
  <1>2. /\ \A n \in 1..Len(queue) : queue[n] # i
        /\ \A n \in 1..Len(batch) : n # done + 1 => batch[n] # i
    BY <1>1 DEF SequenceInv, MemoryInv
  <1>3. /\ Pending = Elems(queue) \cup {batch[n] : n \in done + 1..Len(batch)}
        /\ Pending' = Elems(queue) \cup {batch[n] : n \in (done + 1) + 1..Len(batch)}
    BY <1>1 DEF Pending, Unsettled, Elems
  <1>4. \A n \in done + 1..Len(batch) : n = done + 1 \/ n \in (done + 1) + 1..Len(batch)
    BY <1>1
  <1>5. \A n \in (done + 1) + 1..Len(batch) : n \in done + 1..Len(batch) /\ batch[n] # i
    <2>1. \A n \in (done + 1) + 1..Len(batch) :
            n \in done + 1..Len(batch) /\ n \in 1..Len(batch) /\ n # done + 1
      BY <1>1
    <2>2. QED
      BY <1>2, <2>1
  <1>6. i \notin Elems(queue)
    BY <1>2 DEF Elems
  <1>7. Pending' \subseteq Pending \ {i}
    BY <1>3, <1>5, <1>6
  <1>8. Pending \ {i} \subseteq Pending'
    BY <1>3, <1>4
  <1>9. i \in Pending
    BY <1>1, <1>3
  <1>10. QED
    BY <1>1, <1>7, <1>8, <1>9 DEF Memory, Elems

LEMMA DrainStep == DrainInv /\ [Next]_vars => DrainInv'
  <1> SUFFICES ASSUME DrainInv, [Next]_vars
               PROVE  DrainInv'
    OBVIOUS
  <1> USE DEF DrainInv, vars, queueVars, workerVars, fileVars, drainVars, storeVars, lifeVars
  <1>1. ASSUME NEW i \in Item, Resolve(i) \/ RefuseArity(i) \/ Put(i) \/ DropTelemetry(i)
        PROVE  DrainInv'
    BY <1>1 DEF Resolve, RefuseArity, Put, DropTelemetry
  <1>1a. ASSUME NEW r \in Row, Overflow(r)
         PROVE  DrainInv'
    <2>1. \A S, b : TakesFile(r, S, b) => (pass = {} => pass' = {}) /\ (retiring = {} => retiring' = {})
      BY DEF TakesFile, Follow
    <2>2. /\ wpc' = wpc
          /\ (pass' = pass /\ retiring' = retiring) \/ \E S, b : TakesFile(r, S, b)
      BY <1>1a DEF Overflow, Name, Open, SpillDone, SpillBeaten, SpillRefused
    <2>3. QED
      BY <2>1, <2>2
  <1>2. CASE Worker
    BY <1>2 DEF Worker, Construct, ConstructFails, Touch, TouchFails, LoopHead, Take,
       BeginBatch, Execute, Commit, Rollback, SalvageRow, SalvageDone, Acknowledge, Idle,
       DrainEnds, Replay, ReplayRejected, Retire
  <1>3. CASE CadenceElapses \/ Closer \/ Restart \/ UNCHANGED vars
    BY <1>3 DEF CadenceElapses, Closer, BeginClose, FlushReturns, FlushTimesOut, JoinEnds, Restart
  <1>4. QED
    BY <1>1, <1>1a, <1>2, <1>3 DEF Next, Produce, Overflow

LEMMA PlaceStep ==
    ASSUME TypeInv, TypeInv', SequenceInv, SequenceInv', DrainInv, NameInv, PlaceInv, [Next]_vars
    PROVE  PlaceInv'
  <1> USE DEF vars, queueVars, workerVars, fileVars, drainVars, storeVars, lifeVars
  <1>0. TypeOK /\ TypeOK' /\ BatchInv /\ Pending \subseteq Memory
    BY PendingInMemory DEF TypeInv
  <1>m. \A i \in Memory : pc[i] = "returned"
    BY MemoryReturned
  <1>h. ASSUME stamp' = stamp
        PROVE  \A r \in Row : Shared(r)' <=> Shared(r)
    BY <1>h, SharedFrame
  <1>s. ASSUME queue' = queue, batch' = batch, wpc' = wpc, done' = done
        PROVE  Memory' = Memory /\ Pending' = Pending
    BY <1>s DEF Memory, Pending, Unsettled, Elems
  <1>1. ASSUME NEW i \in Item, Resolve(i)
        PROVE  PlaceInv'
    <2>1. Memory' = Memory /\ Pending' = Pending
      BY <1>1, <1>s DEF Resolve
    <2>2. \A r \in Row : r # i => pc'[r] = pc[r]
      BY <1>0, <1>1, RowFields DEF Resolve, TypeOK
    <2>3. pc[i] = "idle" /\ pc'[i] \in {"held", "failed"}
      BY <1>0, <1>1 DEF Resolve, TypeOK
    <2>4. QED
      BY <2>1, <2>2, <2>3, <1>1, <1>h DEF Resolve, PlaceInv, Placed, Alone, Gone
  <1>2. ASSUME NEW i \in Item, RefuseArity(i)
        PROVE  PlaceInv'
    <2>1. Memory' = Memory /\ Pending' = Pending
      BY <1>2, <1>s DEF RefuseArity
    <2>2. \A r \in Row : r # i => pc'[r] = pc[r]
      BY <1>0, <1>2, RowFields DEF RefuseArity, TypeOK
    <2>3. pc[i] = "held" /\ pc'[i] = "returned"
      BY <1>0, <1>2 DEF RefuseArity, TypeOK
    <2>4. ASSUME NEW r \in Row, r # i PROVE Placed(r)'
      BY <2>1, <2>2, <2>4, <1>2, <1>h DEF RefuseArity, DeadLetter, PlaceInv, Placed, Alone, Gone
    <2>5. ASSUME i \in Row PROVE Placed(i)'
      BY <2>1, <2>3, <2>5, <1>0, <1>2, <1>m, <1>h DEF RefuseArity, DeadLetter, PlaceInv, Placed, Alone, Gone
    <2>6. QED
      BY <2>4, <2>5 DEF PlaceInv
  <1>3. ASSUME NEW i \in Item, Put(i)
        PROVE  PlaceInv'
    <2>1. Memory' = Memory \cup {i} /\ Pending' = Pending \cup {i}
      <3>1. Elems(queue') = Elems(queue) \cup {i}
        BY <1>0, <1>3, ElemsAppend DEF Put, TypeOK
      <3>2. QED
        BY <3>1, <1>3 DEF Put, Memory, Pending, Unsettled, Elems
    <2>2. \A r \in Row : r # i => pc'[r] = pc[r]
      BY <1>0, <1>3, RowFields DEF Put, TypeOK
    <2>3. pc[i] = "held" /\ pc'[i] = "returned"
      BY <1>0, <1>3 DEF Put, TypeOK
    <2>4. QED
      BY <2>1, <2>2, <2>3, <1>3, <1>h DEF Put, PlaceInv, Placed, Alone, Gone
  <1>4. ASSUME NEW i \in Item, DropTelemetry(i)
        PROVE  PlaceInv'
    <2>1. Memory' = Memory /\ Pending' = Pending
      BY <1>4, <1>s DEF DropTelemetry
    <2>2. \A r \in Row : pc'[r] = pc[r]
      BY <1>0, <1>4, RowFields, ConstantsAssumption DEF DropTelemetry, TypeOK
    <2>3. QED
      BY <2>1, <2>2, <1>4, <1>h DEF DropTelemetry, PlaceInv, Placed, Alone, Gone
  <1>5. ASSUME NEW x \in Row, Name(x)
        PROVE  PlaceInv'
    <2>1. Memory' = Memory /\ Pending' = Pending
      BY <1>5, <1>s DEF Name
    <2>2. \A r \in Row : r # x => pc'[r] = pc[r] /\ stamp'[r] = stamp[r]
      BY <1>0, <1>5, RowFields DEF Name, TypeOK
    <2>3. /\ pc[x] = "held" /\ pc'[x] = "naming" /\ stamp'[x] = named' + 1
          /\ named \in Nat /\ named' \in Nat /\ stamp[x] = 0
          /\ UNCHANGED <<file, pass, retiring, dead, lost, husk, crashLost>>
      BY <1>0, <1>5, RowFields DEF Name, TypeOK, PlaceInv, Placed
    <2>4. file[x] = "none" /\ x \notin pass /\ x \notin retiring /\ x \notin Memory /\ stamp'[x] # 0
      BY <1>m, <2>3 DEF PlaceInv, Placed
    <2>5. ASSUME NEW r \in Row, Shared(r) PROVE Shared(r)'
      BY <2>2, <2>3, <2>5 DEF Shared, Sharers
    <2>6. ASSUME NEW r \in Row, r # x PROVE Placed(r)'
      BY <2>1, <2>2, <2>3, <2>5, <2>6 DEF PlaceInv, Placed, Alone, Gone
    <2>7. Placed(x)'
      BY <2>1, <2>3, <2>4, <1>0 DEF PlaceInv, Placed, Alone, Gone
    <2>8. QED
      BY <2>6, <2>7 DEF PlaceInv
  <1>f. ASSUME NEW x \in Row, NEW S \in SUBSET Sharers(x), NEW bytes, TakesFile(x, S, bytes)
        PROVE  /\ file'[x] = bytes
               /\ ~Shared(x) => /\ x \in pass' <=> x \in pass
                                /\ x \in retiring' <=> x \in retiring
    BY <1>f, TakesFileAlone
  <1>t. ASSUME NEW x \in Row, NEW S \in SUBSET Sharers(x), NEW bytes, TakesFile(x, S, bytes),
               stamp' = stamp, stamp[x] # 0, queue' = queue, batch' = batch, wpc' = wpc, done' = done,
               \A r \in Row : r # x => pc'[r] = pc[r] /\ (Gone(r) <=> Gone(r)'),
               pc'[x] \in {"spilling", "returned"}, bytes = "whole" => pc'[x] = "returned",
               \A r \in Row : r # x => /\ r \in dead \cup crashLost <=> r \in dead' \cup crashLost'
                                       /\ r \in lost \cup husk => r \in lost' \cup husk'
                                       /\ r \in dead \cup lost => r \in dead' \cup lost'
                                       /\ r \in husk' <=> r \in husk,
               Shared(x) \/ Alone(x)'
        PROVE  PlaceInv'
    <2>1. Memory' = Memory /\ Pending' = Pending
      BY <1>t, <1>s
    <2>2. \A r \in Row : Shared(r)' <=> Shared(r)
      BY <1>t, SharedFrame
    <2>3. /\ \A r \in Row : ~Shared(r) =>
               /\ r # x => file'[r] = file[r]
               /\ r \in pass' <=> r \in pass
               /\ r \in retiring' <=> r \in retiring
          /\ file'[x] = bytes /\ \A r \in Row : r # x => file'[r] \in {file[r], "none"}
      BY <1>t, TakesFileAlone
    <2>4. \A r \in Row : stamp[r] = 0 => ~Shared(r)
      BY UnnamedAlone
    <2>5. ASSUME NEW r \in Row, r # x PROVE Placed(r)'
      <3>1. Shared(r)' \/ Alone(r)'
        BY <1>t, <2>2, <2>3, <2>5 DEF PlaceInv, Placed, Alone
      <3>2. QED
        BY <1>t, <2>1, <2>3, <2>4, <2>5, <3>1 DEF PlaceInv, Placed
    <2>6. Placed(x)'
      <3>1. x \notin Pending'
        BY <1>0, <1>t, <2>1 DEF PlaceInv, Placed
      <3>2. QED
        BY <1>t, <2>1, <2>2, <2>3, <3>1 DEF PlaceInv, Placed
    <2>7. QED
      BY <2>5, <2>6 DEF PlaceInv
  <1>6. ASSUME NEW x \in Row, Open(x)
        PROVE  PlaceInv'
    <2> DEFINE S == {s \in Sharers(x) : Pooled => file[s] = "tmp"}
               b == IF Pooled THEN "tmp" ELSE "torn"
    <2>1. /\ pc[x] = "naming" /\ pc'[x] = "spilling" /\ TakesFile(x, S, b)
          /\ \A r \in Row : r # x => pc'[r] = pc[r]
          /\ UNCHANGED <<stamp, queue, batch, wpc, done, dead, lost, husk, crashLost>>
      BY <1>0, <1>6, RowFields DEF Open, TypeOK
    <2>2. stamp[x] # 0 /\ x \notin retiring /\ x \notin pass /\ ~Gone(x)
      BY <2>1 DEF NameInv, PlaceInv, Placed
    <2>3. b \in {"tmp", "torn"} /\ S \in SUBSET Sharers(x)
      OBVIOUS
    <2> HIDE DEF S, b
    <2>4. ASSUME ~Shared(x) PROVE Alone(x)'
      <3>1. file'[x] = b /\ x \notin retiring' /\ x \notin pass'
        BY <1>f, <2>1, <2>2, <2>3, <2>4
      <3>2. QED
        BY <2>1, <2>2, <2>3, <3>1 DEF Alone, Gone
    <2>5. QED
      BY <1>t, <2>1, <2>2, <2>3, <2>4 DEF Gone
  <1>6a. ASSUME NEW x \in Row, SpillDone(x)
         PROVE  PlaceInv'
    <2>1. /\ pc[x] = "spilling" /\ pc'[x] = "returned"
          /\ \A r \in Row : r # x => pc'[r] = pc[r]
          /\ UNCHANGED <<stamp, queue, batch, wpc, done, dead, lost, husk, crashLost>>
      BY <1>0, <1>6a, RowFields DEF SpillDone, TypeOK
    <2>2. Memory' = Memory /\ Pending' = Pending /\ stamp[x] # 0
      BY <2>1, <1>s DEF NameInv
    <2>3. CASE UNCHANGED <<file, pass, retiring>>
      <3>1. ~Shared(x) => Alone(x) /\ x \notin dead \cup crashLost /\ file[x] = "none"
        <4>1. file[x] = "none" \/ ~(file[x] = "none")
          OBVIOUS
        <4>2. file[x] = "none" \/ \E bytes \in {"whole", "torn"} :
                 (bytes = "torn" => Shared(x)) /\ TakesFile(x, Sharers(x), bytes)
          BY <1>6a DEF SpillDone
        <4>3. ASSUME ~Shared(x), NEW bytes \in {"whole", "torn"}, bytes = "torn" => Shared(x),
                     TakesFile(x, Sharers(x), bytes)
              PROVE  FALSE
          <5>1. file'[x] = "whole"
            BY <4>3, TakesFileAlone
          <5>2. file[x] # "whole"
            BY <2>1, <4>3 DEF PlaceInv, Placed, Alone
          <5>3. QED
            BY <2>3, <5>1, <5>2
        <4>4. QED
          BY <2>1, <4>2, <4>3 DEF PlaceInv, Placed, Alone
      <3>2. \A r \in Row : Shared(r)' <=> Shared(r)
        BY <2>1, SharedFrame
      <3>3. ASSUME NEW r \in Row, r # x PROVE Placed(r)'
        BY <2>1, <2>2, <2>3, <3>2, <3>3 DEF PlaceInv, Placed, Alone, Gone
      <3>4. Placed(x)'
        BY <1>0, <2>1, <2>2, <2>3, <3>1, <3>2 DEF PlaceInv, Placed, Alone, Gone
      <3>5. QED
        BY <3>3, <3>4 DEF PlaceInv
    <2>4. ASSUME NEW bytes \in {"whole", "torn"}, bytes = "torn" => Shared(x),
                 TakesFile(x, Sharers(x), bytes)
          PROVE  PlaceInv'
      <3>1. ASSUME ~Shared(x) PROVE Alone(x)'
        <4>1. /\ file'[x] = "whole"
              /\ x \in pass' <=> x \in pass
              /\ x \in retiring' <=> x \in retiring
          BY <2>4, <3>1, TakesFileAlone
        <4>2. QED
          BY <2>1, <3>1, <4>1 DEF PlaceInv, Placed, Alone
      <3>2. QED
        BY <1>t, <2>1, <2>2, <2>4, <3>1 DEF Gone
    <2>5. QED
      BY <1>6a, <2>3, <2>4 DEF SpillDone
  <1>7. ASSUME NEW x \in Row, SpillRefused(x) \/ SpillBeaten(x)
        PROVE  PlaceInv'
    <2>1. /\ pc[x] \in {"held", "spilling"} /\ pc'[x] = "returned"
          /\ \A r \in Row : r # x => pc'[r] = pc[r]
          /\ UNCHANGED <<stamp, queue, batch, wpc, done, husk, crashLost>>
      BY <1>0, <1>7, RowFields DEF SpillRefused, SpillBeaten, DeadLetter, TypeOK
    <2>2. \/ dead' = dead \cup {x} /\ lost' = lost
          \/ lost' = lost \cup {x} /\ dead' = dead
      BY <1>7 DEF SpillRefused, SpillBeaten, DeadLetter
    <2>3. Memory' = Memory /\ Pending' = Pending /\ x \notin Pending
      BY <1>0, <1>m, <2>1, <1>s
    <2>4. CASE UNCHANGED <<file, pass, retiring>>
      <3>2. \A r \in Row : Shared(r)' <=> Shared(r)
        BY <2>1, SharedFrame
      <3>3. ASSUME NEW r \in Row, r # x PROVE Placed(r)'
        BY <2>1, <2>2, <2>3, <2>4, <3>2, <3>3 DEF PlaceInv, Placed, Alone, Gone
      <3>4. Placed(x)'
        <4>1. Shared(x) \/ Alone(x)'
          <5>1. CASE pc[x] = "held"
            BY <2>1, <2>2, <2>4, <5>1 DEF PlaceInv, Placed, Alone
          <5>2. CASE pc[x] = "spilling"
            BY <2>1, <2>2, <2>4, <5>2 DEF PlaceInv, Placed, Alone
          <5>3. QED
            BY <2>1, <5>1, <5>2
        <4>2. QED
          BY <2>1, <2>2, <2>3, <2>4, <3>2, <4>1 DEF PlaceInv, Placed, Gone
      <3>5. QED
        BY <3>3, <3>4 DEF PlaceInv
    <2>5. ASSUME NEW bytes, TakesFile(x, Sharers(x), bytes), Sharers(x) # {}, pc[x] = "spilling"
          PROVE  PlaceInv'
      <3>1. Shared(x) /\ stamp[x] # 0
        BY <2>5 DEF Shared, NameInv
      <3>2. QED
        BY <1>t, <2>1, <2>2, <2>5, <3>1 DEF Gone
    <2>6. QED
      BY <1>7, <2>4, <2>5 DEF SpillRefused, SpillBeaten
  <1>8. CASE SalvageRow
    <2>1. batch[done + 1] \in Item
      BY <1>0, <1>8 DEF SalvageRow, TypeOK
    <2>2. PICK i \in Item : i = batch[done + 1]
      BY <2>1
    <2>3. Memory' = Memory /\ Pending' = Pending \ {i} /\ i \in Memory
      BY <1>0, <1>8, <2>2, SalvageOnce
    <2>4. /\ UNCHANGED <<pc, file, stamp, pass, retiring, husk, crashLost>>
          /\ \/ UNCHANGED <<dead, lost>>
             \/ dead' = dead \cup {i} /\ lost' = lost
             \/ lost' = lost \cup {i} /\ dead' = dead
      BY <1>8, <2>2 DEF SalvageRow, DeadLetter
    <2>h. \A r \in Row : Shared(r)' <=> Shared(r)
      BY <1>h, <2>4
    <2>5. ASSUME NEW r \in Row, r # i PROVE Placed(r)'
      BY <2>3, <2>4, <2>5, <2>h DEF PlaceInv, Placed, Alone, Gone
    <2>6. ASSUME i \in Row PROVE Placed(i)'
      BY <2>3, <2>4, <2>6, <2>h, <1>m DEF PlaceInv, Placed, Alone, Gone
    <2>7. QED
      BY <2>5, <2>6 DEF PlaceInv
  <1>9. CASE Idle
    <2>1. Memory' = Memory /\ Pending' = Pending
      BY <1>9 DEF Idle, Memory, Pending, Unsettled, Elems
    <2>2. \A r \in pass' : file[r] \in {"torn", "whole"}
      BY <1>9 DEF Idle, Glob
    <2>r. retiring = {}
      BY <1>9 DEF Idle, DrainInv
    <2>3. UNCHANGED <<pc, file, stamp, retiring, dead, lost, husk, crashLost>>
      BY <1>9 DEF Idle
    <2>4. QED
      BY <1>h, <2>1, <2>2, <2>r, <2>3 DEF PlaceInv, Placed, Alone, Gone
  <1>10. ASSUME NEW x \in Row, Replay(x) \/ ReplayRejected(x)
        PROVE  PlaceInv'
    <2>1. Memory' = Memory /\ Pending' = Pending
      BY <1>10, <1>s DEF Replay, ReplayRejected
    <2>2. /\ x \in pass /\ pass' = pass \ {x} /\ retiring' = {x}
          /\ UNCHANGED <<pc, file, stamp, dead, crashLost>>
      BY <1>10 DEF Replay, ReplayRejected, Oldest, DeadLetterNoArgs
    <2>3. \/ UNCHANGED <<lost, husk>> /\ file[x] = "whole"
          \/ husk' = husk \cup {x} /\ lost' = lost
          \/ lost' = lost \cup {x} /\ husk' = husk
      BY <1>10 DEF Replay, ReplayRejected, DeadLetterNoArgs
    <2>h. \A r \in Row : Shared(r)' <=> Shared(r)
      BY <1>h, <2>2
    <2>4. ASSUME NEW r \in Row, r # x PROVE Placed(r)'
      BY <2>1, <2>2, <2>3, <2>4, <2>h DEF PlaceInv, Placed, Alone, Gone
    <2>5. Placed(x)'
      <3>1. pc[x] \notin {"idle", "held", "naming"} /\ stamp[x] # 0 /\ x \notin Pending
        <4>1. stamp[x] # 0 /\ pc[x] # "naming"
          BY <1>0, <2>2 DEF NameInv, TypeOK
        <4>2. QED
          BY <1>0, <4>1 DEF PlaceInv, Placed
      <3>2. Shared(x) \/ Alone(x)'
        BY <2>2, <2>3, <1>0 DEF PlaceInv, Placed, Alone
      <3>3. QED
        BY <2>1, <2>2, <2>3, <2>h, <3>1, <3>2, <1>0 DEF PlaceInv, Placed, Gone
    <2>6. QED
      BY <2>4, <2>5 DEF PlaceInv
  <1>11. ASSUME NEW x \in Row, Retire(x)
        PROVE  PlaceInv'
    <2>1. Memory' = Memory /\ Pending' = Pending
      BY <1>11, <1>s DEF Retire
    <2>2. /\ x \in retiring /\ retiring' = {}
          /\ file' = file \/ file' = [file EXCEPT ![x] = "none"]
          /\ UNCHANGED <<pc, pass, stamp, dead, lost, husk, crashLost>>
      BY <1>11 DEF Retire
    <2>3. ASSUME NEW r \in Row PROVE Placed(r)'
      <3>1. file'[r] = file[r] \/ (r = x /\ file'[r] = "none")
        BY <2>2, <1>0 DEF TypeOK
      <3>2. QED
        BY <1>h, <2>1, <2>2, <3>1 DEF PlaceInv, Placed, Alone, Gone
    <2>4. QED
      BY <2>3 DEF PlaceInv
  <1>12. CASE Restart
    <2>1. Memory' = {} /\ Pending' = {}
      BY <1>12 DEF Restart, Memory, Pending, Unsettled, Elems
    <2>2. \A r \in Row : pc'[r] = IF pc[r] \in {"held", "naming", "spilling"} THEN "failed" ELSE pc[r]
      BY <1>12, RowFields DEF Restart
    <2>3. /\ UNCHANGED <<file, stamp, dead, lost, husk>> /\ pass' = {} /\ retiring' = {}
          /\ crashLost' = crashLost \cup (Pending \cap Row)
      BY <1>12 DEF Restart
    <2>4. QED
      BY <1>h, <2>1, <2>2, <2>3, <1>0, <1>m DEF PlaceInv, Placed, Alone, Gone
  <1>13. CASE Quiet
    BY <1>13, QuietPlace
  <1>14. QED
    BY <1>1, <1>2, <1>3, <1>4, <1>5, <1>6, <1>6a, <1>7, <1>8, <1>9, <1>10, <1>11, <1>12, <1>13
       DEF Next, Produce, Worker, Quiet
-----------------------------------------------------------------------------
(* The entry context of a closed ticket *)

\* The OPEN of ticket t was not answered by the queue, or did not survive it.
Excused(t) ==
    \/ pc[OpenOf(t)] # "returned"
    \/ stamp[OpenOf(t)] # 0
    \/ OpenOf(t) \in dead \cup lost \cup crashLost

Answered(r) == pc[r] \in {"returned", "failed"}

\* The names of the files the current pass is about to visit.
Visiting == {stamp[s] : s \in pass}

\* In the ledger, in the working ledger of an open transaction, and for the
\* files the current pass is about to replay.
EntryInv == \A t \in Ticket :
    /\ ledger[t] # "NONE" => Answered(OpenOf(t))
    /\ wpc = "txn" /\ work[t] # "NONE" => Answered(OpenOf(t))
    /\ ledger[t] = "CLOSED_NO_ENTRY" => Excused(t)
    /\ wpc = "txn" /\ work[t] = "CLOSED_NO_ENTRY" => Excused(t)
    /\ stamp[CloseOf(t)] \in Visiting => Excused(t) \/ ledger[t] # "NONE"

LEMMA EntryInit == Init => EntryInv
  BY TicketRows DEF Init, EntryInv, Visiting

\* What one statement can do to the entry context of a ticket.
LEMMA ApplyEntry ==
    ASSUME NEW l \in [Ticket -> LedgerState], NEW i \in Item, NEW t \in Ticket
    PROVE  /\ Apply(l, i)[t] = "CLOSED_NO_ENTRY" =>
                l[t] = "CLOSED_NO_ENTRY" \/ (i = CloseOf(t) /\ l[t] = "NONE")
           /\ Apply(l, i)[t] # "NONE" =>
                l[t] # "NONE" \/ i = OpenOf(t) \/ i = CloseOf(t)
  <1>1. CASE i \notin Row
    BY <1>1 DEF Apply
  <1>2. CASE i \in Row
    <2>1. /\ i.ticket \in Ticket
          /\ i.ticket = t /\ i.kind = "OPEN" => i = OpenOf(t)
          /\ i.ticket = t /\ i.kind = "CLOSE" => i = CloseOf(t)
          /\ i.kind \in {"OPEN", "CLOSE"}
      BY <1>2 DEF Row, OpenOf, CloseOf
    <2>2. CASE i.ticket # t
      BY <1>2, <2>1, <2>2 DEF Apply
    <2>3. CASE i.ticket = t
      BY <1>2, <2>1, <2>3 DEF Apply, LedgerState
    <2>4. QED
      BY <2>2, <2>3
  <1>3. QED
    BY <1>1, <1>2

LEMMA NextName == ASSUME NEW n \in Nat PROVE n + 1 # 0
  OBVIOUS

\* Answers, stamps and records are never taken back.
LEMMA StepMonotone ==
    ASSUME TypeOK, TypeOK', [Next]_vars, NEW r \in Row
    PROVE  /\ Answered(r) => pc'[r] = pc[r]
           /\ stamp[r] # 0 => stamp'[r] # 0
           /\ dead \subseteq dead' /\ lost \subseteq lost' /\ husk \subseteq husk'
           /\ crashLost \subseteq crashLost'
  <1> USE RowFields DEF Answered, vars, queueVars, workerVars, fileVars, drainVars, storeVars, lifeVars
  <1>1. ASSUME NEW i \in Item, Resolve(i) \/ RefuseArity(i) \/ Put(i) \/ DropTelemetry(i)
        PROVE  /\ Answered(r) => pc'[r] = pc[r]
               /\ stamp' = stamp /\ crashLost' = crashLost
               /\ dead \subseteq dead' /\ lost \subseteq lost' /\ husk \subseteq husk'
    BY <1>1 DEF Resolve, RefuseArity, Put, DropTelemetry, DeadLetter, TypeOK
  <1>2. ASSUME NEW x \in Row, Name(x)
        PROVE  /\ Answered(r) => pc'[r] = pc[r]
               /\ stamp[r] # 0 => stamp'[r] # 0
               /\ UNCHANGED <<dead, lost, husk, crashLost>>
    <2>1. /\ pc[x] = "held" /\ pc' = [pc EXCEPT ![x] = "naming"]
          /\ stamp' = [stamp EXCEPT ![x] = named' + 1]
          /\ UNCHANGED <<dead, lost, husk, crashLost>>
      BY <1>2 DEF Name
    <2>2. named' + 1 # 0
      <3>1. named' \in Nat
        BY DEF TypeOK
      <3>2. QED
        BY <3>1, NextName
    <2>3. QED
      BY <2>1, <2>2 DEF TypeOK
  <1>3. ASSUME NEW x \in Row, Open(x) \/ SpillDone(x) \/ SpillBeaten(x) \/ SpillRefused(x)
        PROVE  /\ Answered(r) => pc'[r] = pc[r]
               /\ stamp' = stamp /\ crashLost' = crashLost
               /\ dead \subseteq dead' /\ lost \subseteq lost' /\ husk \subseteq husk'
    <2>1. /\ pc[x] \in {"held", "naming", "spilling"}
          /\ \E y \in {"spilling", "returned"} : pc' = [pc EXCEPT ![x] = y]
      BY <1>3 DEF Open, SpillDone, SpillBeaten, SpillRefused
    <2>2. Answered(r) => pc'[r] = pc[r]
      BY <2>1 DEF TypeOK
    <2>3. QED
      BY <2>2, <1>3 DEF Open, SpillDone, SpillBeaten, SpillRefused, DeadLetter
  <1>4. CASE Worker
    <2>1. pc' = pc /\ stamp' = stamp /\ crashLost' = crashLost
      BY <1>4 DEF Worker, Construct, ConstructFails, Touch, TouchFails, LoopHead, Take,
         BeginBatch, Execute, Commit, Rollback, SalvageRow, SalvageDone, Acknowledge,
         Idle, DrainEnds, Replay, ReplayRejected, Retire
    <2>2. CASE UNCHANGED <<dead, lost, husk>>
      BY <2>1, <2>2
    <2>3. CASE SalvageRow
      BY <2>1, <2>3 DEF SalvageRow, DeadLetter
    <2>4. ASSUME NEW x \in Row, ReplayRejected(x)
          PROVE  dead \subseteq dead' /\ lost \subseteq lost' /\ husk \subseteq husk'
      BY <2>4 DEF ReplayRejected, DeadLetterNoArgs
    <2>5. UNCHANGED <<dead, lost, husk>> \/ SalvageRow \/ \E x \in Row : ReplayRejected(x)
      BY <1>4 DEF Worker, Construct, ConstructFails, Touch, TouchFails, LoopHead, Take,
         BeginBatch, Execute, Commit, Rollback, SalvageDone, Acknowledge, Idle, DrainEnds,
         Replay, Retire
    <2>6. QED
      BY <2>1, <2>2, <2>3, <2>4, <2>5
  <1>5. CASE CadenceElapses \/ Closer \/ UNCHANGED vars
    BY <1>5 DEF CadenceElapses, Closer, BeginClose, FlushReturns, FlushTimesOut, JoinEnds
  <1>6. CASE Restart
    BY <1>6 DEF Restart, TypeOK
  <1>7. QED
    BY <1>1, <1>2, <1>3, <1>4, <1>5, <1>6 DEF Next, Produce

LEMMA ExcusedKeeps ==
    ASSUME TypeOK, TypeOK', [Next]_vars, NEW t \in Ticket, Answered(OpenOf(t)), Excused(t)
    PROVE  Excused(t)'
  BY StepMonotone, TicketRows DEF Excused, Answered, OpenOf

\* An OPEN that travelled by the queue and was not lost is in memory or stored.
LEMMA NotExcused ==
    ASSUME TypeOK, LossInv, PlaceInv, NEW t \in Ticket, ~Excused(t)
    PROVE  OpenOf(t) \in Pending \/ ledger[t] # "NONE"
  <1>1. pc[OpenOf(t)] = "returned" /\ stamp[OpenOf(t)] = 0 /\ OpenOf(t) \in Row
    BY TicketRows DEF Excused
  <1>2. ~Shared(OpenOf(t)) /\ file[OpenOf(t)] = "none" /\ OpenOf(t) \notin husk
    BY <1>1, UnnamedAlone DEF PlaceInv, Placed
  <1>3. OpenOf(t) \in Pending \/ Durable(OpenOf(t))
    BY <1>1, <1>2 DEF Excused, LossInv, Accounted, Settled
  <1>4. QED
    BY <1>3, TicketRows DEF Durable, DurableIn

\* A CLOSE that is in memory or in a file belongs to an OPEN that was answered.
LEMMA CloseStarted ==
    ASSUME TypeOK, SequenceInv, PlaceInv, NEW t \in Ticket,
           CloseOf(t) \in Memory \/ stamp[CloseOf(t)] # 0
    PROVE  Answered(OpenOf(t))
  <1>1. pc[CloseOf(t)] # "idle"
    BY MemoryReturned, TicketRows DEF PlaceInv, Placed
  <1>2. QED
    BY <1>1 DEF SequenceInv, StartInv, Answered

LEMMA VisitedStarted ==
    ASSUME TypeOK, SequenceInv, PlaceInv, NEW t \in Ticket, stamp[CloseOf(t)] \in Visiting
    PROVE  Answered(OpenOf(t))
  <1>1. stamp[CloseOf(t)] # 0
    BY DEF Visiting, PlaceInv, Placed, TypeOK
  <1>2. QED
    BY <1>1, CloseStarted

\* No step but the start of a pass adds a name to those it visits.
LEMMA OverflowVisits ==
    ASSUME TypeOK, TypeOK', NameInv, PlaceInv, NEW x \in Row, Overflow(x), NEW t \in Ticket,
           stamp'[CloseOf(t)] \in Visiting'
    PROVE  stamp[CloseOf(t)] \in Visiting
  <1> USE DEF queueVars, workerVars, fileVars, drainVars, storeVars, lifeVars
  <1>1. CASE Name(x)
    <2>1. /\ pc[x] = "held" /\ stamp' = [stamp EXCEPT ![x] = named' + 1] /\ pass' = pass
          /\ named' = named \/ named' = named + 1
      BY <1>1 DEF Name
    <2>2. stamp[x] = 0 /\ x \notin pass /\ named \in Nat
      BY <2>1 DEF PlaceInv, Placed, TypeOK
    <2>3. \A s \in pass : s \in Row /\ stamp'[s] = stamp[s] /\ stamp[s] <= named /\ stamp[s] \in Nat
      BY <2>1, <2>2 DEF NameInv, TypeOK
    <2>4. Visiting' = Visiting
      BY <2>1, <2>3 DEF Visiting
    <2>5. PICK s \in pass : stamp'[CloseOf(t)] = stamp[s]
      BY <2>4 DEF Visiting
    <2>6. CloseOf(t) # x
      <3>1. stamp'[x] = named' + 1
        BY <2>1 DEF TypeOK
      <3>2. QED
        BY <2>1, <2>2, <2>3, <2>5, <3>1
    <2>7. QED
      BY <2>1, <2>4, <2>6, TicketRows DEF TypeOK
  <1>2. CASE ~Name(x)
    <2>1. /\ stamp' = stamp
          /\ pass' = pass \/ \E S \in SUBSET Sharers(x) : \E b : TakesFile(x, S, b)
      BY <1>2 DEF Overflow, Open, SpillDone, SpillBeaten, SpillRefused
    <2>2. CASE pass' = pass
      BY <2>1, <2>2 DEF Visiting
    <2>3. ASSUME NEW S \in SUBSET Sharers(x), NEW b, TakesFile(x, S, b)
          PROVE  Visiting' \subseteq Visiting
      <3>1. /\ pass' \subseteq pass \cup {x}
            /\ x \in pass' => \E s \in pass : stamp[s] = stamp[x]
        BY <2>3, TakesFileAlone
      <3>2. QED
        BY <2>1, <3>1 DEF Visiting
    <2>4. QED
      BY <2>1, <2>2, <2>3
  <1>3. QED
    BY <1>1, <1>2

EntryPremises ==
    /\ TypeInv /\ TypeInv' /\ SequenceInv /\ DrainInv /\ PlaceInv /\ LossInv /\ EntryInv
    /\ [Next]_vars

\* A step that leaves the ledgers alone and adds no name to those the pass visits.
LEMMA EntryFrame ==
    ASSUME EntryPremises, ledger' = ledger, wpc' = "txn" => wpc = "txn" /\ work' = work,
           \A t \in Ticket : stamp'[CloseOf(t)] \in Visiting' => stamp[CloseOf(t)] \in Visiting
    PROVE  EntryInv'
  <1> SUFFICES ASSUME NEW t \in Ticket
               PROVE  /\ ledger[t] # "NONE" => Answered(OpenOf(t))'
                      /\ wpc' = "txn" /\ work'[t] # "NONE" => Answered(OpenOf(t))'
                      /\ ledger[t] = "CLOSED_NO_ENTRY" => Excused(t)'
                      /\ wpc' = "txn" /\ work'[t] = "CLOSED_NO_ENTRY" => Excused(t)'
                      /\ stamp'[CloseOf(t)] \in Visiting' => Excused(t)' \/ ledger[t] # "NONE"
    BY DEF EntryInv, Answered, OpenOf, CloseOf
  <1>1. Answered(OpenOf(t)) => Answered(OpenOf(t))'
    BY StepMonotone, TicketRows DEF EntryPremises, TypeInv, Answered, OpenOf
  <1>2. Answered(OpenOf(t)) /\ Excused(t) => Excused(t)'
    BY ExcusedKeeps DEF EntryPremises, TypeInv
  <1>3. stamp[CloseOf(t)] \in Visiting => Answered(OpenOf(t))
    BY VisitedStarted DEF EntryPremises, TypeInv
  <1>4. QED
    BY <1>1, <1>2, <1>3, TicketRows DEF EntryPremises, EntryInv

\* A statement of the batch: when it is executed in a transaction or salvaged,
\* what is before it in the batch is settled and what is in the queue is behind it.
LEMMA StatementEntry ==
    ASSUME TypeInv, SequenceInv, PlaceInv, LossInv, EntryInv,
           wpc \in {"txn", "salvage"}, done < Len(batch),
           NEW l \in [Ticket -> LedgerState],
           wpc = "txn" => l = work, wpc = "salvage" => l = ledger,
           NEW t \in Ticket
    PROVE  /\ Apply(l, batch[done + 1])[t] # "NONE" => Answered(OpenOf(t))
           /\ Apply(l, batch[done + 1])[t] = "CLOSED_NO_ENTRY" => Excused(t)
  <1> DEFINE i == batch[done + 1]
  <1>0. TypeOK /\ done \in Nat /\ Len(batch) \in Nat /\ done + 1 \in 1..Len(batch) /\ i \in Item
    BY DEF TypeInv, TypeOK
  <1>1. i \in Memory /\ pc[i] = "returned"
    <2>1. i \in Memory
      BY <1>0 DEF Memory, Elems
    <2>2. QED
      BY <2>1, MemoryReturned
  <1> HIDE DEF i
  <1>2. ASSUME Apply(l, i)[t] # "NONE"
        PROVE  Answered(OpenOf(t))
    <2>1. CASE l[t] # "NONE"
      BY <2>1 DEF EntryInv
    <2>2. CASE i = OpenOf(t)
      BY <1>1, <2>2 DEF Answered
    <2>3. CASE i = CloseOf(t)
      BY <1>0, <1>1, <2>3, CloseStarted
    <2>4. QED
      BY <1>0, <1>2, <2>1, <2>2, <2>3, ApplyEntry
  <1>3. ASSUME Apply(l, i)[t] = "CLOSED_NO_ENTRY", ~Excused(t)
        PROVE  FALSE
    <2>1. i = CloseOf(t) /\ l[t] = "NONE"
      BY <1>0, <1>3, ApplyEntry DEF EntryInv
    <2>2. ledger[t] = "NONE"
      <3>1. CASE wpc = "txn"
        BY <2>1, <3>1, <1>0 DEF LossInv, TxnInv, Forward, TypeOK, LedgerState
      <3>2. CASE wpc = "salvage"
        BY <2>1, <3>2
      <3>3. QED
        BY <3>1, <3>2
    <2>3. OpenOf(t) \in Pending
      BY <1>0, <1>3, <2>2, NotExcused
    <2>4. OpenOf(t) \notin Elems(queue)
      BY <1>0, <2>1 DEF i, SequenceInv, OrderInv, Elems
    <2>5. \A n \in 1..Len(batch) : batch[n] = OpenOf(t) => n \in 1..done
      BY <1>0, <2>1 DEF i, SequenceInv, OrderInv, Before
    <2>6. CASE wpc = "salvage"
      <3>1. PICK n \in done + 1..Len(batch) : batch[n] = OpenOf(t)
        BY <2>3, <2>4, <2>6 DEF Pending, Unsettled
      <3>2. n \in 1..Len(batch) /\ n \notin 1..done
        BY <1>0
      <3>3. QED
        BY <2>5, <3>1, <3>2
    <2>7. CASE wpc = "txn"
      <3>1. PICK n \in 1..Len(batch) : batch[n] = OpenOf(t)
        BY <2>3, <2>4, <2>7 DEF Pending, Unsettled, Elems
      <3>2. DurableIn(work, OpenOf(t))
        BY <2>5, <2>7, <3>1, TicketRows DEF LossInv, TxnInv
      <3>3. QED
        BY <2>1, <2>7, <3>2, TicketRows DEF DurableIn
    <2>8. QED
      BY <2>6, <2>7
  <1>4. QED
    BY <1>2, <1>3 DEF i

LEMMA EntryStep ==
    ASSUME EntryPremises
    PROVE  EntryInv'
  <1> USE DEF vars, queueVars, workerVars, fileVars, drainVars, storeVars, lifeVars
  <1>0. TypeInv /\ TypeOK /\ TypeOK' /\ SequenceInv /\ DrainInv /\ PlaceInv /\ LossInv /\ EntryInv
    BY DEF EntryPremises, TypeInv
  <1>k. \A t \in Ticket : Answered(OpenOf(t)) /\ Excused(t) => Excused(t)'
    BY ExcusedKeeps DEF EntryPremises, TypeInv
  <1>a. \A t \in Ticket : Answered(OpenOf(t)) => Answered(OpenOf(t))'
    BY StepMonotone, TicketRows DEF EntryPremises, TypeInv, Answered, OpenOf
  <1>1. CASE ledger' = ledger /\ (wpc' = "txn" => wpc = "txn" /\ work' = work)
             /\ pass' \subseteq pass /\ stamp' = stamp
    <2>1. \A t \in Ticket : stamp'[CloseOf(t)] \in Visiting' => stamp[CloseOf(t)] \in Visiting
      BY <1>1 DEF Visiting
    <2>2. QED
      BY <1>1, <2>1, EntryFrame
  <1>2. CASE BeginBatch
    BY <1>0, <1>k, <1>a, <1>2 DEF BeginBatch, EntryInv, Visiting, DrainInv, Answered, OpenOf, CloseOf
  <1>3. CASE Execute
    <2>1. \A t \in Ticket : /\ work'[t] # "NONE" => Answered(OpenOf(t))
                            /\ work'[t] = "CLOSED_NO_ENTRY" => Excused(t)
      BY <1>0, <1>3, StatementEntry DEF Execute, TypeOK
    <2>2. pass' = {} /\ ledger' = ledger
      BY <1>0, <1>3 DEF Execute, DrainInv
    <2>3. QED
      BY <1>0, <1>k, <1>a, <2>1, <2>2 DEF EntryInv, Visiting, Answered, OpenOf, CloseOf
  <1>4. CASE Commit
    <2>1. pass' = {} /\ ledger' = work /\ wpc' = "ack" /\ wpc = "txn"
      BY <1>0, <1>4 DEF Commit, DrainInv
    <2>2. QED
      BY <1>0, <1>k, <1>a, <2>1 DEF EntryInv, Visiting, Answered, OpenOf, CloseOf
  <1>5. CASE SalvageRow
    <2>1. CASE ledger' = Apply(ledger, batch[done + 1])
      <3>1. \A t \in Ticket : /\ ledger'[t] # "NONE" => Answered(OpenOf(t))
                              /\ ledger'[t] = "CLOSED_NO_ENTRY" => Excused(t)
        BY <1>0, <1>5, <2>1, StatementEntry DEF SalvageRow, TypeOK
      <3>2. pass' = {} /\ wpc' = "salvage"
        BY <1>0, <1>5 DEF SalvageRow, DrainInv
      <3>3. QED
        BY <1>0, <1>k, <1>a, <3>1, <3>2 DEF EntryInv, Visiting, Answered, OpenOf, CloseOf
    <2>2. CASE ledger' = ledger
      BY <1>1, <1>5, <2>2 DEF SalvageRow
    <2>3. QED
      BY <1>5, <2>1, <2>2 DEF SalvageRow
  <1>6. CASE Idle
    <2>1. ASSUME NEW t \in Ticket, stamp[CloseOf(t)] \in Visiting'
          PROVE  Answered(OpenOf(t)) /\ (Excused(t) \/ ledger[t] # "NONE")
      <3>1. PICK s \in pass' : stamp[CloseOf(t)] = stamp[s]
        BY <1>6, <2>1 DEF Idle, Visiting
      <3>2. stamp[CloseOf(t)] # 0
        <4>1. s \in Row /\ file[s] # "none"
          BY <1>6 DEF Idle, Glob
        <4>2. QED
          BY <1>0, <3>1, <4>1 DEF PlaceInv, Placed
      <3>3. Answered(OpenOf(t))
        BY <1>0, <3>2, CloseStarted
      <3>4. Pending = {}
        BY <1>6 DEF Idle, Pending, Unsettled, Elems
      <3>5. QED
        BY <1>0, <3>3, <3>4, NotExcused
    <2>2. ledger' = ledger /\ wpc' = "drain" /\ stamp' = stamp
      BY <1>6 DEF Idle
    <2>3. QED
      BY <1>0, <1>k, <1>a, <2>1, <2>2 DEF EntryInv, Answered, OpenOf, CloseOf
  <1>7. ASSUME NEW x \in Row, Replay(x)
        PROVE  EntryInv'
    <2>1. /\ x \in pass /\ pass' = pass \ {x} /\ wpc' = "drain" /\ x \in Item
          /\ ledger' = Apply(ledger, x) /\ file[x] = "whole"
      BY <1>7, RowFields DEF Replay, Oldest
    <2>2. stamp[x] # 0 /\ stamp[x] \in Visiting /\ pc[x] = "returned"
      BY <1>0, <2>1 DEF PlaceInv, Placed, Visiting
    <2>3. ASSUME NEW t \in Ticket
          PROVE  /\ ledger'[t] # "NONE" => Answered(OpenOf(t))
                 /\ ledger'[t] = "CLOSED_NO_ENTRY" => Excused(t)
                 /\ stamp[CloseOf(t)] \in Visiting =>
                      Answered(OpenOf(t)) /\ (Excused(t) \/ ledger'[t] # "NONE")
      <3>0. /\ ledger[t] # "NONE" => Answered(OpenOf(t))
            /\ ledger[t] = "CLOSED_NO_ENTRY" => Excused(t)
            /\ stamp[CloseOf(t)] \in Visiting => Excused(t) \/ ledger[t] # "NONE"
            /\ x = CloseOf(t) => stamp[CloseOf(t)] \in Visiting
        BY <1>0, <2>2 DEF EntryInv
      <3>a. /\ ledger'[t] = "CLOSED_NO_ENTRY" =>
                 ledger[t] = "CLOSED_NO_ENTRY" \/ (x = CloseOf(t) /\ ledger[t] = "NONE")
            /\ ledger'[t] # "NONE" => ledger[t] # "NONE" \/ x = OpenOf(t) \/ x = CloseOf(t)
        <4>1. ledger \in [Ticket -> LedgerState]
          BY <1>0 DEF TypeOK
        <4>2. QED
          BY <2>1, <4>1, ApplyEntry
      <3>1. ledger'[t] # "NONE" => Answered(OpenOf(t))
        <4>1. x = CloseOf(t) => Answered(OpenOf(t))
          BY <1>0, <2>2, CloseStarted
        <4>2. x = OpenOf(t) => Answered(OpenOf(t))
          BY <2>2 DEF Answered
        <4>3. QED
          BY <3>0, <3>a, <4>1, <4>2
      <3>2. ledger'[t] = "CLOSED_NO_ENTRY" => Excused(t)
        BY <3>0, <3>a
      <3>3. Forward(ledger[t], ledger'[t])
        BY <1>0, <2>1, ApplyFacts DEF TypeOK
      <3>4. stamp[CloseOf(t)] \in Visiting => Answered(OpenOf(t))
        BY <1>0, VisitedStarted
      <3>5. QED
        BY <3>0, <3>1, <3>2, <3>3, <3>4 DEF Forward
    <2>4. stamp' = stamp /\ Visiting' \subseteq Visiting
      BY <1>7, <2>1 DEF Replay, Visiting
    <2>5. QED
      BY <1>k, <1>a, <2>1, <2>3, <2>4 DEF EntryInv, Answered, OpenOf, CloseOf
  <1>8. ASSUME NEW i \in Item, Resolve(i) \/ RefuseArity(i) \/ Put(i) \/ DropTelemetry(i)
        PROVE  EntryInv'
    BY <1>1, <1>8 DEF Resolve, RefuseArity, Put, DropTelemetry
  <1>8a. ASSUME NEW x \in Row, Overflow(x)
         PROVE  EntryInv'
    <2>1. ledger' = ledger /\ wpc' = wpc /\ work' = work
      BY <1>8a DEF Overflow, Name, Open, SpillDone, SpillBeaten, SpillRefused
    <2>2. NameInv
      BY <1>0 DEF LossInv, FileInv
    <2>3. \A t \in Ticket : stamp'[CloseOf(t)] \in Visiting' => stamp[CloseOf(t)] \in Visiting
      BY <1>0, <1>8a, <2>2, OverflowVisits
    <2>4. QED
      BY <2>1, <2>3, EntryFrame
  <1>9. CASE CadenceElapses \/ Closer \/ Restart \/ UNCHANGED vars
    BY <1>1, <1>9 DEF CadenceElapses, Closer, BeginClose, FlushReturns, FlushTimesOut,
       JoinEnds, Restart
  <1>10. CASE Worker
    BY <1>1, <1>2, <1>3, <1>4, <1>5, <1>6, <1>7, <1>10 DEF Worker, Construct, ConstructFails,
       Touch, TouchFails, LoopHead, Take, Rollback, SalvageDone, Acknowledge, DrainEnds,
       ReplayRejected, Retire
  <1>11. QED
    BY <1>8, <1>8a, <1>9, <1>10 DEF EntryPremises, Next, Produce, Overflow

\* Everything the two results below rest on.
ContractInv == TypeInv /\ LossInv /\ SequenceInv /\ DrainInv /\ PlaceInv /\ EntryInv

LEMMA ContractInit == Init => ContractInv
  BY TypeInit, LossInit, SequenceInit, PlaceInit, EntryInit DEF ContractInv, DrainInv, Init

LEMMA ContractStep == ContractInv /\ [Next]_vars => ContractInv'
  <1> SUFFICES ASSUME ContractInv, [Next]_vars
               PROVE  ContractInv'
    OBVIOUS
  <1>1. TypeInv' /\ LossInv'
    BY TypeStep, LossStep DEF ContractInv
  <1>2. SequenceInv' /\ DrainInv'
    BY <1>1, SequenceStep, DrainStep DEF ContractInv
  <1>3. PlaceInv'
    BY <1>1, <1>2, PlaceStep DEF ContractInv, LossInv, FileInv
  <1>4. EntryInv'
    BY <1>1, EntryStep DEF ContractInv, EntryPremises
  <1>5. QED
    BY <1>1, <1>2, <1>3, <1>4 DEF ContractInv

LEMMA ContractInvariant == Spec => []ContractInv
  BY ContractInit, ContractStep, PTL DEF Spec

\* A closed ticket has lost its entry context only if its OPEN was spilled,
\* dead-lettered, lost, or died with a process: rows that travel by the queue
\* reach the ledger in the order in which they were handed over, through every
\* batch, rollback, salvage, recovery pass and restart (ACID-01).
THEOREM ContextKept == Spec => []EntryContextKept
  <1>1. ContractInv => EntryContextKept
    BY DEF ContractInv, EntryInv, Excused, EntryContextKept
  <1>2. QED
    BY <1>1, ContractInvariant, PTL
-----------------------------------------------------------------------------
(* The plane implements the durability contract *)

Surviving == {"pending", "spilled", "dead", "husk", "lost"}

\* A row that shares no file name is never garbled and never vanishes.
LEMMA StandingType ==
    ASSUME TypeOK', LossInv'
    PROVE  \A r \in Row : Standing(r)' \in Contract!Fates
  BY DEF LossInv, Accounted, Settled, Standing, Fate, Contract!Fates

Typed == \A r \in Row : Standing(r)' \in Contract!Fates

\* The abstract steps, in terms of the standing of the rows before and after.
LEMMA AbstractAccept ==
    ASSUME Typed, NEW x \in Row, Standing(x) = "absent", Standing(x)' \in Surviving,
           \A r \in Row : r # x => Standing(r)' = Standing(r)
    PROVE  Contract!Next
  BY DEF Typed, Surviving, Contract!Next, Contract!Accept, Contract!Moves

LEMMA AbstractReject ==
    ASSUME Typed, NEW x \in Row, Standing(x) = "pending", Standing(x)' \in {"dead", "lost"},
           \A r \in Row : r # x => Standing(r)' = Standing(r)
    PROVE  Contract!Next
  BY DEF Typed, Contract!Next, Contract!Reject, Contract!Moves

LEMMA AbstractRecover ==
    ASSUME Typed, NEW x \in Row, Standing(x) = "spilled",
           Standing(x)' \in {"durable", "husk", "lost"},
           \A r \in Row : r # x => Standing(r)' = Standing(r)
    PROVE  Contract!Next
  BY DEF Typed, Contract!Next, Contract!Recover, Contract!Moves

LEMMA AbstractCommit ==
    ASSUME Typed, NEW S \in SUBSET Row, S # {},
           \A r \in S : Standing(r) = "pending" /\ Standing(r)' = "durable",
           \A r \in Row \ S : Standing(r)' = Standing(r)
    PROVE  Contract!Next
  BY DEF Typed, Contract!Next, Contract!Commit, Contract!MoveTogether

LEMMA AbstractCollide ==
    ASSUME Typed, NEW S \in SUBSET Row, S # {},
           \A r \in S : Standing(r) = "absent" /\ Standing(r)' = "exempt",
           \A r \in Row \ S : Standing(r)' = Standing(r)
    PROVE  Contract!Next
  BY DEF Typed, Contract!Next, Contract!Collide, Contract!MoveTogether

LEMMA AbstractDie ==
    ASSUME Typed,
           \A r \in Row : Standing(r)' = IF Standing(r) = "pending" THEN "died" ELSE Standing(r)
    PROVE  Contract!Next
  BY DEF Typed, Contract!Next, Contract!Die

Same == \A r \in Row : Standing(r)' = Standing(r)

\* The standing of a row no step touches.
LEMMA FateFrame ==
    ASSUME ContractInv, NEW r \in Row, Shared(r)' <=> Shared(r),
           Shared(r) \/
             /\ pc'[r] = "returned" <=> pc[r] = "returned"
             /\ r \in Pending' <=> r \in Pending
             /\ file'[r] = "whole" <=> file[r] = "whole"
             /\ r \in dead' <=> r \in dead
             /\ r \in lost' <=> r \in lost
             /\ r \in husk' <=> r \in husk
             /\ r \in crashLost' <=> r \in crashLost
             /\ Durable(r) => Durable(r)'
    PROVE  Standing(r)' = Standing(r)
  <1>1. Shared(r) \/ (pc[r] = "returned" => r \in Pending \/ file[r] = "whole" \/ Settled(r))
    BY DEF ContractInv, LossInv, Accounted
  <1>2. CASE Shared(r)
    BY <1>2 DEF Standing
  <1>3. CASE ~Shared(r)
    <2>1. Fate(r)' = Fate(r)
      BY <1>1, <1>3 DEF Fate, Settled
    <2>2. QED
      BY <1>3, <2>1 DEF Standing
  <1>4. QED
    BY <1>2, <1>3

LEMMA DurableKeeps ==
    ASSUME ContractInv, [Next]_vars, NEW r \in Row, Durable(r)
    PROVE  Durable(r)'
  <1>1. LedgerMovesForward
    BY ForwardStep DEF ContractInv
  <1>2. r.ticket \in Ticket
    BY RowFields
  <1>3. QED
    BY <1>1, <1>2 DEF LedgerMovesForward, Durable, DurableIn

\* Every step changes the fates as the contract allows, or not at all.
LEMMA FateStep ==
    ASSUME ContractInv, ContractInv', [Next]_vars
    PROVE  Contract!Next \/ Same
  <1> USE RowFields DEF vars, queueVars, workerVars, fileVars, drainVars, storeVars, lifeVars
  <1>0. /\ TypeInv /\ TypeOK /\ TypeOK' /\ SequenceInv /\ PlaceInv /\ PlaceInv' /\ LossInv /\ LossInv'
        /\ NameInv /\ Pending \subseteq Memory /\ Typed
    BY PendingInMemory, StandingType DEF ContractInv, TypeInv, LossInv, FileInv, Typed
  <1>d. \A r \in Row : Durable(r) => Durable(r)'
    BY DurableKeeps
  <1>m. \A i \in Memory : pc[i] = "returned"
    BY <1>0, MemoryReturned
  <1>s. ASSUME queue' = queue, batch' = batch, wpc' = wpc, done' = done
        PROVE  Pending' = Pending
    BY <1>s DEF Pending, Unsettled, Elems
  <1>h. ASSUME stamp' = stamp
        PROVE  \A r \in Row : Shared(r)' <=> Shared(r)
    BY <1>h, SharedFrame
  <1>u. \A r \in Row : stamp[r] = 0 => ~Shared(r)
    BY UnnamedAlone
  <1>v. \A r \in Row : pc[r] \in {"idle", "held"} \/ r \in Pending => stamp[r] = 0 /\ ~Gone(r)
    BY <1>0 DEF PlaceInv, Placed
  <1>1. ASSUME NEW i \in Item, Resolve(i)
        PROVE  Same
    <2>1. Pending' = Pending
      BY <1>1, <1>s DEF Resolve
    <2>2. \A r \in Row : pc'[r] = "returned" <=> pc[r] = "returned"
      BY <1>0, <1>1 DEF Resolve, TypeOK
    <2>3. QED
      BY <1>1, <1>d, <2>1, <2>2, <1>h, FateFrame DEF Resolve, Same
  <1>2. ASSUME NEW i \in Item, RefuseArity(i)
        PROVE  Contract!Next \/ Same
    <2>1. Pending' = Pending
      BY <1>2, <1>s DEF RefuseArity
    <2>2. pc[i] = "held" /\ pc'[i] = "returned" /\ \A r \in Row : r # i => pc'[r] = pc[r]
      BY <1>0, <1>2 DEF RefuseArity, TypeOK
    <2>3. /\ UNCHANGED <<stamp, file, ledger, crashLost, husk>>
          /\ \A r \in Row : r # i => /\ r \in dead' <=> r \in dead
                                     /\ r \in lost' <=> r \in lost
      BY <1>2 DEF RefuseArity, DeadLetter
    <2>4. \A r \in Row : r # i => Standing(r)' = Standing(r)
      BY <1>d, <2>1, <2>2, <2>3, <1>h, FateFrame
    <2>5. CASE i \in Row
      <3>1. i \in dead' \cup lost' /\ i \notin Pending' /\ file'[i] # "whole"
        BY <1>0, <1>m, <1>2, <2>1, <2>2, <2>3, <2>5 DEF RefuseArity, DeadLetter, PlaceInv, Placed
      <3>2. Standing(i) = "absent" /\ Standing(i)' \in {"dead", "lost"}
        BY <1>h, <1>u, <1>v, <2>2, <2>3, <2>5, <3>1 DEF Standing, Fate
      <3>3. QED
        BY <1>0, <2>4, <2>5, <3>2, AbstractAccept DEF Surviving
    <2>6. CASE i \notin Row
      BY <2>4, <2>6 DEF Same
    <2>7. QED
      BY <2>5, <2>6
  <1>3. ASSUME NEW i \in Item, Put(i)
        PROVE  Contract!Next \/ Same
    <2>1. Pending' = Pending \cup {i}
      <3>1. Elems(queue') = Elems(queue) \cup {i}
        BY <1>0, <1>3, ElemsAppend DEF Put, TypeOK
      <3>2. QED
        BY <3>1, <1>3 DEF Put, Pending, Unsettled, Elems
    <2>2. pc[i] = "held" /\ pc'[i] = "returned" /\ \A r \in Row : r # i => pc'[r] = pc[r]
      BY <1>0, <1>3 DEF Put, TypeOK
    <2>3. \A r \in Row : r # i => Standing(r)' = Standing(r)
      BY <1>d, <1>3, <2>1, <2>2, <1>h, FateFrame DEF Put
    <2>4. i \in Row => Standing(i) = "absent" /\ Standing(i)' = "pending"
      BY <1>h, <1>u, <1>v, <1>3, <2>1, <2>2 DEF Put, Standing, Fate
    <2>5. CASE i \in Row
      BY <1>0, <2>3, <2>4, <2>5, AbstractAccept DEF Surviving
    <2>6. CASE i \notin Row
      BY <2>3, <2>6 DEF Same
    <2>7. QED
      BY <2>5, <2>6
  <1>4. ASSUME NEW i \in Item, DropTelemetry(i)
        PROVE  Same
    <2>1. Pending' = Pending
      BY <1>4, <1>s DEF DropTelemetry
    <2>2. \A r \in Row : pc'[r] = pc[r]
      BY <1>0, <1>4, ConstantsAssumption DEF DropTelemetry, TypeOK
    <2>3. QED
      BY <1>4, <1>d, <2>1, <2>2, <1>h, FateFrame DEF DropTelemetry, Same
  <1>5. ASSUME NEW x \in Row, Name(x)
        PROVE  Contract!Next \/ Same
    <2>1. Pending' = Pending
      BY <1>5, <1>s DEF Name
    <2>2. /\ \A r \in Row : r # x => pc'[r] = pc[r] /\ stamp'[r] = stamp[r]
          /\ pc[x] = "held" /\ pc'[x] = "naming" /\ stamp'[x] = named' + 1
          /\ named \in Nat /\ (named' = named \/ named' = named + 1)
          /\ UNCHANGED <<file, dead, lost, husk, crashLost>>
      BY <1>0, <1>5 DEF Name, TypeOK
    <2>3. stamp[x] = 0 /\ ~Shared(x) /\ stamp'[x] # 0
      BY <1>u, <1>v, <2>2
    <2> DEFINE S == {r \in Row : ~Shared(r) /\ Shared(r)'}
    <2>4. ASSUME NEW r \in Row, Shared(r) PROVE Shared(r)'
      BY <2>2, <2>3, <2>4 DEF Shared, Sharers
    <2>5. ASSUME NEW r \in Row \ S PROVE Standing(r)' = Standing(r)
      <3>1. Shared(r)' <=> Shared(r)
        BY <2>4
      <3>2. pc'[r] = "returned" <=> pc[r] = "returned"
        BY <2>2
      <3>3. QED
        BY <1>d, <2>1, <2>2, <3>1, <3>2, FateFrame
    <2>6. ASSUME NEW r \in S PROVE Standing(r) = "absent" /\ Standing(r)' = "exempt"
      <3>1. r = x \/ stamp[r] = named' + 1
        <4>1. PICK s \in Row \ {r} : stamp'[s] = stamp'[r] /\ stamp'[r] # 0
          BY DEF Shared, Sharers
        <4>2. s # x /\ r # x => FALSE
          BY <2>2, <4>1 DEF Shared, Sharers
        <4>3. QED
          BY <2>2, <4>1, <4>2
      <3>2. pc[r] # "returned"
        <4>1. CASE r = x
          BY <2>2, <4>1
        <4>2. CASE stamp[r] = named' + 1
          BY <1>0, <2>2, <4>2 DEF NameInv
        <4>3. QED
          BY <3>1, <4>1, <4>2
      <3>3. QED
        BY <3>2 DEF Standing, Fate
    <2>7. CASE S = {}
      BY <2>5, <2>7 DEF Same
    <2>8. CASE S # {}
      <3>1. S \in SUBSET Row
        OBVIOUS
      <3> HIDE DEF S
      <3>2. QED
        BY <1>0, <2>5, <2>6, <2>8, <3>1, AbstractCollide
    <2>9. QED
      BY <2>7, <2>8
  <1>t. ASSUME NEW x \in Row, NEW S \in SUBSET Sharers(x), NEW bytes, TakesFile(x, S, bytes)
        PROVE  /\ file'[x] = bytes
               /\ \A r \in Row : ~Shared(r) /\ r # x => file'[r] = file[r]
    BY <1>t, TakesFileAlone
  <1>6. ASSUME NEW x \in Row, Open(x)
        PROVE  Same
    <2> DEFINE S == {s \in Sharers(x) : Pooled => file[s] = "tmp"}
               b == IF Pooled THEN "tmp" ELSE "torn"
    <2>1. Pending' = Pending
      BY <1>6, <1>s DEF Open
    <2>2. /\ pc[x] = "naming" /\ pc'[x] = "spilling"
          /\ \A r \in Row : r # x => pc'[r] = pc[r]
          /\ UNCHANGED <<stamp, dead, lost, husk, crashLost>> /\ TakesFile(x, S, b)
      BY <1>0, <1>6 DEF Open, TypeOK
    <2>3. S \in SUBSET Sharers(x) /\ b # "whole"
      OBVIOUS
    <2> HIDE DEF S, b
    <2>4. \A r \in Row : ~Shared(r) /\ r # x => file'[r] = file[r]
      BY <1>t, <2>2, <2>3
    <2>5. file'[x] # "whole" /\ file[x] # "whole"
      <3>1. file'[x] = b
        BY <1>t, <2>2, <2>3
      <3>2. QED
        BY <1>0, <2>2, <2>3, <3>1 DEF PlaceInv, Placed
    <2>6. \A r \in Row : Standing(r)' = Standing(r)
      BY <1>d, <1>h, <2>1, <2>2, <2>4, <2>5, FateFrame
    <2>7. QED
      BY <2>6 DEF Same
  <1>6a. ASSUME NEW x \in Row, SpillDone(x)
         PROVE  Contract!Next \/ Same
    <2>1. Pending' = Pending
      BY <1>6a, <1>s DEF SpillDone
    <2>2. /\ pc[x] = "spilling" /\ pc'[x] = "returned"
          /\ \A r \in Row : r # x => pc'[r] = pc[r]
          /\ UNCHANGED <<stamp, dead, lost, husk, crashLost>>
      BY <1>0, <1>6a DEF SpillDone, TypeOK
    <2>3. \A r \in Row : ~Shared(r) /\ r # x => file'[r] = file[r]
      BY <1>6a, <1>t DEF SpillDone
    <2>4. \A r \in Row : r # x => Standing(r)' = Standing(r)
      BY <1>d, <1>h, <2>1, <2>2, <2>3, FateFrame
    <2>5. Shared(x)' <=> Shared(x)
      BY <1>h, <2>2
    <2>6. CASE Shared(x)
      <3>1. Standing(x)' = Standing(x)
        BY <2>5, <2>6 DEF Standing
      <3>2. QED
        BY <2>4, <3>1 DEF Same
    <2>7. CASE ~Shared(x)
      <3>1. file'[x] = "whole" \/ file[x] = "none"
        BY <1>6a, <2>7, TakesFileAlone DEF SpillDone
      <3>2. x \notin Pending' /\ (file'[x] = "whole" \/ x \in lost' \cup husk')
        BY <1>0, <1>m, <2>1, <2>2, <2>7, <3>1 DEF PlaceInv, Placed, Alone
      <3>3. Standing(x) = "absent" /\ Standing(x)' \in {"spilled", "dead", "lost", "husk"}
        BY <2>2, <2>5, <2>7, <3>2 DEF Standing, Fate
      <3>4. QED
        BY <1>0, <2>4, <3>3, AbstractAccept DEF Surviving
    <2>8. QED
      BY <2>6, <2>7
  <1>7. ASSUME NEW x \in Row, SpillRefused(x) \/ SpillBeaten(x)
        PROVE  Contract!Next \/ Same
    <2>1. Pending' = Pending
      BY <1>7, <1>s DEF SpillRefused, SpillBeaten
    <2>2. /\ pc[x] \in {"held", "spilling"} /\ pc'[x] = "returned"
          /\ \A r \in Row : r # x => pc'[r] = pc[r]
          /\ UNCHANGED <<stamp, husk, crashLost>>
          /\ \A r \in Row : r # x => /\ r \in dead' <=> r \in dead
                                     /\ r \in lost' <=> r \in lost
          /\ x \in dead' \cup lost'
      BY <1>0, <1>7 DEF SpillRefused, SpillBeaten, DeadLetter, TypeOK
    <2>3. /\ \A r \in Row : ~Shared(r) /\ r # x => file'[r] = file[r]
          /\ ~Shared(x) => file' = file
      <3>1. file' = file \/ (Sharers(x) # {} /\ \E b : TakesFile(x, Sharers(x), b))
        BY <1>7 DEF SpillRefused, SpillBeaten
      <3>2. QED
        BY <1>t, <3>1 DEF Shared
    <2>4. \A r \in Row : r # x => Standing(r)' = Standing(r)
      BY <1>d, <1>h, <2>1, <2>2, <2>3, FateFrame
    <2>5. Shared(x)' <=> Shared(x)
      BY <1>h, <2>2
    <2>6. CASE Shared(x)
      <3>1. Standing(x)' = Standing(x)
        BY <2>5, <2>6 DEF Standing
      <3>2. QED
        BY <2>4, <3>1 DEF Same
    <2>7. CASE ~Shared(x)
      <3>1. x \notin Pending' /\ file'[x] # "whole"
        BY <1>0, <1>m, <2>1, <2>2, <2>3, <2>7 DEF PlaceInv, Placed
      <3>2. Standing(x) = "absent" /\ Standing(x)' \in {"dead", "lost"}
        BY <2>2, <2>5, <2>7, <3>1 DEF Standing, Fate
      <3>3. QED
        BY <1>0, <2>4, <3>2, AbstractAccept DEF Surviving
    <2>8. QED
      BY <2>6, <2>7
  <1>8. CASE Commit
    <2> DEFINE S == {r \in Row : r \in Pending /\ r \notin Pending'}
    <2>1. UNCHANGED <<pc, stamp, file, dead, lost, husk, crashLost>> /\ ledger' = work
      BY <1>8 DEF Commit
    <2>h. \A r \in Row : Shared(r)' <=> Shared(r)
      BY <1>h, <2>1
    <2>2. Pending' \subseteq Pending
      BY <1>0, <1>8, QuietMemory DEF Quiet
    <2>3. \A r \in Row \ S : Standing(r)' = Standing(r)
      BY <1>d, <2>1, <2>2, <2>h, FateFrame
    <2>4. ASSUME NEW r \in S
          PROVE  Standing(r) = "pending" /\ Standing(r)' = "durable"
      <3>1. pc[r] = "returned" /\ file[r] # "whole" /\ ~Gone(r) /\ ~Shared(r)
        BY <1>0, <1>m, <1>u, <1>v DEF PlaceInv, Placed
      <3>2. r \in Pending' \/ Settled(r)'
        BY <1>0, <2>1, <2>h, <3>1 DEF LossInv, Accounted
      <3>3. Durable(r)'
        BY <2>1, <3>1, <3>2 DEF Settled, Gone
      <3>4. QED
        BY <2>1, <2>h, <3>1, <3>3 DEF Standing, Fate, Gone
    <2>5. CASE S = {}
      BY <2>3, <2>5 DEF Same
    <2>6. CASE S # {}
      <3>1. S \in SUBSET Row
        OBVIOUS
      <3> HIDE DEF S
      <3>2. QED
        BY <1>0, <2>3, <2>4, <2>6, <3>1, AbstractCommit
    <2>7. QED
      BY <2>5, <2>6
  <1>9. CASE SalvageRow
    <2>1. batch[done + 1] \in Item
      BY <1>0, <1>9 DEF SalvageRow, TypeOK
    <2>2. PICK i \in Item : i = batch[done + 1]
      BY <2>1
    <2>3. i \in Pending /\ Pending' = Pending \ {i}
      BY <1>0, <1>9, <2>2, SalvageOnce
    <2>4. /\ UNCHANGED <<pc, stamp, file, husk, crashLost>>
          /\ \A r \in Row : r # i => (r \in dead' <=> r \in dead) /\ (r \in lost' <=> r \in lost)
      BY <1>9, <2>2 DEF SalvageRow, DeadLetter
    <2>h. \A r \in Row : Shared(r)' <=> Shared(r)
      BY <1>h, <2>4
    <2>5. \A r \in Row : r # i => Standing(r)' = Standing(r)
      BY <1>d, <2>3, <2>4, <2>h, FateFrame
    <2>6. CASE i \in Row
      <3>1. pc[i] = "returned" /\ file[i] # "whole" /\ ~Gone(i) /\ ~Shared(i) /\ ~Shared(i)'
        BY <1>0, <1>m, <1>u, <1>v, <2>3, <2>6, <2>h DEF PlaceInv, Placed
      <3>2. Standing(i) = "pending"
        BY <2>3, <3>1 DEF Standing, Fate
      <3>3. Settled(i)'
        BY <1>0, <2>3, <2>4, <2>6, <3>1 DEF LossInv, Accounted
      <3>4. \/ dead' = dead /\ lost' = lost
            \/ i \in dead' \cup lost'
        BY <1>9, <2>2, <2>6 DEF SalvageRow, DeadLetter
      <3>5. CASE dead' = dead /\ lost' = lost
        <4>1. Standing(i)' = "durable"
          BY <2>3, <2>4, <3>1, <3>3, <3>5 DEF Standing, Fate, Settled, Gone
        <4>2. QED
          BY <2>5, <2>6, <3>2, <4>1, <1>0, AbstractCommit, {i} \in SUBSET Row
      <3>6. CASE i \in dead' \cup lost'
        <4>1. Standing(i)' \in {"dead", "lost"}
          BY <2>3, <2>4, <3>1, <3>6 DEF Standing, Fate
        <4>2. QED
          BY <2>5, <2>6, <3>2, <4>1, <1>0, AbstractReject
      <3>7. QED
        BY <3>4, <3>5, <3>6
    <2>7. CASE i \notin Row
      BY <2>5, <2>7 DEF Same
    <2>8. QED
      BY <2>6, <2>7
  <1>10. CASE Idle
    <2>1. Pending' = Pending
      BY <1>10 DEF Idle, Pending, Unsettled, Elems
    <2>2. QED
      BY <1>10, <1>d, <2>1, <1>h, FateFrame DEF Idle, Same
  <1>11. ASSUME NEW x \in Row, Replay(x)
        PROVE  Same
    <2>1. Pending' = Pending
      BY <1>11, <1>s DEF Replay
    <2>2. QED
      BY <1>11, <1>d, <2>1, <1>h, FateFrame DEF Replay, Same
  <1>12. ASSUME NEW x \in Row, ReplayRejected(x)
        PROVE  Same
    <2>1. Pending' = Pending
      BY <1>12, <1>s DEF ReplayRejected
    <2>2. /\ UNCHANGED <<pc, stamp, file, dead, crashLost>> /\ x \in pass
          /\ \A r \in Row : r # x => (r \in husk' <=> r \in husk) /\ (r \in lost' <=> r \in lost)
          /\ husk \subseteq husk' /\ lost \subseteq lost'
      BY <1>12 DEF ReplayRejected, DeadLetterNoArgs, Oldest
    <2>3. \A r \in Row : r # x => Standing(r)' = Standing(r)
      BY <1>d, <2>1, <2>2, <1>h, FateFrame
    <2>4. ASSUME ~Shared(x)
          PROVE  /\ x \notin Pending /\ file[x] \in {"torn", "whole"}
                 /\ pc[x] = "returned" /\ file[x] = "torn" => x \in dead \cup lost
      BY <1>0, <2>2, <2>4 DEF PlaceInv, Placed, Alone
    <2>5. Shared(x)' <=> Shared(x)
      BY <1>h, <2>2
    <2>6. Standing(x)' = Standing(x)
      BY <2>1, <2>2, <2>4, <2>5 DEF Standing, Fate
    <2>7. QED
      BY <2>3, <2>6 DEF Same
  <1>13. ASSUME NEW x \in Row, Retire(x)
        PROVE  Contract!Next \/ Same
    <2>1. Pending' = Pending
      BY <1>13, <1>s DEF Retire
    <2>2. /\ x \in retiring /\ UNCHANGED <<pc, stamp, ledger, dead, lost, husk, crashLost>>
          /\ file' = file \/ file' = [file EXCEPT ![x] = "none"]
      BY <1>13 DEF Retire
    <2>3. \A r \in Row : r # x => file'[r] = file[r]
      BY <1>0, <2>2 DEF TypeOK
    <2>4. \A r \in Row : r # x => Standing(r)' = Standing(r)
      BY <1>d, <2>1, <2>2, <2>3, <1>h, FateFrame
    <2>h. Shared(x)' <=> Shared(x)
      BY <1>h, <2>2
    <2>5. CASE ~Shared(x) /\ file[x] = "whole" /\ file'[x] # "whole"
      <3>1. pc[x] = "returned" /\ x \notin dead \cup crashLost /\ x \notin Pending
        BY <1>0, <2>5 DEF PlaceInv, Placed, Alone
      <3>2. x \in lost \cup husk \/ Durable(x)'
        <4>1. PICK m \in Row : stamp[m] = stamp[x] /\ Settled(m)
          BY <1>0, <2>2 DEF LossInv, FileInv, RetireInv
        <4>2. stamp[x] # 0
          BY <1>0, <2>2 DEF NameInv
        <4>3. m = x
          BY <2>5, <4>1, <4>2 DEF Shared, Sharers
        <4>4. QED
          BY <1>d, <3>1, <4>1, <4>3 DEF Settled
      <3>3. Standing(x) = "spilled" /\ Standing(x)' \in {"durable", "husk", "lost"}
        BY <2>1, <2>2, <2>5, <2>h, <3>1, <3>2 DEF Standing, Fate
      <3>4. QED
        BY <1>0, <2>4, <3>3, AbstractRecover
    <2>6. CASE Shared(x) \/ (file'[x] = "whole" <=> file[x] = "whole")
      <3>1. Standing(x)' = Standing(x)
        BY <1>d, <2>1, <2>2, <2>6, <2>h, FateFrame
      <3>2. QED
        BY <2>4, <3>1 DEF Same
    <2>7. QED
      BY <1>0, <2>2, <2>5, <2>6 DEF TypeOK
  <1>14. CASE Restart
    <2>1. Pending' = {} /\ crashLost' = crashLost \cup (Pending \cap Row)
      BY <1>14 DEF Restart, Pending, Unsettled, Elems
    <2>2. /\ \A r \in Row : pc'[r] = "returned" <=> pc[r] = "returned"
          /\ UNCHANGED <<stamp, file, ledger, dead, lost, husk>>
      BY <1>14 DEF Restart
    <2>3. ASSUME NEW r \in Row
          PROVE  Standing(r)' = IF Standing(r) = "pending" THEN "died" ELSE Standing(r)
      <3>1. CASE r \in Pending
        <4>1. pc[r] = "returned" /\ file[r] # "whole" /\ ~Gone(r) /\ ~Shared(r)
          BY <1>0, <1>m, <1>u, <1>v, <3>1 DEF PlaceInv, Placed
        <4>2. Standing(r) = "pending" /\ Standing(r)' = "died"
          BY <1>h, <2>1, <2>2, <3>1, <4>1 DEF Standing, Fate, Gone
        <4>3. QED
          BY <4>2
      <3>2. CASE r \notin Pending
        <4>1. Standing(r)' = Standing(r)
          BY <1>d, <2>1, <2>2, <3>2, <1>h, FateFrame
        <4>2. Standing(r) # "pending"
          BY <3>2 DEF Standing, Fate
        <4>3. QED
          BY <4>1, <4>2
      <3>3. QED
        BY <3>1, <3>2
    <2>4. QED
      BY <1>0, <2>3, AbstractDie
  <1>15. CASE Quiet /\ ~Commit
    <2>1. Pending' = Pending
      BY <1>0, <1>15, QuietMemory
    <2>2. UNCHANGED <<pc, stamp, file, dead, lost, husk, crashLost>>
      BY <1>15 DEF Quiet, Construct, ConstructFails, Touch, TouchFails, LoopHead, Take,
         BeginBatch, Execute, Rollback, SalvageDone, Acknowledge, DrainEnds, CadenceElapses,
         Closer, BeginClose, FlushReturns, FlushTimesOut, JoinEnds
    <2>3. QED
      BY <1>d, <2>1, <2>2, <1>h, FateFrame DEF Same
  <1>16. QED
    BY <1>1, <1>2, <1>3, <1>4, <1>5, <1>6, <1>6a, <1>7, <1>8, <1>9, <1>10, <1>11, <1>12, <1>13,
       <1>14, <1>15 DEF Next, Produce, Worker, Quiet

\* AuditWritePlane implements AuditDurability: a row handed over never
\* disappears, changes hands only as the contract says, and what has reached the
\* disk outlives the process.
THEOREM PlaneImplementsContract == Spec => ImplementsContract
  <1>1. Init => Contract!Init
    <2>1. Init => \A r \in Row : stamp[r] = 0 /\ pc[r] = "idle"
      BY RowFields DEF Init
    <2>2. Init => \A r \in Row : Standing(r) = "absent"
      BY <2>1, UnnamedAlone DEF Standing, Fate
    <2>3. QED
      BY <2>2 DEF Contract!Init
  <1>2. ContractInv /\ ContractInv' /\ [Next]_vars => [Contract!Step]_([r \in Row |-> Standing(r)])
    BY FateStep DEF Same, Contract!Step
  <1>3. QED
    BY <1>1, <1>2, ContractInvariant, PTL DEF Spec, ImplementsContract, Contract!Spec
=============================================================================
