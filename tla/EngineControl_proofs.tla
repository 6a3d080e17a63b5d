-------------------------- MODULE EngineControl_proofs --------------------------
(***************************************************************************)
(* Proofs about EngineControl, for every set of run-loop tasks, every      *)
(* number of connection attempts and processes and every choice of faults. *)
(* A persisted halt keeps every armed loop from trading, whoever starts,   *)
(* stops or relaunches; an operator who waits for one request to end       *)
(* before the next gets one loop, one teardown and a quiet database.       *)
(***************************************************************************)
EXTENDS EngineControl, TLAPS

-----------------------------------------------------------------------------
(* The inductive invariant *)

\* Past the boot gate.
Armable == {"arming", "loop", "polling"}
Gated == row = "HALTED" => \A t \in Loops : pc[t] \in Armable => mem # "RUNNING"

\* Between Enter and the end of run(), before its teardown.
Inside == {"connecting", "blocked"} \cup Armable

\* What holds for an operator who waits.
OneLoop == \A s, t \in Loops : pc[s] # "done" /\ pc[t] # "done" => s = t
BootUnseen == Booting => stop = "idle"
Seen == \A t \in Loops : pc[t] \in Inside => alive
LoopCloses == \A t \in Loops : pc[t] = "closing" => busy /\ stop # "closing"
StopIsLast == stop = "closing" => busy /\ \A t \in Loops : pc[t] \in {"done", "awaiting"}
HeldStart == waiting => ~Live /\ stop = "idle"
Orderly ==
    /\ OneLoop /\ BootUnseen /\ Seen /\ LoopCloses /\ StopIsLast /\ HeldStart
    /\ migration => ~Live
    /\ closed => /\ \A t \in Loops : pc[t] \in {"done", "starting", "awaiting"}
                 /\ ~busy /\ (short \/ ~(broker \/ plane))

IInv == TypeOK /\ Gated /\ (~hasty => Orderly)

-----------------------------------------------------------------------------
(* Init *)

LEMMA Positive ==
    /\ Attempts \in Nat /\ Attempts >= 1
    /\ MaxBoots \in Nat /\ MaxBoots >= 1
BY ConstantsAssumption

LEMMA InitIInv == Init => IInv
<1> SUFFICES ASSUME Init PROVE IInv
    OBVIOUS
<1>1. PICK t \in Loops : pc = Launched(t)
    BY DEF Init
<1>2. pc = [u \in Loops |-> IF u = t THEN "starting" ELSE "done"]
    BY <1>1 DEF Launched
<1>3. TypeOK
    <2>1. pc \in [Loops -> PC]
        BY <1>2 DEF PC
    <2>2. tries \in [Loops -> 0..(Attempts - 1)] /\ boots \in 1..MaxBoots
        BY Positive DEF Init
    <2> QED
        BY <2>1, <2>2 DEF Init, TypeOK
<1>4. Gated
    BY <1>2 DEF Init, Gated
<1>5. Orderly
    BY <1>2 DEF Init, Orderly, OneLoop, BootUnseen, Seen, LoopCloses, StopIsLast,
      HeldStart, Live, Booting, Inside, Armable
<1> QED
    BY <1>3, <1>4, <1>5 DEF IInv

-----------------------------------------------------------------------------
(* The steps *)

LEMMA SpawnTyped ==
    ASSUME TypeOK, NEW t \in Loops, Spawn(t)
    PROVE  /\ pc' \in [Loops -> PC] /\ tries' \in [Loops -> 0..(Attempts - 1)]
           /\ idle' \subseteq Loops
BY Positive DEF TypeOK, PC, Spawn

LEMMA EnterKeeps ==
    ASSUME IInv, NEW t \in Loops, Enter(t)
    PROVE  IInv'
<1>1. TypeOK'
    BY DEF IInv, TypeOK, PC, Enter, outside, safety, requests, Free, Moves
<1>2. Gated'
    BY DEF IInv, TypeOK, Gated, Armable, Enter, outside, safety, requests, Free, Moves
<1>3. (~hasty => Orderly)'
    BY DEF IInv, TypeOK, Orderly, OneLoop, BootUnseen, Seen, LoopCloses, StopIsLast,
       HeldStart, Live, Booting, Inside, Armable, Enter, outside, safety, requests,
       Free, Moves
<1> QED
    BY <1>1, <1>2, <1>3 DEF IInv

LEMMA ConnectFailsKeeps ==
    ASSUME IInv, NEW t \in Loops, ConnectFails(t)
    PROVE  IInv'
<1>1. TypeOK'
    <2>1. tries' \in [Loops -> 0..(Attempts - 1)]
        BY Positive DEF IInv, TypeOK, ConnectFails, Exhausted
    <2>2. pc' \in [Loops -> PC]
        BY DEF IInv, TypeOK, PC, ConnectFails, Moves
    <2> QED
        BY <2>1, <2>2 DEF IInv, TypeOK, ConnectFails, outside, safety, requests
<1>2. Gated'
    BY DEF IInv, TypeOK, Gated, Armable, ConnectFails, outside, safety, requests, Free,
       Moves, Exhausted
<1>3. (~hasty => Orderly)'
    BY DEF IInv, TypeOK, Orderly, OneLoop, BootUnseen, Seen, LoopCloses, StopIsLast,
       HeldStart, Live, Booting, Inside, Armable, ConnectFails, outside, safety,
       requests, Free, Moves, Exhausted
<1> QED
    BY <1>1, <1>2, <1>3 DEF IInv

LEMMA ArmedKeeps ==
    ASSUME IInv, NEW t \in Loops, Armed(t)
    PROVE  IInv'
<1>1. TypeOK'
    BY DEF IInv, TypeOK, PC, Armed, requests, Free, Moves, Decided
<1>2. Gated'
    BY DEF IInv, TypeOK, Gated, Armable, Armed, requests, Free, Moves, Decided
<1>3. (~hasty => Orderly)'
    BY DEF IInv, TypeOK, Orderly, OneLoop, BootUnseen, Seen, LoopCloses, StopIsLast,
       HeldStart, Live, Booting, Inside, Armable, Armed, requests, Free, Moves, Decided
<1> QED
    BY <1>1, <1>2, <1>3 DEF IInv

LEMMA BlockedKeeps ==
    ASSUME IInv, NEW t \in Loops, Blocked(t)
    PROVE  IInv'
<1>1. TypeOK'
    BY DEF IInv, TypeOK, PC, Blocked, requests, Free, Moves
<1>2. Gated'
    BY DEF IInv, TypeOK, Gated, Armable, Blocked, requests, Free, Moves
<1>3. (~hasty => Orderly)'
    BY DEF IInv, TypeOK, Orderly, OneLoop, BootUnseen, Seen, LoopCloses, StopIsLast,
       HeldStart, Live, Booting, Inside, Armable, Blocked, requests, Free, Moves
<1> QED
    BY <1>1, <1>2, <1>3 DEF IInv

LEMMA UnreadKeeps ==
    ASSUME IInv, NEW t \in Loops, Unread(t)
    PROVE  IInv'
<1>1. TypeOK'
    BY DEF IInv, TypeOK, PC, Unread, requests, Free, Moves, LastWord, Shutdown, Close
<1>2. Gated'
    BY DEF IInv, TypeOK, Gated, Armable, Unread, requests, Free, Moves, LastWord,
       Shutdown, Close
<1>3. (~hasty => Orderly)'
    BY DEF IInv, TypeOK, Orderly, OneLoop, BootUnseen, Seen, LoopCloses, StopIsLast,
       HeldStart, Live, Booting, Inside, Armable, Unread, requests, Free, Moves,
       LastWord, Shutdown, Close
<1> QED
    BY <1>1, <1>2, <1>3 DEF IInv

LEMMA UnblockedKeeps ==
    ASSUME IInv, NEW t \in Loops, Unblocked(t)
    PROVE  IInv'
<1>1. TypeOK'
    BY DEF IInv, TypeOK, PC, Unblocked, safety, requests, Free, Moves, LastWord,
       Shutdown, Close
<1>2. Gated'
    BY DEF IInv, TypeOK, Gated, Armable, Unblocked, safety, requests, Free, Moves,
       LastWord, Shutdown, Close
<1>3. (~hasty => Orderly)'
    BY DEF IInv, TypeOK, Orderly, OneLoop, BootUnseen, Seen, LoopCloses, StopIsLast,
       HeldStart, Live, Booting, Inside, Armable, Unblocked, safety, requests, Free,
       Moves, LastWord, Shutdown, Close
<1> QED
    BY <1>1, <1>2, <1>3 DEF IInv

LEMMA WarmKeeps ==
    ASSUME IInv, NEW t \in Loops, Warm(t)
    PROVE  IInv'
<1>1. TypeOK'
    BY DEF IInv, TypeOK, PC, Warm, engine, outside, safety, requests, Free, Moves
<1>2. Gated'
    BY DEF IInv, TypeOK, Gated, Armable, Warm, engine, outside, safety, requests, Free,
       Moves
<1>3. (~hasty => Orderly)'
    BY DEF IInv, TypeOK, Orderly, OneLoop, BootUnseen, Seen, LoopCloses, StopIsLast,
       HeldStart, Live, Booting, Inside, Armable, Warm, engine, outside, safety,
       requests, Free, Moves
<1> QED
    BY <1>1, <1>2, <1>3 DEF IInv

LEMMA BootFailsKeeps ==
    ASSUME IInv, NEW t \in Loops, BootFails(t)
    PROVE  IInv'
<1>1. TypeOK'
    BY DEF IInv, TypeOK, PC, BootFails, engine, outside, safety, requests, Free, Moves
<1>2. Gated'
    BY DEF IInv, TypeOK, Gated, Armable, BootFails, engine, outside, safety, requests,
       Free, Moves
<1>3. (~hasty => Orderly)'
    BY DEF IInv, TypeOK, Orderly, OneLoop, BootUnseen, Seen, LoopCloses, StopIsLast,
       HeldStart, Live, Booting, Inside, Armable, BootFails, engine, outside, safety,
       requests, Free, Moves
<1> QED
    BY <1>1, <1>2, <1>3 DEF IInv

LEMMA PollKeeps ==
    ASSUME IInv, NEW t \in Loops, Poll(t)
    PROVE  IInv'
<1>1. TypeOK'
    BY DEF IInv, TypeOK, PC, Poll, engine, outside, safety, requests, Free, Moves
<1>2. Gated'
    BY DEF IInv, TypeOK, Gated, Armable, Poll, engine, outside, safety, requests, Free,
       Moves
<1>3. (~hasty => Orderly)'
    BY DEF IInv, TypeOK, Orderly, OneLoop, BootUnseen, Seen, LoopCloses, StopIsLast,
       HeldStart, Live, Booting, Inside, Armable, Poll, engine, outside, safety,
       requests, Free, Moves
<1> QED
    BY <1>1, <1>2, <1>3 DEF IInv

LEMMA PassKeeps ==
    ASSUME IInv, NEW t \in Loops, Pass(t)
    PROVE  IInv'
<1>1. TypeOK'
    BY DEF IInv, TypeOK, PC, Pass, engine, safety, requests, Free, Moves
<1>2. Gated'
    BY DEF IInv, TypeOK, Gated, Armable, Pass, engine, safety, requests, Free, Moves
<1>3. (~hasty => Orderly)'
    BY DEF IInv, TypeOK, Orderly, OneLoop, BootUnseen, Seen, LoopCloses, StopIsLast,
       HeldStart, Live, Booting, Inside, Armable, Pass, engine, safety, requests, Free,
       Moves
<1> QED
    BY <1>1, <1>2, <1>3 DEF IInv

LEMMA HaltKeeps ==
    ASSUME IInv, NEW t \in Loops, Halt(t)
    PROVE  IInv'
<1>1. TypeOK'
    BY DEF IInv, TypeOK, PC, Halt, outside, requests, Free, Moves
<1>2. Gated'
    BY DEF IInv, TypeOK, Gated, Armable, Halt, outside, requests, Free, Moves
<1>3. (~hasty => Orderly)'
    BY DEF IInv, TypeOK, Orderly, OneLoop, BootUnseen, Seen, LoopCloses, StopIsLast,
       HeldStart, Live, Booting, Inside, Armable, Halt, outside, requests, Free, Moves
<1> QED
    BY <1>1, <1>2, <1>3 DEF IInv

LEMMA LeaveKeeps ==
    ASSUME IInv, NEW t \in Loops, Leave(t)
    PROVE  IInv'
<1>1. TypeOK'
    BY DEF IInv, TypeOK, PC, Leave, safety, requests, Free, Moves, Shutdown, Close
<1>2. Gated'
    BY DEF IInv, TypeOK, Gated, Armable, Leave, safety, requests, Free, Moves,
       Shutdown, Close
<1>3. (~hasty => Orderly)'
    BY DEF IInv, TypeOK, Orderly, OneLoop, BootUnseen, Seen, LoopCloses, StopIsLast,
       HeldStart, Live, Booting, Inside, Armable, Leave, safety, requests, Free, Moves,
       Shutdown, Close
<1> QED
    BY <1>1, <1>2, <1>3 DEF IInv

LEMMA ClosesKeeps ==
    ASSUME IInv, NEW t \in Loops, Closes(t)
    PROVE  IInv'
<1>1. TypeOK'
    BY DEF IInv, TypeOK, PC, Closes, safety, requests, Free, Abandon, Moves
<1>2. Gated'
    BY DEF IInv, TypeOK, Gated, Armable, Closes, safety, requests, Free, Abandon, Moves
<1>3. (~hasty => Orderly)'
    BY DEF IInv, TypeOK, Orderly, OneLoop, BootUnseen, Seen, LoopCloses, StopIsLast,
       HeldStart, Live, Booting, Inside, Armable, Closes, safety, requests, Free,
       Abandon, Moves
<1> QED
    BY <1>1, <1>2, <1>3 DEF IInv

LEMMA AwaitedKeeps ==
    ASSUME IInv, NEW t \in Loops, Awaited(t)
    PROVE  IInv'
<1>1. TypeOK'
    BY DEF IInv, TypeOK, PC, Awaited, outside, safety, requests, Free, Moves, LastWord
<1>2. Gated'
    BY DEF IInv, TypeOK, Gated, Armable, Awaited, outside, safety, requests, Free,
       Moves, LastWord
<1>3. (~hasty => Orderly)'
    BY DEF IInv, TypeOK, Orderly, OneLoop, BootUnseen, Seen, LoopCloses, StopIsLast,
       HeldStart, Live, Booting, Inside, Armable, Awaited, outside, safety, requests,
       Free, Moves, LastWord
<1> QED
    BY <1>1, <1>2, <1>3 DEF IInv

LEMMA ReconnectKeeps ==
    ASSUME IInv, NEW t \in Loops, Reconnect(t)
    PROVE  IInv'
<1>1. TypeOK'
    BY DEF IInv, TypeOK, PC, Reconnect, engine, safety, requests, Free
<1>2. Gated'
    BY DEF IInv, TypeOK, Gated, Armable, Reconnect, engine, safety, requests, Free
<1>3. (~hasty => Orderly)'
    BY DEF IInv, TypeOK, Orderly, OneLoop, BootUnseen, Seen, LoopCloses, StopIsLast,
       HeldStart, Live, Booting, Inside, Armable, Reconnect, engine, safety, requests,
       Free
<1> QED
    BY <1>1, <1>2, <1>3 DEF IInv

LEMMA RetrainEndsKeeps ==
    ASSUME IInv, RetrainEnds
    PROVE  IInv'
<1>1. TypeOK'
    BY DEF IInv, TypeOK, PC, RetrainEnds, engine, safety, requests, Free
<1>2. Gated'
    BY DEF IInv, TypeOK, Gated, Armable, RetrainEnds, engine, safety, requests, Free
<1>3. (~hasty => Orderly)'
    BY DEF IInv, TypeOK, Orderly, OneLoop, BootUnseen, Seen, LoopCloses, StopIsLast,
       HeldStart, Live, Booting, Inside, Armable, RetrainEnds, engine, safety,
       requests, Free
<1> QED
    BY <1>1, <1>2, <1>3 DEF IInv

LEMMA StartKeeps ==
    ASSUME IInv, Start
    PROVE  IInv'
<1>1. TypeOK'
    <2>1. /\ pc' \in [Loops -> PC] /\ tries' \in [Loops -> 0..(Attempts - 1)]
          /\ idle' \subseteq Loops
        BY SpawnTyped, Zenon DEF IInv, TypeOK, Start
    <2>2. waiting' \in BOOLEAN /\ hasty' \in BOOLEAN
        BY DEF IInv, TypeOK, Start, Hurries
    <2> QED
        BY <2>1, <2>2 DEF IInv, TypeOK, Start, engine, outside, safety
<1>2. Gated'
    BY DEF IInv, TypeOK, Gated, Armable, Start, engine, outside, safety, Free, Spawn,
       Hurries
<1>3. (~hasty => Orderly)'
    BY DEF IInv, TypeOK, Orderly, OneLoop, BootUnseen, Seen, LoopCloses, StopIsLast,
       HeldStart, Live, Booting, Inside, Armable, Start, engine, outside, safety, Free,
       Spawn, Hurries
<1> QED
    BY <1>1, <1>2, <1>3 DEF IInv

LEMMA StartResumesKeeps ==
    ASSUME IInv, StartResumes
    PROVE  IInv'
<1>1. TypeOK'
    <2>1. /\ pc' \in [Loops -> PC] /\ tries' \in [Loops -> 0..(Attempts - 1)]
          /\ idle' \subseteq Loops
        BY SpawnTyped, Zenon DEF IInv, TypeOK, StartResumes
    <2> QED
        BY <2>1 DEF IInv, TypeOK, StartResumes, engine, outside, safety
<1>2. Gated'
    BY DEF IInv, TypeOK, Gated, Armable, StartResumes, engine, outside, safety, Spawn
<1>3. (~hasty => Orderly)'
    BY DEF IInv, TypeOK, Orderly, OneLoop, BootUnseen, Seen, LoopCloses, StopIsLast,
       HeldStart, Live, Booting, Inside, Armable, StartResumes, engine, outside,
       safety, Spawn
<1> QED
    BY <1>1, <1>2, <1>3 DEF IInv

LEMMA StopPressedKeeps ==
    ASSUME IInv, StopPressed
    PROVE  IInv'
<1>1. TypeOK'
    BY DEF IInv, TypeOK, PC, StopPressed, outside, safety, Free
<1>2. Gated'
    BY DEF IInv, TypeOK, Gated, Armable, StopPressed, outside, safety, Free
<1>3. (~hasty => Orderly)'
    BY DEF IInv, TypeOK, Orderly, OneLoop, BootUnseen, Seen, LoopCloses, StopIsLast,
       HeldStart, Live, Booting, Inside, Armable, StopPressed, outside, safety, Free
<1> QED
    BY <1>1, <1>2, <1>3 DEF IInv

LEMMA StopGoesOnKeeps ==
    ASSUME IInv, StopGoesOn
    PROVE  IInv'
<1>1. TypeOK'
    BY DEF IInv, TypeOK, PC, StopGoesOn, safety, Free, Shutdown, Close
<1>2. Gated'
    BY DEF IInv, TypeOK, Gated, Armable, StopGoesOn, safety, Free, Shutdown, Close
<1>3. (~hasty => Orderly)'
    <2> SUFFICES ASSUME ~hasty PROVE Orderly'
        BY DEF StopGoesOn
    <2>1. \A t \in Loops : pc[t] \in {"done", "closing", "awaiting"}
        BY DEF IInv, TypeOK, PC, Orderly, BootUnseen, Booting, Seen, Inside, Armable, StopGoesOn
    <2>2. CASE closed \/ busy
        BY <2>1, <2>2 DEF IInv, TypeOK, Orderly, OneLoop, BootUnseen, Seen, LoopCloses, StopIsLast,
               HeldStart, Live, Booting, Inside, Armable, StopGoesOn, Free, Shutdown
    <2>3. CASE ~closed /\ ~busy
        <3>1. \A t \in Loops : pc[t] \in {"done", "awaiting"}
            BY <2>1, <2>3 DEF IInv, Orderly, LoopCloses
        <3> QED
            BY <3>1, <2>3 DEF IInv, TypeOK, Orderly, OneLoop, BootUnseen, Seen, LoopCloses, StopIsLast,
               HeldStart, Live, Booting, Inside, Armable, StopGoesOn, Free,
               Shutdown, Close
    <2> QED
        BY <2>2, <2>3
<1> QED
    BY <1>1, <1>2, <1>3 DEF IInv

LEMMA StopClosesKeeps ==
    ASSUME IInv, StopCloses
    PROVE  IInv'
<1>1. TypeOK'
    BY DEF IInv, TypeOK, PC, StopCloses, safety, Free, Abandon
<1>2. Gated'
    BY DEF IInv, TypeOK, Gated, Armable, StopCloses, safety, Free, Abandon
<1>3. (~hasty => Orderly)'
    BY DEF IInv, TypeOK, Orderly, OneLoop, BootUnseen, Seen, LoopCloses, StopIsLast,
       HeldStart, Live, Booting, Inside, Armable, StopCloses, safety, Free, Abandon
<1> QED
    BY <1>1, <1>2, <1>3 DEF IInv

LEMMA StopAnsweredKeeps ==
    ASSUME IInv, StopAnswered
    PROVE  IInv'
<1>1. TypeOK'
    BY DEF IInv, TypeOK, PC, StopAnswered, engine, outside, safety, Free
<1>2. Gated'
    BY DEF IInv, TypeOK, Gated, Armable, StopAnswered, engine, outside, safety, Free
<1>3. (~hasty => Orderly)'
    BY DEF IInv, TypeOK, Orderly, OneLoop, BootUnseen, Seen, LoopCloses, StopIsLast,
       HeldStart, Live, Booting, Inside, Armable, StopAnswered, engine, outside,
       safety, Free
<1> QED
    BY <1>1, <1>2, <1>3 DEF IInv

LEMMA InterruptKeeps ==
    ASSUME IInv, Interrupt
    PROVE  IInv'
<1>1. TypeOK'
    BY DEF IInv, TypeOK, PC, Interrupt, outside, safety, requests, Free
<1>2. Gated'
    BY DEF IInv, TypeOK, Gated, Armable, Interrupt, outside, safety, requests, Free
<1>3. (~hasty => Orderly)'
    BY DEF IInv, TypeOK, Orderly, OneLoop, BootUnseen, Seen, LoopCloses, StopIsLast,
       HeldStart, Live, Booting, Inside, Armable, Interrupt, outside, safety, requests,
       Free
<1> QED
    BY <1>1, <1>2, <1>3 DEF IInv

LEMMA MigrationBeginsKeeps ==
    ASSUME IInv, MigrationBegins
    PROVE  IInv'
<1>1. TypeOK'
    BY DEF IInv, TypeOK, PC, MigrationBegins, engine, outside, safety, Free, Hurries
<1>2. Gated'
    BY DEF IInv, TypeOK, Gated, Armable, MigrationBegins, engine, outside, safety,
       Free, Hurries
<1>3. (~hasty => Orderly)'
    BY DEF IInv, TypeOK, Orderly, OneLoop, BootUnseen, Seen, LoopCloses, StopIsLast,
       HeldStart, Live, Booting, Inside, Armable, MigrationBegins, engine, outside,
       safety, Free, Hurries
<1> QED
    BY <1>1, <1>2, <1>3 DEF IInv

LEMMA MigrationEndsKeeps ==
    ASSUME IInv, MigrationEnds
    PROVE  IInv'
<1>1. TypeOK'
    BY DEF IInv, TypeOK, PC, MigrationEnds, engine, outside, safety
<1>2. Gated'
    BY DEF IInv, TypeOK, Gated, Armable, MigrationEnds, engine, outside, safety
<1>3. (~hasty => Orderly)'
    BY DEF IInv, TypeOK, Orderly, OneLoop, BootUnseen, Seen, LoopCloses, StopIsLast,
       HeldStart, Live, Booting, Inside, Armable, MigrationEnds, engine, outside, safety
<1> QED
    BY <1>1, <1>2, <1>3 DEF IInv

LEMMA ReleaseKeeps ==
    ASSUME IInv, Release
    PROVE  IInv'
<1>1. TypeOK'
    BY DEF IInv, TypeOK, PC, Release, engine, outside, requests
<1>2. Gated'
    BY DEF IInv, TypeOK, Gated, Armable, Release, engine, outside, requests
<1>3. (~hasty => Orderly)'
    BY DEF IInv, TypeOK, Orderly, OneLoop, BootUnseen, Seen, LoopCloses, StopIsLast,
       HeldStart, Live, Booting, Inside, Armable, Release, engine, outside, requests
<1> QED
    BY <1>1, <1>2, <1>3 DEF IInv

LEMMA RelaunchKeeps ==
    ASSUME IInv, Relaunch
    PROVE  IInv'
<1>1. TypeOK'
    <2>1. pc' \in [Loops -> PC] /\ tries' \in [Loops -> 0..(Attempts - 1)]
        BY Positive DEF PC, Relaunch, Launched
    <2>2. boots' \in 1..MaxBoots
        BY Positive DEF IInv, TypeOK, Relaunch
    <2> QED
        BY <2>1, <2>2 DEF IInv, TypeOK, Relaunch
<1>2. Gated'
    BY DEF IInv, TypeOK, Gated, Armable, Relaunch, Launched
<1>3. (~hasty => Orderly)'
    BY DEF IInv, TypeOK, Orderly, OneLoop, BootUnseen, Seen, LoopCloses, StopIsLast,
       HeldStart, Live, Booting, Inside, Armable, Relaunch, Launched
<1> QED
    BY <1>1, <1>2, <1>3 DEF IInv

LEMMA StepIInv == IInv /\ [Next]_vars => IInv'
<1> SUFFICES ASSUME IInv, [Next]_vars PROVE IInv'
    OBVIOUS
<1>1. CASE \E t \in Loops : LoopStep(t) \/ Reconnect(t)
    <2> PICK t \in Loops : LoopStep(t) \/ Reconnect(t)
        BY <1>1
    <2> QED
        BY EnterKeeps, ConnectFailsKeeps, ArmedKeeps, BlockedKeeps, UnreadKeeps,
           UnblockedKeeps, WarmKeeps, BootFailsKeeps, PollKeeps, PassKeeps, HaltKeeps,
           LeaveKeeps, ClosesKeeps, AwaitedKeeps, ReconnectKeeps DEF LoopStep
<1>2. CASE RetrainEnds
    BY <1>2, RetrainEndsKeeps
<1>3. CASE Request
    BY <1>3, StartKeeps, StartResumesKeeps, StopPressedKeeps, StopGoesOnKeeps,
       StopClosesKeeps, StopAnsweredKeeps, InterruptKeeps, MigrationBeginsKeeps,
       MigrationEndsKeeps, ReleaseKeeps
       DEF Request
<1>4. CASE Relaunch
    BY <1>4, RelaunchKeeps
<1>5. CASE UNCHANGED vars
    BY <1>5 DEF vars, engine, outside, safety, requests, IInv, TypeOK, Gated, Orderly, OneLoop,
       BootUnseen, Seen, LoopCloses, StopIsLast, HeldStart, Live, Booting
<1> QED
    BY <1>1, <1>2, <1>3, <1>4, <1>5 DEF Next

LEMMA Invariant == Spec => []IInv
BY InitIInv, StepIInv, PTL DEF Spec

-----------------------------------------------------------------------------
(* Theorems *)

\* The variables of the engine, of its four flags and of the requests keep their types.
THEOREM TypeCorrect == Spec => []TypeOK
<1>1. IInv => TypeOK
    BY DEF IInv
<1> QED
    BY Invariant, <1>1, PTL

\* While a persisted halt stands no pass of any run loop finds the gate open: arming
\* needs a row that says RUNNING, and the halt that writes the row closes the gate.
THEOREM HaltsHold == Spec => []HaltHolds
<1>1. IInv => HaltHolds
    BY DEF IInv, Gated, Armable, HaltHolds, Ticking
<1> QED
    BY Invariant, <1>1, PTL

\* Only the release command turns a persisted halt into RUNNING: no boot does, whether
\* its read of the row succeeds, fails or comes from a second loop.
THEOREM ReleaseIsTheOperators == Spec => OnlyOperatorReleases
<1>1. [Next]_vars =>
          (row = "HALTED" /\ row' = "RUNNING" => UNCHANGED <<pc, engine, mem, boots>>)
    <2> SUFFICES ASSUME [Next]_vars, row = "HALTED", row' = "RUNNING"
                 PROVE  UNCHANGED <<pc, engine, mem, boots>>
        OBVIOUS
    <2>1. ASSUME NEW t \in Loops, LoopStep(t) PROVE FALSE
        BY <2>1 DEF LoopStep, Enter, ConnectFails, Armed, Decided, Blocked, Unread, Unblocked,
           Warm, BootFails, Poll, Pass, Halt, Leave, Closes, Awaited, safety
    <2>2. ASSUME NEW t \in Loops, Reconnect(t) PROVE FALSE
        BY <2>2 DEF Reconnect, safety
    <2>3. CASE RetrainEnds \/ Relaunch
        BY <2>3 DEF RetrainEnds, Relaunch, safety
    <2>4. CASE Request
        BY <2>4 DEF Request, Start, StartResumes, StopPressed, StopGoesOn, StopCloses,
           StopAnswered, Interrupt, MigrationBegins, MigrationEnds, Release, safety
    <2>5. CASE UNCHANGED vars
        BY <2>5 DEF vars, safety
    <2> QED
        BY <2>1, <2>2, <2>3, <2>4, <2>5 DEF Next
<1> QED
    BY <1>1, PTL DEF Spec, OnlyOperatorReleases

\* A completed shutdown leaves no loop armed and no teardown under way, and nothing
\* connected unless that teardown was cut short, for an operator who waits: the loop
\* that is closed was the only one.
THEOREM ClosedMeansQuiet == Spec => []ClosedIsQuiet
<1>1. IInv => ClosedIsQuiet
    BY DEF IInv, Orderly, ClosedIsQuiet
<1> QED
    BY Invariant, <1>1, PTL

\* The loop and the STOP that waits for it never tear the engine down side by side:
\* whoever comes second finds the teardown in progress.
THEOREM TeardownIsSingle == Spec => []OneTeardown
<1>1. IInv => OneTeardown
    BY DEF IInv, Orderly, OneLoop, LoopCloses, OneTeardown
<1> QED
    BY Invariant, <1>1, PTL

\* No run loop exists while a migration holds the database, for an operator who waits.
THEOREM MigrationIsAlone == Spec => []MigrationAlone
<1>1. IInv => MigrationAlone
    BY DEF IInv, Orderly, MigrationAlone
<1> QED
    BY Invariant, <1>1, PTL
=============================================================================
