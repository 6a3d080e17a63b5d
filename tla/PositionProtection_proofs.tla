---------------------- MODULE PositionProtection_proofs ----------------------
(***************************************************************************)
(* PositionProtection for every value of the constants: any prices, stops, *)
(* triggers, distances and faults, and any number of restarts.             *)
(*                                                                         *)
(* The argument.  Every link of the chain compares its target with the     *)
(* snapshot, and while a pass runs the stop last seen is the snapshot's,   *)
(* unless the operator has moved the stop meanwhile (InPass).  So whatever *)
(* is sent, answered or not, lies past the stop last seen; the capped lock *)
(* alone may not, but it stays above the entry (NotBelow).  A stop that is *)
(* past the first one stays so, and the break-even flag is set only once   *)
(* it is (MovedInv).                                                       *)
(***************************************************************************)
EXTENDS PositionProtection, TLAPS

InPass == step \in {"giveback", "lock", "mfe", "act"} => seen \in {None, pos.stop}

NotBelow == stop >= seen \/ stop > Open

IInv == TypeOK /\ InPass /\ NotBelow

-----------------------------------------------------------------------------
(* Arithmetic *)

LEMMA Consts ==
    /\ Open \in Nat /\ Volume \in Nat \ {0} /\ FirstStop \in Nat /\ FirstStop < Open
    /\ AtrRisk \in Nat /\ Gap \in Nat /\ LockGap \in Nat /\ LockPips \in Nat /\ Cost \in Nat
    /\ MinPeak \in Nat /\ MfePeak \in Nat /\ RulePip \in Nat /\ HalfAtr \in Nat
    /\ BeLock \in Nat /\ Trail \in Nat /\ MaxRestarts \in Nat
    /\ Prices \subseteq Nat /\ HandStops \subseteq Nat /\ Triggers \subseteq Nat /\ Open \in Prices
  BY ConstantsAssumption

LEMMA MulNat == ASSUME NEW a \in Nat, NEW b \in Nat PROVE a * b \in Nat
  OBVIOUS

LEMMA MulInt == ASSUME NEW a \in Nat, NEW b \in Int PROVE a * b \in Int
  OBVIOUS

LEMMA DivInt == ASSUME NEW a \in Int, NEW b \in Nat \ {0} PROVE a \div b \in Int
  OBVIOUS

LEMMA DivNat == ASSUME NEW a \in Nat, NEW b \in Nat \ {0} PROVE a \div b \in Nat
  OBVIOUS

\* The best profit is a number, not below what was there.
LEMMA PeakNat ==
    ASSUME TypeOK, NEW p \in Int PROVE Peak(p) \in Nat
  BY DEF TypeOK, Peak, Highest

\* The risk of a position first seen now.
LEMMA RiskNat ==
    ASSUME TypeOK
    PROVE  vol * (IF stop = 0 THEN AtrRisk ELSE Highest(Open - stop, stop - Open)) \in Nat
  <1> DEFINE d == IF stop = 0 THEN AtrRisk ELSE Highest(Open - stop, stop - Open)
  <1>1. d \in Nat
    BY Consts DEF TypeOK, Highest
  <1>2. vol \in Nat
    BY Consts DEF TypeOK
  <1> QED
    BY <1>1, <1>2, MulNat

\* Where the plan puts the stop, if it is past the snapshot's.
LEMMA PlannedNat ==
    ASSUME TypeOK, NEW k \in Nat, Due(k), Planned(k) > pos.stop PROVE Planned(k) \in Nat
  <1>1. risk \in Nat /\ pos.vol \in Nat \ {0} /\ pos.stop \in Nat
    BY Consts DEF TypeOK, Due, Unknown
  <1>2. Unit \in Nat
    BY <1>1, DivNat DEF Unit
  <1>3. (45 * Unit) \div 100 \in Nat /\ Unit \div 10 \in Nat
    BY <1>2
  <1>4. Planned(k) \in Int
    BY <1>3, Consts DEF Planned
  <1> QED
    BY <1>1, <1>4

LEMMA BestLockInt == ASSUME TypeOK PROVE BestLock \in Int
  <1>1. 7 * mem.peak \in Int /\ 10 * pos.vol \in Nat \ {0}
    BY Consts DEF TypeOK
  <1> QED
    BY <1>1, DivInt, Consts DEF BestLock

\* What modify_position leaves at the broker.
LEMMA ModifySets ==
    ASSUME NEW t, NEW ok, Modify(t, ok)
    PROVE  /\ stop' \in {t, stop}
           /\ price' = price /\ vol' = vol
  BY DEF Modify

-----------------------------------------------------------------------------
(* A pass that writes a stop past the snapshot keeps the invariant *)

LEMMA WritesPast ==
    ASSUME IInv, NEW t \in Int, NEW ok, Modify(t, ok),
           step \in {"giveback", "lock", "mfe", "act"},
           t > pos.stop \/ t > Open, seen' = seen
    PROVE  stop' \in Nat /\ price' \in Prices /\ vol' \in 0..Volume /\ NotBelow'
  <1>1. /\ stop' \in {t, stop} /\ price' = price /\ vol' = vol
    BY ModifySets
  <1>2. seen \in {None, pos.stop} /\ pos.stop \in Nat /\ stop \in Nat
    BY DEF IInv, InPass, TypeOK
  <1>3. CASE stop' = stop
    BY <1>1, <1>3 DEF IInv, NotBelow, TypeOK
  <1>4. CASE stop' = t
    BY <1>1, <1>2, <1>4, Consts DEF IInv, NotBelow, TypeOK, None
  <1> QED
    BY <1>1, <1>3, <1>4

\* The pass is over, or goes on with the same snapshot.
LEMMA EndsOK == ASSUME TypeOK, Ends PROVE
    /\ step' \in Steps /\ tick' \in Prices
    /\ pos' \in [stop : Nat, vol : 1..Volume, profit : Int]
    /\ InPass'
  BY Consts DEF Ends, NoPosition, Steps, InPass

LEMMA ToOK == ASSUME TypeOK, InPass, NEW s \in {"lock", "mfe", "act"}, To(s), seen' = seen,
    step \in {"giveback", "lock", "mfe", "act"}
    PROVE
    /\ step' \in Steps /\ tick' \in Prices
    /\ pos' \in [stop : Nat, vol : 1..Volume, profit : Int]
    /\ InPass'
  BY DEF TypeOK, To, Steps, InPass

LEMMA CloseOK == ASSUME TypeOK, NotBelow, NEW ok, Close(ok), seen' = seen PROVE
    stop' \in Nat /\ price' \in Prices /\ vol' \in 0..Volume /\ NotBelow'
  BY Consts DEF TypeOK, Close, NotBelow

-----------------------------------------------------------------------------
\* The first state satisfies the inductive invariant.
LEMMA IInvInit == Init => IInv
  <1> SUFFICES ASSUME Init PROVE IInv
    OBVIOUS
  <1>1. /\ pos \in [stop : Nat, vol : 1..Volume, profit : Int]
        /\ mem \in [peak : Nat, locked : BOOLEAN, floor : Nat, asked : BOOLEAN]
    BY Consts DEF Init, NoMemory, NoPosition
  <1>2. /\ price \in Prices /\ stop \in Nat /\ vol \in 0..Volume
        /\ step \in Steps /\ tick \in Prices
    BY Consts DEF Init, Steps
  <1>3. /\ risk \in Nat \cup {Unknown} /\ scaled \in BOOLEAN /\ done \in BOOLEAN
        /\ seen \in Nat \cup {None} /\ restarts \in 0..MaxRestarts
    <2>1. risk = Unknown /\ scaled = FALSE /\ done = FALSE /\ seen = None /\ restarts = 0
      BY DEF Init
    <2>2. 0 \in 0..MaxRestarts
      BY Consts
    <2> QED
      BY <2>1, <2>2
  <1>4. InPass /\ NotBelow
    <2>1. step = "idle" /\ seen = -1 /\ stop \in Nat
      BY Consts DEF Init, None
    <2> QED
      BY <2>1 DEF InPass, NotBelow
  <1> QED
    BY <1>1, <1>2, <1>3, <1>4 DEF IInv, TypeOK

LEMMA WorldStep ==
    ASSUME IInv,
           (\E p \in Prices : Move(p)) \/ (\E s \in HandStops : ModifyByHand(s))
               \/ CloseByHand \/ Restart
    PROVE  IInv'
  <1> USE Consts DEF IInv, pass, memory
  <1>1. ASSUME NEW p \in Prices, Move(p) PROVE IInv'
    BY <1>1 DEF Move, TypeOK, InPass, NotBelow
  <1>2. ASSUME NEW s \in HandStops, ModifyByHand(s) PROVE IInv'
    BY <1>2 DEF ModifyByHand, TypeOK, InPass, NotBelow, None
  <1>3. CASE CloseByHand
    BY <1>3 DEF CloseByHand, TypeOK, InPass, NotBelow
  <1>4. CASE Restart
    <2>1. /\ step' \in Steps /\ tick' \in Prices
          /\ pos' \in [stop : Nat, vol : 1..Volume, profit : Int] /\ InPass'
      BY <1>4, EndsOK DEF Restart
    <2>2. restarts' \in 0..MaxRestarts
      BY <1>4 DEF Restart, TypeOK
    <2>3. /\ mem' \in [peak : Nat, locked : BOOLEAN, floor : Nat, asked : BOOLEAN]
          /\ risk' \in Nat \cup {Unknown} /\ scaled' \in BOOLEAN /\ done' \in BOOLEAN
      BY <1>4 DEF Restart, NoMemory
    <2>4. NotBelow' /\ price' \in Prices /\ stop' \in Nat /\ vol' \in 0..Volume
          /\ seen' \in Nat \cup {None}
      BY <1>4 DEF Restart, broker, NotBelow, TypeOK
    <2> QED
      BY <2>1, <2>2, <2>3, <2>4 DEF TypeOK
  <1> QED
    BY <1>1, <1>2, <1>3, <1>4

LEMMA SnapshotStep ==
    ASSUME IInv, Tick \/ Read \/ ReadNone
    PROVE  IInv'
  <1> USE Consts DEF IInv
  <1>1. CASE Tick
    BY <1>1 DEF Tick, TypeOK, InPass, NotBelow, Steps, broker, memory
  <1>2. CASE Read
    <2> DEFINE profit == vol * (price - Open)
    <2>1. vol \in 1..Volume /\ price - Open \in Int /\ vol \in Nat
      BY <1>2 DEF Read, TypeOK
    <2>2. profit \in Int
      BY <2>1, MulInt
    <2>3. pos' = [stop |-> stop, vol |-> vol, profit |-> profit]
      BY <1>2 DEF Read
    <2>4. pos' \in [stop : Nat, vol : 1..Volume, profit : Int]
      BY <2>1, <2>2, <2>3 DEF TypeOK
    <2>5. Peak(profit) \in Nat
      BY <2>2, PeakNat
    <2>6. mem' = [peak |-> Peak(profit), floor |-> Even, locked |-> mem.locked \/ stop >= Even,
                     asked |-> mem.asked]
      BY <1>2 DEF Read
    <2>7. mem' \in [peak : Nat, locked : BOOLEAN, floor : Nat, asked : BOOLEAN]
      <3>1. Even \in Nat
        BY DEF Even
      <3>2. (mem.locked \/ stop >= Even) \in BOOLEAN /\ mem.asked \in BOOLEAN
        BY DEF TypeOK
      <3> QED
        BY <2>5, <2>6, <3>1, <3>2
    <2>8. risk' \in Nat \cup {Unknown}
      BY <1>2, RiskNat DEF Read, TypeOK
    <2>9. seen' = stop /\ stop' = stop /\ price' = price /\ vol' = vol
          /\ step' = "giveback" /\ tick' = tick /\ scaled' = scaled /\ restarts' = restarts
          /\ done' \in BOOLEAN
      BY <1>2 DEF Read, broker, TypeOK
    <2> QED
      BY <2>3, <2>4, <2>7, <2>8, <2>9 DEF TypeOK, InPass, NotBelow, Steps
  <1>3. CASE ReadNone
    BY <1>3, EndsOK DEF ReadNone, TypeOK, NotBelow, broker
  <1> QED
    BY <1>1, <1>2, <1>3

LEMMA GivebackStep ==
    ASSUME IInv,
           Skips \/ KeepsProfit
               \/ (\E ok \in BOOLEAN : GivebackCloses(ok) \/ GivebackSpares(ok))
    PROVE  IInv'
  <1> USE DEF IInv
  <1>1. CASE KeepsProfit
    <2>1. To("lock") /\ step = "giveback" /\ UNCHANGED <<broker, memory, seen, restarts>>
      BY <1>1 DEF KeepsProfit
    <2> QED
      BY <2>1, ToOK DEF TypeOK, NotBelow, broker, memory
  <1>2. ASSUME NEW ok \in BOOLEAN, GivebackCloses(ok) PROVE IInv'
    <2>1. /\ Close(ok) /\ Ends /\ UNCHANGED <<risk, scaled, done, seen, restarts>>
          /\ mem' = [mem EXCEPT !.asked = ok]
      BY <1>2 DEF GivebackCloses
    <2>2. mem' \in [peak : Nat, locked : BOOLEAN, floor : Nat, asked : BOOLEAN]
      BY <2>1 DEF TypeOK
    <2> QED
      BY <2>1, <2>2, EndsOK, CloseOK DEF TypeOK
  <1>0. CASE Skips
    BY <1>0, EndsOK DEF Skips, TypeOK, NotBelow, broker, memory
  <1>3. ASSUME NEW ok \in BOOLEAN, GivebackSpares(ok) PROVE IInv'
    <2> DEFINE target == Open + (85 * pos.profit) \div (100 * pos.vol)
    <2>1. Ends /\ UNCHANGED <<memory, seen, restarts>> /\ step = "giveback"
      BY <1>3 DEF GivebackSpares
    <2>2. target \in Int
      <3>1. 85 * pos.profit \in Int /\ 100 * pos.vol \in Nat \ {0}
        BY Consts DEF TypeOK
      <3> QED
        BY <3>1, DivInt, Consts
    <2>3. stop' \in Nat /\ price' \in Prices /\ vol' \in 0..Volume /\ NotBelow'
      <3>1. CASE UNCHANGED broker
        BY <2>1, <3>1 DEF broker, TypeOK, NotBelow
      <3>2. CASE Improves(target) /\ Modify(target, ok)
        BY <2>1, <2>2, <3>2, WritesPast DEF Improves
      <3> QED
        BY <1>3, <3>1, <3>2 DEF GivebackSpares
    <2> QED
      BY <2>1, <2>3, EndsOK DEF TypeOK, memory
  <1> QED
    BY <1>0, <1>1, <1>2, <1>3

LEMMA LockStep ==
    ASSUME IInv, LockWaits \/ (\E k \in Triggers, ok \in BOOLEAN : LockSent(k, ok))
    PROVE  IInv'
  <1> USE DEF IInv
  <1>1. CASE LockWaits
    <2>1. To("mfe") /\ step = "lock" /\ UNCHANGED <<broker, memory, seen, restarts>>
      BY <1>1 DEF LockWaits
    <2> QED
      BY <2>1, ToOK DEF TypeOK, NotBelow, broker, memory
  <1>2. ASSUME NEW k \in Triggers, NEW ok \in BOOLEAN, LockSent(k, ok) PROVE IInv'
    <2> DEFINE target == IF Planned(k) >= tick - LockGap THEN tick - LockGap ELSE Planned(k)
    <2>1. /\ step = "lock" /\ Due(k) /\ Planned(k) > pos.stop
          /\ target = Planned(k) \/ target > Open
          /\ Modify(target, ok)
          /\ mem' = [mem EXCEPT !.floor = Planned(k), !.locked = ok]
          /\ To("mfe") /\ UNCHANGED <<risk, scaled, done, seen, restarts>>
      BY <1>2 DEF LockSent
    <2>2. Planned(k) \in Nat
      BY <2>1, PlannedNat, Consts
    <2>3. target \in Int
      BY <2>2, Consts DEF TypeOK
    <2>4. stop' \in Nat /\ price' \in Prices /\ vol' \in 0..Volume /\ NotBelow'
      BY <2>1, <2>3, WritesPast
    <2>5. mem' \in [peak : Nat, locked : BOOLEAN, floor : Nat, asked : BOOLEAN]
      BY <2>1, <2>2 DEF TypeOK
    <2> QED
      BY <2>1, <2>4, <2>5, ToOK DEF TypeOK
  <1> QED
    BY <1>1, <1>2

LEMMA MfeStep ==
    ASSUME IInv, MfeWaits \/ (\E ok \in BOOLEAN : MfeSent(ok))
    PROVE  IInv'
  <1> USE DEF IInv
  <1>1. CASE MfeWaits
    <2>1. To("act") /\ step = "mfe" /\ UNCHANGED <<broker, memory, seen, restarts>>
      BY <1>1 DEF MfeWaits
    <2> QED
      BY <2>1, ToOK DEF TypeOK, NotBelow, broker, memory
  <1>2. ASSUME NEW ok \in BOOLEAN, MfeSent(ok) PROVE IInv'
    <2>1. /\ step = "mfe" /\ BestLock > pos.stop /\ Modify(BestLock, ok)
          /\ To("act") /\ UNCHANGED <<memory, seen, restarts>>
      BY <1>2 DEF MfeSent, Improves
    <2>2. stop' \in Nat /\ price' \in Prices /\ vol' \in 0..Volume /\ NotBelow'
      BY <2>1, BestLockInt, WritesPast
    <2> QED
      BY <2>1, <2>2, ToOK DEF TypeOK, memory
  <1> QED
    BY <1>1, <1>2

\* Every stop the decision may send is a number past the snapshot's.
LEMMA TargetsPast ==
    ASSUME TypeOK, NEW t,
           (t \in Targets /\ Improves(t)) \/ t \in RouterTargets
    PROVE  t \in Int /\ t > pos.stop
  <1>1. BestLock \in Int /\ tick \in Nat /\ Highest(Gap, Trail) \in Nat
    BY BestLockInt, Consts DEF TypeOK, Highest
  <1>2. t \in Int
    BY <1>1, Consts DEF Targets, RouterTargets
  <1>3. t > pos.stop
    BY DEF Targets, RouterTargets, Improves
  <1> QED
    BY <1>2, <1>3

LEMMA ActStep ==
    ASSUME IInv,
           ActHolds \/ ActScalesOut
               \/ (\E ok \in BOOLEAN : ActCloses(ok)) \/ (\E ok \in BOOLEAN : ActModifies(ok))
    PROVE  IInv'
  <1> USE DEF IInv
  <1>1. ASSUME NEW ok \in BOOLEAN, ActCloses(ok) PROVE IInv'
    <2>1. /\ Close(ok) /\ Ends /\ UNCHANGED <<mem, risk, scaled, seen, restarts>>
          /\ done' \in BOOLEAN
      BY <1>1 DEF ActCloses
    <2> QED
      BY <2>1, EndsOK, CloseOK DEF TypeOK
  <1>2. CASE ActHolds
    BY <1>2, EndsOK DEF ActHolds, TypeOK, NotBelow, broker, memory
  <1>3. ASSUME NEW ok \in BOOLEAN, ActModifies(ok) PROVE IInv'
    <2>1. step = "act" /\ Ends /\ UNCHANGED <<memory, seen, restarts>>
      BY <1>3 DEF ActModifies
    <2>2. PICK t : /\ (t \in Targets /\ Improves(t)) \/ t \in RouterTargets
                   /\ Modify(t, ok)
      BY <1>3 DEF ActModifies
    <2>3. stop' \in Nat /\ price' \in Prices /\ vol' \in 0..Volume /\ NotBelow'
      BY <2>1, <2>2, TargetsPast, WritesPast
    <2> QED
      BY <2>1, <2>3, EndsOK DEF TypeOK, memory
  <1>4. CASE ActScalesOut
    <2>1. PICK half \in {pos.vol \div 2, (pos.vol + 1) \div 2} :
            LET once  == Less(vol, half)
                twice == Less(once, half)
            IN  /\ Ends /\ UNCHANGED <<price, stop, mem, risk, done, seen, restarts>>
                /\ vol' \in {vol, once, twice, Less(twice, half)} /\ scaled' \in BOOLEAN
      BY <1>4 DEF ActScalesOut
    <2>2. vol \in 0..Volume /\ half \in Nat
      <3>1. pos.vol \in Nat /\ pos.vol + 1 \in Nat
        BY Consts DEF TypeOK
      <3> QED
        BY <3>1, <2>1, DivNat DEF TypeOK
    <2>3. \A v \in 0..Volume : Less(v, half) \in 0..Volume
      BY <2>2, Consts DEF Less
    <2>4. vol' \in 0..Volume /\ scaled' \in BOOLEAN
      BY <2>1, <2>2, <2>3
    <2> QED
      BY <2>1, <2>4, EndsOK DEF TypeOK, NotBelow
  <1> QED
    BY <1>1, <1>2, <1>3, <1>4

\* Every step keeps it.
LEMMA IInvStep == IInv /\ [Next]_vars => IInv'
  <1> SUFFICES ASSUME IInv, [Next]_vars PROVE IInv'
    OBVIOUS
  <1>1. CASE UNCHANGED vars
    BY <1>1 DEF vars, broker, pass, memory, IInv, TypeOK, InPass, NotBelow
  <1>2. CASE Next
    BY <1>2, WorldStep, SnapshotStep, GivebackStep, LockStep, MfeStep, ActStep DEF Next
  <1> QED
    BY <1>1, <1>2

\* Every state is of the declared types: no chain of legal calls makes the peak or a
\* stop negative, or the open volume more than was opened.
THEOREM TypeCorrect == Spec => []TypeOK
  <1>1. IInv => TypeOK
    BY DEF IInv
  <1> QED
    BY <1>1, IInvInit, IInvStep, PTL DEF Spec

\* From one snapshot to the next the position has not become riskier by the engine's
\* doing.
THEOREM RiskIsBounded == Spec => RiskNeverGrows
  <1>1. IInv /\ [Next]_vars => [Read => pos'.stop >= seen \/ pos'.stop > Open]_vars
    <2> SUFFICES ASSUME IInv, Read PROVE pos'.stop >= seen \/ pos'.stop > Open
      OBVIOUS
    <2>1. pos'.stop = stop
      BY DEF Read
    <2> QED
      BY <2>1 DEF IInv, NotBelow
  <1> QED
    BY <1>1, IInvInit, IInvStep, PTL DEF Spec, RiskNeverGrows

-----------------------------------------------------------------------------
(* What the break-even flag does guarantee *)

\* The operator never sets a stop at or behind the one the position opened with.
HandTightens == \A s \in HandStops : s > FirstStop

InChain == step \in {"giveback", "lock", "mfe", "act"}

\* The flag says less than its comment (LockMeansEven fails): not that the stop is
\* above the entry, but that a stop past the first one is at the broker.
FlagMeansMoved == mem.locked => stop > FirstStop

MovedInv ==
    /\ stop >= FirstStop
    /\ InChain => pos.stop >= FirstStop
    /\ FlagMeansMoved

\* Whatever a link of the chain writes is past the first stop.
LEMMA WritesMove ==
    ASSUME TypeOK, MovedInv, InChain, NEW t \in Int, NEW ok, Modify(t, ok),
           t > pos.stop \/ t > Open
    PROVE  /\ stop' >= FirstStop
           /\ stop > FirstStop => stop' > FirstStop
           /\ ok => stop' > FirstStop
  <1>1. t > FirstStop
    BY Consts DEF MovedInv, TypeOK, InChain
  <1>2. stop' \in {t, stop} /\ (ok => stop' = t)
    BY DEF Modify
  <1> QED
    BY <1>1, <1>2, Consts DEF MovedInv, TypeOK

\* A step that writes no stop, and reads none, keeps what is known of it.
LEMMA MovedFrame ==
    ASSUME MovedInv, stop' = stop, mem'.locked => mem.locked,
           InChain' => InChain /\ pos' = pos
    PROVE  MovedInv'
  BY DEF MovedInv, FlagMeansMoved

LEMMA MovedStep ==
    ASSUME HandTightens, TypeOK, MovedInv, [Next]_vars
    PROVE  MovedInv'
  <1> USE DEF broker, pass, memory
  <1>1. CASE (\E p \in Prices : Move(p)) \/ CloseByHand \/ UNCHANGED vars
    BY <1>1, MovedFrame DEF Move, CloseByHand, vars, InChain
  <1>2. ASSUME NEW s \in HandStops, ModifyByHand(s) PROVE MovedInv'
    <2>1. s > FirstStop
      BY DEF HandTightens
    <2> QED
      BY <1>2, <2>1, Consts DEF ModifyByHand, MovedInv, InChain, FlagMeansMoved
  <1>3. CASE Tick \/ ReadNone \/ Skips \/ ActHolds \/ ActScalesOut
    BY <1>3, MovedFrame DEF Tick, ReadNone, Skips, ActHolds, ActScalesOut, Ends, InChain
  <1>11. ASSUME NEW ok \in BOOLEAN, GivebackCloses(ok) \/ ActCloses(ok) PROVE MovedInv'
    <2>1. stop' = stop /\ mem'.locked = mem.locked /\ Ends
      BY <1>11 DEF GivebackCloses, ActCloses, Close, TypeOK
    <2> QED
      BY <2>1, MovedFrame DEF Ends, InChain
  <1>4. CASE KeepsProfit \/ LockWaits \/ MfeWaits
    BY <1>4, MovedFrame DEF KeepsProfit, LockWaits, MfeWaits, To, InChain
  <1>5. CASE Restart
    BY <1>5, MovedFrame DEF Restart, Ends, InChain, NoMemory
  <1>6. CASE Read
    <2>1. stop' = stop /\ pos'.stop = stop /\ mem'.locked = (mem.locked \/ stop >= Even)
      BY <1>6 DEF Read
    <2>2. Even > FirstStop
      BY Consts DEF Even
    <2>3. mem'.locked => stop > FirstStop
      BY <2>1, <2>2, Consts DEF MovedInv, FlagMeansMoved, Even, TypeOK
    <2> QED
      BY <2>1, <2>3 DEF MovedInv, FlagMeansMoved
  <1>7. ASSUME NEW ok \in BOOLEAN, GivebackSpares(ok) PROVE MovedInv'
    <2> DEFINE target == Open + (85 * pos.profit) \div (100 * pos.vol)
    <2>1. Ends /\ mem' = mem /\ step = "giveback"
      BY <1>7 DEF GivebackSpares
    <2>2. target \in Int
      <3>1. 85 * pos.profit \in Int /\ 100 * pos.vol \in Nat \ {0}
        BY Consts DEF TypeOK
      <3> QED
        BY <3>1, DivInt, Consts
    <2>3. stop' >= FirstStop /\ (stop > FirstStop => stop' > FirstStop)
      <3>1. CASE UNCHANGED broker
        BY <3>1 DEF MovedInv
      <3>2. CASE Improves(target) /\ Modify(target, ok)
        BY <2>1, <2>2, <3>2, WritesMove DEF Improves, InChain
      <3> QED
        BY <1>7, <3>1, <3>2 DEF GivebackSpares
    <2> QED
      BY <2>1, <2>3 DEF Ends, MovedInv, FlagMeansMoved, InChain
  <1>8. ASSUME NEW k \in Triggers, NEW ok \in BOOLEAN, LockSent(k, ok) PROVE MovedInv'
    <2> DEFINE target == IF Planned(k) >= tick - LockGap THEN tick - LockGap ELSE Planned(k)
    <2>1. /\ step = "lock" /\ Due(k) /\ Planned(k) > pos.stop
          /\ target = Planned(k) \/ target > Open
          /\ Modify(target, ok)
          /\ mem' = [mem EXCEPT !.floor = Planned(k), !.locked = ok]
          /\ To("mfe")
      BY <1>8 DEF LockSent
    <2>2. Planned(k) \in Nat
      BY <2>1, PlannedNat, Consts
    <2>3. target \in Int
      BY <2>2, Consts DEF TypeOK
    <2>4. stop' >= FirstStop /\ (ok => stop' > FirstStop)
      BY <2>1, <2>3, WritesMove DEF InChain
    <2>5. mem'.locked = ok
      BY <2>1 DEF TypeOK
    <2> QED
      BY <2>1, <2>4, <2>5 DEF To, MovedInv, FlagMeansMoved, InChain
  <1>9. ASSUME NEW ok \in BOOLEAN, MfeSent(ok) PROVE MovedInv'
    <2>1. /\ step = "mfe" /\ BestLock > pos.stop /\ Modify(BestLock, ok)
          /\ To("act") /\ mem' = mem
      BY <1>9 DEF MfeSent, Improves
    <2>2. stop' >= FirstStop /\ (stop > FirstStop => stop' > FirstStop)
      BY <2>1, BestLockInt, WritesMove DEF InChain
    <2> QED
      BY <2>1, <2>2 DEF To, MovedInv, FlagMeansMoved, InChain
  <1>10. ASSUME NEW ok \in BOOLEAN, ActModifies(ok) PROVE MovedInv'
    <2>1. step = "act" /\ Ends /\ mem' = mem
      BY <1>10 DEF ActModifies
    <2>2. PICK t : /\ (t \in Targets /\ Improves(t)) \/ t \in RouterTargets
                   /\ Modify(t, ok)
      BY <1>10 DEF ActModifies
    <2>3. stop' >= FirstStop /\ (stop > FirstStop => stop' > FirstStop)
      BY <2>1, <2>2, TargetsPast, WritesMove DEF InChain
    <2> QED
      BY <2>1, <2>3 DEF Ends, MovedInv, FlagMeansMoved, InChain
  <1> QED
    BY <1>1, <1>2, <1>3, <1>4, <1>5, <1>6, <1>7, <1>8, <1>9, <1>10, <1>11 DEF Next

\* was_sl_modified is never set of a position that still runs on its first stop, or on
\* none: through stale snapshots, refused requests, lost answers and restarts, as long
\* as the operator only tightens.
THEOREM FlagIsEarned ==
    ASSUME HandTightens
    PROVE  Spec => []FlagMeansMoved
  <1>1. Init => MovedInv
    BY Consts DEF Init, MovedInv, InChain, FlagMeansMoved, NoMemory
  <1>2. IInv /\ MovedInv /\ [Next]_vars => MovedInv'
    BY MovedStep DEF IInv
  <1>3. MovedInv => FlagMeansMoved
    BY DEF MovedInv
  <1> QED
    BY <1>1, <1>2, <1>3, IInvInit, IInvStep, PTL DEF Spec
=============================================================================
