----------------------- MODULE OrderLifecycle_proofs -----------------------
(***************************************************************************)
(* Type correctness, an honest ledger, no entry beside managed positions   *)
(* and how far past the limit the book may run, for every value of the     *)
(* constants of OrderLifecycle.                                            *)
(*                                                                         *)
(* The argument.  Orders only move forward at the broker (OrderForward).   *)
(* With position queries that answer, the positions a pass reads were open *)
(* when it read them, so whatever the pass tracks and does not find there  *)
(* is closed (VanishedInv) until the sweep has recorded it; and what it    *)
(* found there is in the view, in the rebuilt one and in a repaired one,   *)
(* unless it has closed since (SeenInv).  An order the rebuilt view misses *)
(* filled between the two reads of that pass, and was the one pending      *)
(* order there was (DoubtInv): so an entry sees all but one of the live    *)
(* orders.                                                                 *)
(***************************************************************************)
EXTENDS OrderLifecycle, TLAPS, FiniteSetTheorems

\* The environment in which the ledger is honest.  A position query that fails
\* reads as an account without positions, and after a restart the deal of a partial
\* close passes for a close: outside it the ledger books trades that still run.
Sighted    == "positions" \notin Faults
Remembered == "partial" \notin Faults \/ MaxRestarts = 0

\* The refusal counter reaches the limit only by opening the circuit.
TypeInv == TypeOK /\ (~safe => failures < FailureLimit)

HasFilled(d) == order[d] \in {"position", "closed"}

FilledInv == \A d \in tracked \cup snap : HasFilled(d)

VanishedInv ==
    step \in {"rebuild", "reconcile", "repair", "missed", "sweep"} =>
        \A d \in tracked \ snap : order[d] = "closed"

\* In a process that was never restarted an opened trade is tracked until it closes,
\* so the deal of a partial close is never read as its end.
OpenedInv ==
    /\ "partial" \notin Faults => reduced = {}
    /\ MaxRestarts = 0 =>
         \A d \in Decision : ledger[d] = "OPENED" => d \in tracked \/ order[d] = "closed"

HonestInv == ClosedMeansClosed /\ FilledInv /\ VanishedInv /\ OpenedInv

\* The positions this pass found are still in the view, or have closed.
SeenInv ==
    /\ step \in {"reconcile", "repair", "missed", "sweep", "track", "decide"} =>
         \A d \in snap : order[d] = "position" => view[d] # "absent"
    /\ step = "repair" => \A d \in snap : order[d] = "position" => d \in reread
    /\ step \in {"track", "decide"} => tracked \subseteq snap

ManagedInv == FilledInv /\ SeenInv

-----------------------------------------------------------------------------
(* The broker's orders *)

LEMMA PassKeepsOrder ==
    ASSUME Pass
    PROVE  order' = order /\ reduced' = reduced
  BY DEF Pass, ListPendings, ReadPositions, Rebuild, Reconcile, Repair, MissedCloses,
         Sweep, Track, NoEntry, brokerVars

\* A sent entry is answered on the present book, or on one without some of
\* its pending orders.
LEMMA SendFacts ==
    ASSUME TypeInv, NEW d \in Decision, SendMarket(d) \/ SendPending(d)
    PROVE  \E o \in [Decision -> {"none", "pending", "position", "closed", "gone"}],
              placed \in {"pending", "position"} :
              /\ \A e \in Decision : o[e] = order[e] \/ (order[e] = "pending" /\ o[e] = "gone")
              /\ Passes(d) /\ order[d] = "none"
              /\ Answer(d, o, placed)
  <1>1. CASE SendMarket(d)
    BY <1>1 DEF SendMarket, Passes, TypeInv, TypeOK
  <1>2. CASE SendPending(d)
    <2>1. PICK K \in SUBSET Pendings :
             Answer(d, [e \in Decision |-> IF e \in Pendings \ K THEN "gone" ELSE order[e]],
                    "pending")
      BY <1>2 DEF SendPending
    <2> DEFINE o == [e \in Decision |-> IF e \in Pendings \ K THEN "gone" ELSE order[e]]
    <2>2. o \in [Decision -> {"none", "pending", "position", "closed", "gone"}]
      BY DEF TypeInv, TypeOK
    <2>3. \A e \in Decision : o[e] = order[e] \/ (order[e] = "pending" /\ o[e] = "gone")
      BY DEF Pendings
    <2>4. Passes(d) /\ order[d] = "none"
      BY <1>2 DEF SendPending, Passes
    <2> HIDE DEF o
    <2> QED
      BY <2>1, <2>2, <2>3, <2>4 DEF o
  <1> QED
    BY <1>1, <1>2

\* Orders only move forward, and one that was never placed is placed only by an
\* entry that passed the gates.
LEMMA OrderForward ==
    ASSUME TypeInv, [Next]_vars
    PROVE  /\ order' \in [Decision -> {"none", "pending", "position", "closed", "gone"}]
           /\ \A e \in Decision : /\ order[e] = "closed" => order'[e] = "closed"
                                  /\ HasFilled(e) => HasFilled(e)'
                                  /\ order'[e] = "none" => order[e] = "none"
                                  /\ order'[e] = "position" /\ order[e] # "position" =>
                                        order[e] \in {"none", "pending"}
  <1> USE DEF TypeInv, TypeOK, HasFilled
  <1>1. CASE Broker
    <2>1. PICK d \in Decision :
             Fill(d) \/ Close(d) \/ PartialClose(d) \/ Expire(d) \/ ManualClose(d)
      BY <1>1 DEF Broker
    <2> QED
      BY <2>1 DEF Fill, Close, PartialClose, Expire, ManualClose
  <1>2. CASE Pass
    BY <1>2, PassKeepsOrder
  <1>3. CASE Choice
    <2>1. PICK d \in Decision :
             CancelStale(d) \/ FallingKnife(d) \/ SendMarket(d) \/ SendPending(d)
      BY <1>3 DEF Choice
    <2>2. CASE CancelStale(d) \/ FallingKnife(d)
      BY <2>1, <2>2 DEF CancelStale, FallingKnife, CancelVerified
    <2>3. CASE SendMarket(d) \/ SendPending(d)
      <3>1. PICK o \in [Decision -> {"none", "pending", "position", "closed", "gone"}],
                 placed \in {"pending", "position"} :
               /\ \A e \in Decision :
                     o[e] = order[e] \/ (order[e] = "pending" /\ o[e] = "gone")
               /\ order[d] = "none"
               /\ Answer(d, o, placed)
        BY <2>1, <2>3, SendFacts
      <3>2. order' = o \/ order' = [o EXCEPT ![d] = placed]
        BY <3>1 DEF Answer
      <3> QED
        BY <3>1, <3>2
    <2> QED
      BY <2>1, <2>2, <2>3
  <1>4. CASE CadenceElapses \/ Restart
    BY <1>4 DEF CadenceElapses, Restart, brokerVars
  <1>5. CASE UNCHANGED vars
    BY <1>5 DEF vars, brokerVars
  <1> QED
    BY <1>1, <1>2, <1>3, <1>4, <1>5 DEF Next

-----------------------------------------------------------------------------
(* Types *)

LEMMA ViewOfType ==
    ASSUME NEW ps, NEW os
    PROVE  ViewOf(ps, os) \in [Decision -> {"absent", "PENDING", "POSITION"}]
  BY DEF ViewOf

LEMMA Limits ==
    0 \in 0..FailureLimit /\ 0 < FailureLimit /\ 0 \in 0..MaxRestarts
  BY ConstantsAssumption

LEMMA TypeInit == Init => TypeInv
  BY Limits DEF Init, TypeInv, TypeOK, Absent

LEMMA TypeStep == TypeInv /\ [Next]_vars => TypeInv'
  <1> SUFFICES ASSUME TypeInv, [Next]_vars
               PROVE  TypeInv'
    OBVIOUS
  <1> USE ConstantsAssumption DEF TypeInv, TypeOK
  <1>o. order' \in [Decision -> {"none", "pending", "position", "closed", "gone"}]
    BY OrderForward
  <1>1. CASE Broker
    <2>1. PICK d \in Decision :
             Fill(d) \/ Close(d) \/ PartialClose(d) \/ Expire(d) \/ ManualClose(d)
      BY <1>1 DEF Broker
    <2>2. /\ reduced' \subseteq Decision /\ aged' \subseteq Decision
          /\ view' \in [Decision -> {"absent", "PENDING", "POSITION"}]
      BY <2>1 DEF Fill, Close, PartialClose, Expire, ManualClose
    <2>3. UNCHANGED <<tracked, ledger, passVars, entryVars, due, restarts>>
      BY <2>1 DEF Fill, Close, PartialClose, Expire, ManualClose
    <2> QED
      BY <1>o, <2>2, <2>3 DEF passVars, entryVars
  <1>2. CASE Pass
    <2>1. \A ps \in PositionAnswers : ps \subseteq Decision
      BY DEF PositionAnswers, Positions
    <2>2. \A os \in PendingAnswers : os \subseteq Decision
      BY DEF PendingAnswers, Pendings
    <2>3. CASE ListPendings \/ ReadPositions \/ NoEntry
      BY <1>o, <2>1, <2>2, <2>3 DEF ListPendings, ReadPositions, NoEntry, brokerVars, entryVars
    <2>4. CASE Rebuild \/ Repair
      BY <1>o, <2>4, ViewOfType DEF Rebuild, Repair, brokerVars, entryVars
    <2>5. CASE Reconcile
      <3>1. reread' \subseteq Decision /\ step' \in {"repair", "missed"}
        BY <2>1, <2>5 DEF Reconcile
      <3> QED
        BY <1>o, <2>5, <3>1 DEF Reconcile, brokerVars, entryVars
    <2>6. CASE MissedCloses \/ Sweep \/ Track
      BY <1>o, <2>6 DEF MissedCloses, Sweep, Track, brokerVars, entryVars
    <2> QED
      BY <1>2, <2>3, <2>4, <2>5, <2>6 DEF Pass
  <1>3. CASE Choice
    <2>1. PICK d \in Decision :
             CancelStale(d) \/ FallingKnife(d) \/ SendMarket(d) \/ SendPending(d)
      BY <1>3 DEF Choice
    <2>2. CASE CancelStale(d) \/ FallingKnife(d)
      <3>1. CancelVerified(d) /\ listed' \subseteq Decision
        BY <2>2 DEF CancelStale, FallingKnife, passVars
      <3>2. view' \in [Decision -> {"absent", "PENDING", "POSITION"}]
        <4>1. view' = view \/ \E ps, os : view' = ViewOf(ps, os)
          BY <3>1 DEF CancelVerified
        <4> QED
          BY <4>1, ViewOfType
      <3> QED
        BY <1>o, <2>2, <3>1, <3>2 DEF CancelStale, FallingKnife, passVars, entryVars
    <2>3. CASE SendMarket(d) \/ SendPending(d)
      <3>1. PICK o, placed : Passes(d) /\ Answer(d, o, placed)
        BY <2>1, <2>3, SendFacts
      <3>2. ~safe
        BY <3>1 DEF Passes
      <3>3. /\ failures' \in 0..FailureLimit /\ safe' \in BOOLEAN
            /\ ~safe' => failures' < FailureLimit
        <4>1. \/ failures' = 0 /\ safe' = safe
              \/ failures' = failures + 1 /\ safe' = (failures + 1 >= FailureLimit)
          BY <3>1, Zenon DEF Answer
        <4>2. failures < FailureLimit /\ failures + 1 \in 0..FailureLimit
          BY <3>2
        <4>3. CASE failures' = 0 /\ safe' = safe
          BY <4>2, <4>3, Limits
        <4>4. CASE failures' = failures + 1 /\ safe' = (failures + 1 >= FailureLimit)
          <5>1. CASE failures + 1 >= FailureLimit
            BY <4>2, <4>4, <5>1
          <5>2. CASE ~(failures + 1 >= FailureLimit)
            BY <4>2, <4>4, <5>2
          <5> QED
            BY <5>1, <5>2
        <4> QED
          BY <4>1, <4>3, <4>4
      <3>4. /\ UNCHANGED <<reduced, aged, view, tracked, ledger, listed, reread, due, restarts>>
            /\ processed' = processed \cup {d} /\ step' = "list" /\ snap' = {}
        BY <3>1 DEF Answer
      <3> QED
        BY <1>o, <3>3, <3>4
    <2> QED
      BY <2>1, <2>2, <2>3
  <1>4. CASE CadenceElapses
    BY <1>o, <1>4 DEF CadenceElapses, brokerVars, passVars, entryVars
  <1>5. CASE Restart
    <2>1. view' \in [Decision -> {"absent", "PENDING", "POSITION"}]
      BY <1>5, ViewOfType DEF Restart, Absent
    <2>2. restarts' \in 0..MaxRestarts /\ failures' \in 0..FailureLimit
      BY <1>5 DEF Restart
    <2>3. /\ UNCHANGED <<reduced, ledger>>
          /\ tracked' = {} /\ processed' = {} /\ failures' = 0 /\ safe' = FALSE
          /\ step' = "list" /\ listed' = {} /\ snap' = {} /\ reread' = {} /\ due' = TRUE
      BY <1>5 DEF Restart, brokerVars
    <2>4. aged' \subseteq Decision
      <3>1. PICK A \in SUBSET Dealt : aged' = aged \cup A
        BY <1>5 DEF Restart
      <3> QED
        BY <3>1 DEF Dealt
    <2> QED
      BY <1>o, <2>1, <2>2, <2>3, <2>4, Limits
  <1>6. CASE UNCHANGED vars
    BY <1>o, <1>6 DEF vars, brokerVars, passVars, entryVars
  <1> QED
    BY <1>1, <1>2, <1>3, <1>4, <1>5, <1>6 DEF Next

LEMMA TypeInvariant == Spec => []TypeInv
  BY TypeInit, TypeStep, PTL DEF Spec

\* Every variable keeps its type, and the refusal counter stops at the limit
\* that opens the SAFE_MODE circuit.
THEOREM OrderTypeCorrect == Spec => []TypeOK
  <1>1. TypeInv => TypeOK
    BY DEF TypeInv
  <1> QED
    BY <1>1, TypeInvariant, PTL

-----------------------------------------------------------------------------
(* The ledger books no open position *)

LEMMA SightedAnswer ==
    ASSUME Sighted
    PROVE  PositionAnswers = {Positions}
  BY DEF Sighted, PositionAnswers, Fault

LEMMA HonestInit == Init => HonestInv
  BY DEF Init, HonestInv, ClosedMeansClosed, FilledInv, VanishedInv, OpenedInv

\* A step that leaves the engine's books alone: orders only move forward.
LEMMA BooksUntouched ==
    ASSUME TypeInv, HonestInv, [Next]_vars,
           UNCHANGED <<ledger, tracked, snap>>, reduced' = reduced \/ Fault("partial"),
           step' \in {"rebuild", "reconcile", "repair", "missed", "sweep"} =>
              step \in {"rebuild", "reconcile", "repair", "missed", "sweep"}
    PROVE  HonestInv'
  <1>1. \A e \in Decision : /\ order[e] = "closed" => order'[e] = "closed"
                            /\ HasFilled(e) => HasFilled(e)'
    BY OrderForward
  <1>2. tracked \subseteq Decision /\ snap \subseteq Decision
    BY DEF TypeInv, TypeOK
  <1>3. ClosedMeansClosed'
    BY <1>1 DEF HonestInv, ClosedMeansClosed
  <1>4. FilledInv'
    BY <1>1, <1>2 DEF HonestInv, FilledInv
  <1>5. VanishedInv'
    BY <1>1, <1>2 DEF HonestInv, VanishedInv
  <1>6. OpenedInv'
    BY <1>1 DEF HonestInv, OpenedInv, Fault
  <1> QED
    BY <1>3, <1>4, <1>5, <1>6 DEF HonestInv

LEMMA HonestStep ==
    ASSUME Sighted, Remembered, TypeInv, HonestInv, [Next]_vars
    PROVE  HonestInv'
  <1>t. tracked \subseteq Decision /\ snap \subseteq Decision
    BY DEF TypeInv, TypeOK
  <1>1. CASE Broker
    <2>1. PICK d \in Decision :
             Fill(d) \/ Close(d) \/ PartialClose(d) \/ Expire(d) \/ ManualClose(d)
      BY <1>1 DEF Broker
    <2>2. /\ UNCHANGED <<ledger, tracked, snap, step>>
          /\ reduced' = reduced \/ Fault("partial")
      BY <2>1 DEF Fill, Close, PartialClose, Expire, ManualClose, passVars
    <2> QED
      BY <2>2, BooksUntouched
  <1>2. CASE Pass
    <2>o. order' = order /\ reduced' = reduced
      BY <1>2, PassKeepsOrder
    <2>1. CASE ListPendings
      BY <2>1, <2>o, BooksUntouched DEF ListPendings
    <2>2. CASE ReadPositions
      <3>1. snap' = Positions /\ UNCHANGED <<ledger, tracked>>
        BY <2>2, SightedAnswer DEF ReadPositions
      <3>2. \A e \in snap' : HasFilled(e)
        BY <3>1 DEF Positions, HasFilled
      <3>3. \A e \in tracked \ snap' : order[e] = "closed"
        BY <1>t, <3>1 DEF HonestInv, FilledInv, HasFilled, Positions
      <3> QED
        BY <2>o, <3>1, <3>2, <3>3
           DEF HonestInv, ClosedMeansClosed, FilledInv, VanishedInv, OpenedInv, HasFilled
    <2>3. CASE Rebuild \/ Reconcile \/ Repair
      BY <2>3, <2>o, BooksUntouched DEF Rebuild, Reconcile, Repair
    <2>4. CASE MissedCloses
      <3>1. \A d \in ClosingDeals \ tracked : ledger[d] = "OPENED" => order[d] = "closed"
        BY DEF ClosingDeals, Dealt, HonestInv, OpenedInv, Remembered, TypeInv, TypeOK
      <3>2. \A d \in Decision : /\ ledger'[d] = "CLOSED" =>
                                    ledger[d] = "CLOSED" \/ order[d] = "closed"
                                /\ ledger'[d] = "OPENED" => ledger[d] = "OPENED"
        BY <2>4, <3>1 DEF MissedCloses
      <3>3. UNCHANGED <<tracked, snap>> /\ step = "missed"
        BY <2>4 DEF MissedCloses
      <3> QED
        BY <2>o, <3>2, <3>3
           DEF HonestInv, ClosedMeansClosed, FilledInv, VanishedInv, OpenedInv, HasFilled
    <2>5. CASE Sweep
      <3>1. \A d \in Dead : order[d] = "closed"
        BY <2>5 DEF Sweep, Dead, HonestInv, VanishedInv
      <3>2. \A d \in Decision : /\ ledger'[d] = "CLOSED" => ledger[d] = "CLOSED" \/ d \in Dead
                                /\ ledger'[d] = "OPENED" => ledger[d] = "OPENED"
        BY <2>5 DEF Sweep
      <3>3. tracked' = tracked \ Dead /\ snap' = snap /\ step' = "track"
        BY <2>5 DEF Sweep
      <3> QED
        BY <2>o, <3>1, <3>2, <3>3
           DEF HonestInv, ClosedMeansClosed, FilledInv, VanishedInv, OpenedInv, HasFilled
    <2>6. CASE Track
      <3>1. \A d \in Decision : /\ ledger'[d] = "CLOSED" => ledger[d] = "CLOSED"
                                /\ ledger'[d] = "OPENED" => ledger[d] = "OPENED" \/ d \in snap
        BY <2>6 DEF Track
      <3>2. tracked' = tracked \cup snap /\ snap' = snap /\ step' = "decide"
        BY <2>6 DEF Track
      <3> QED
        BY <2>o, <3>1, <3>2
           DEF HonestInv, ClosedMeansClosed, FilledInv, VanishedInv, OpenedInv, HasFilled
    <2>7. CASE NoEntry
      BY <2>7, <2>o DEF NoEntry, HonestInv, ClosedMeansClosed, FilledInv, VanishedInv,
                        OpenedInv, HasFilled
    <2> QED
      BY <1>2, <2>1, <2>2, <2>3, <2>4, <2>5, <2>6, <2>7 DEF Pass
  <1>3. CASE Choice
    <2>1. PICK d \in Decision :
             CancelStale(d) \/ FallingKnife(d) \/ SendMarket(d) \/ SendPending(d)
      BY <1>3 DEF Choice
    <2>2. CASE CancelStale(d) \/ FallingKnife(d)
      BY <2>2, BooksUntouched DEF CancelStale, FallingKnife, passVars
    <2>3. CASE SendMarket(d) \/ SendPending(d)
      <3>1. PICK o, placed : Answer(d, o, placed)
        BY <2>3, SendFacts
      <3>2. UNCHANGED <<reduced, ledger, tracked>> /\ snap' = {} /\ step' = "list"
        BY <3>1 DEF Answer
      <3>3. \A e \in Decision : /\ order[e] = "closed" => order'[e] = "closed"
                                /\ HasFilled(e) => HasFilled(e)'
        BY OrderForward
      <3> QED
        BY <1>t, <3>2, <3>3
           DEF HonestInv, ClosedMeansClosed, FilledInv, VanishedInv, OpenedInv
    <2> QED
      BY <2>1, <2>2, <2>3
  <1>4. CASE CadenceElapses
    BY <1>4, BooksUntouched DEF CadenceElapses, brokerVars, passVars
  <1>5. CASE Restart
    <2>1. MaxRestarts # 0
      BY <1>5, ConstantsAssumption DEF Restart, TypeInv, TypeOK
    <2> QED
      BY <1>5, <2>1
         DEF Restart, brokerVars, HonestInv, ClosedMeansClosed, FilledInv, VanishedInv, OpenedInv
  <1>6. CASE UNCHANGED vars
    BY <1>6, BooksUntouched DEF vars, brokerVars, passVars
  <1> QED
    BY <1>1, <1>2, <1>3, <1>4, <1>5, <1>6 DEF Next

\* While position queries answer, a ledger row says CLOSED only of a position the
\* broker has closed, through failed cancels, lost replies and blind pending queries,
\* and through any number of restarts if no position is partly closed.
THEOREM LedgerIsHonest ==
    ASSUME Sighted, Remembered
    PROVE  Spec => []ClosedMeansClosed
  <1>1. TypeInv /\ HonestInv /\ [Next]_vars => HonestInv'
    BY HonestStep
  <1>2. HonestInv => ClosedMeansClosed
    BY DEF HonestInv
  <1> QED
    BY <1>1, <1>2, HonestInit, TypeInvariant, PTL DEF Spec

-----------------------------------------------------------------------------
(* No entry beside managed positions *)

LEMMA ManagedInit == Init => ManagedInv
  BY DEF Init, ManagedInv, FilledInv, SeenInv

\* A ticket found open is open still, or has closed.
LEMMA StillOpen ==
    ASSUME TypeInv, ManagedInv, [Next]_vars
    PROVE  /\ \A d \in snap : order'[d] = "position" => order[d] = "position"
           /\ \A d \in tracked \cup snap : HasFilled(d)'
  <1>1. tracked \cup snap \subseteq Decision
    BY DEF TypeInv, TypeOK
  <1> QED
    BY <1>1, OrderForward DEF ManagedInv, FilledInv, HasFilled

\* A step that moves neither the pass nor the view.
LEMMA PassUntouched ==
    ASSUME TypeInv, ManagedInv, [Next]_vars,
           UNCHANGED <<tracked, snap, reread, step>>,
           \A d \in snap : order'[d] = "position" => view'[d] = view[d]
    PROVE  ManagedInv'
  BY StillOpen DEF ManagedInv, FilledInv, SeenInv

LEMMA ViewShows ==
    ASSUME NEW ps, NEW os, NEW d \in Decision, d \in ps
    PROVE  ViewOf(ps, os)[d] # "absent"
  BY DEF ViewOf

LEMMA ManagedStep ==
    ASSUME Sighted, TypeInv, ManagedInv, [Next]_vars
    PROVE  ManagedInv'
  <1>t. tracked \subseteq Decision /\ snap \subseteq Decision
    BY DEF TypeInv, TypeOK
  <1>s. /\ \A d \in snap : order'[d] = "position" => order[d] = "position"
        /\ \A d \in tracked \cup snap : HasFilled(d)'
    BY StillOpen
  <1>1. CASE Broker
    <2>1. PICK d \in Decision :
             Fill(d) \/ Close(d) \/ PartialClose(d) \/ Expire(d) \/ ManualClose(d)
      BY <1>1 DEF Broker
    <2>2. CASE ManualClose(d)
      <3>1. \A e \in snap : order'[e] = "position" => view'[e] = view[e]
        BY <1>t, <2>2 DEF ManualClose, TypeInv, TypeOK
      <3> QED
        BY <2>2, <3>1, PassUntouched DEF ManualClose, passVars
    <2>3. CASE Fill(d) \/ Close(d) \/ PartialClose(d) \/ Expire(d)
      BY <2>3, PassUntouched DEF Fill, Close, PartialClose, Expire, passVars
    <2> QED
      BY <2>1, <2>2, <2>3
  <1>2. CASE Pass
    <2>o. order' = order
      BY <1>2, PassKeepsOrder
    <2>1. CASE ListPendings
      BY <1>s, <2>1 DEF ListPendings, ManagedInv, FilledInv, SeenInv
    <2>2. CASE ReadPositions
      <3>1. snap' = Positions /\ tracked' = tracked /\ step' = "rebuild"
        BY <2>2, SightedAnswer DEF ReadPositions
      <3>2. \A d \in snap' : HasFilled(d)'
        BY <2>o, <3>1 DEF Positions, HasFilled
      <3> QED
        BY <1>s, <3>1, <3>2 DEF ManagedInv, FilledInv, SeenInv
    <2>3. CASE Rebuild
      <3>1. \A d \in snap : view'[d] # "absent"
        BY <1>t, <2>3, ViewShows DEF Rebuild
      <3> QED
        BY <1>s, <2>3, <3>1 DEF Rebuild, ManagedInv, FilledInv, SeenInv
    <2>4. CASE Reconcile
      <3>1. /\ step' \in {"repair", "missed"}
            /\ step' = "repair" => reread' = Positions
            /\ UNCHANGED <<tracked, snap, view>> /\ step = "reconcile"
        BY <2>4, SightedAnswer DEF Reconcile
      <3>2. \A d \in snap : order[d] = "position" => d \in Positions
        BY <1>t DEF Positions
      <3> QED
        BY <1>s, <2>o, <3>1, <3>2 DEF ManagedInv, FilledInv, SeenInv
    <2>5. CASE Repair
      <3>1. \A d \in snap : order[d] = "position" => view'[d] # "absent"
        BY <1>t, <2>5, ViewShows DEF Repair, ManagedInv, SeenInv
      <3> QED
        BY <1>s, <2>o, <2>5, <3>1 DEF Repair, ManagedInv, FilledInv, SeenInv
    <2>6. CASE MissedCloses
      BY <1>s, <2>o, <2>6 DEF MissedCloses, ManagedInv, FilledInv, SeenInv
    <2>7. CASE Sweep
      <3>1. \A d \in snap : view'[d] = view[d]
        BY <1>t, <2>7 DEF Sweep, Dead
      <3>2. tracked' \subseteq tracked \cap snap /\ snap' = snap /\ step' = "track"
        BY <2>7 DEF Sweep, Dead
      <3>3. step = "sweep"
        BY <2>7 DEF Sweep
      <3> QED
        BY <1>s, <2>o, <3>1, <3>2, <3>3 DEF ManagedInv, FilledInv, SeenInv
    <2>8. CASE Track
      BY <1>s, <2>o, <2>8 DEF Track, ManagedInv, FilledInv, SeenInv
    <2>9. CASE NoEntry
      BY <1>s, <2>9 DEF NoEntry, ManagedInv, FilledInv, SeenInv
    <2> QED
      BY <1>2, <2>1, <2>2, <2>3, <2>4, <2>5, <2>6, <2>7, <2>8, <2>9 DEF Pass
  <1>3. CASE Choice
    <2>1. PICK d \in Decision :
             CancelStale(d) \/ FallingKnife(d) \/ SendMarket(d) \/ SendPending(d)
      BY <1>3 DEF Choice
    <2>2. CASE CancelStale(d) \/ FallingKnife(d)
      BY <1>s, <2>2 DEF CancelStale, FallingKnife, passVars, ManagedInv, FilledInv, SeenInv
    <2>3. CASE SendMarket(d) \/ SendPending(d)
      <3>1. PICK o, placed : Answer(d, o, placed)
        BY <2>3, SendFacts
      <3> QED
        BY <1>s, <3>1 DEF Answer, ManagedInv, FilledInv, SeenInv
    <2> QED
      BY <2>1, <2>2, <2>3
  <1>4. CASE CadenceElapses
    BY <1>4, PassUntouched DEF CadenceElapses, passVars
  <1>5. CASE Restart
    BY <1>5 DEF Restart, ManagedInv, FilledInv, SeenInv
  <1>6. CASE UNCHANGED vars
    BY <1>6, PassUntouched DEF vars, passVars
  <1> QED
    BY <1>1, <1>2, <1>3, <1>4, <1>5, <1>6 DEF Next

\* When the gates let an entry through, the managed positions are all exposed.
LEMMA GatesSeeManaged ==
    ASSUME TypeInv, ManagedInv, NEW d \in Decision, Passes(d)
    PROVE  ~(Cardinality(tracked \cap Positions) >= MaxExposure)
  <1>1. tracked \cap Positions \in SUBSET Exposed
    BY DEF Passes, ManagedInv, SeenInv, Positions, Exposed
  <1>2. IsFiniteSet(Exposed)
    BY ConstantsAssumption, FS_Subset DEF Exposed
  <1>3. Cardinality(tracked \cap Positions) <= Cardinality(Exposed)
    BY <1>1, <1>2, FS_Subset
  <1>4. Cardinality(tracked \cap Positions) \in Nat /\ Cardinality(Exposed) \in Nat
    BY <1>1, <1>2, FS_Subset, FS_CardinalityType
  <1>5. Cardinality(Exposed) < MaxExposure
    BY DEF Passes
  <1> QED
    BY <1>3, <1>4, <1>5, ConstantsAssumption

\* Only an entry that passed the gates places an order.
LEMMA PlacedByEntry ==
    ASSUME TypeInv, Next, NEW e \in Decision, order[e] = "none", order'[e] # "none"
    PROVE  \E d \in Decision : Passes(d)
  <1>1. CASE Broker
    BY <1>1 DEF Broker, Fill, Close, PartialClose, Expire, ManualClose, TypeInv, TypeOK
  <1>2. CASE Pass
    BY <1>2, PassKeepsOrder
  <1>3. CASE Choice
    BY <1>3 DEF Choice, CancelStale, FallingKnife, CancelVerified, SendMarket, SendPending,
                TypeInv, TypeOK
  <1>4. CASE CadenceElapses \/ Restart
    BY <1>4 DEF CadenceElapses, Restart, brokerVars
  <1> QED
    BY <1>1, <1>2, <1>3, <1>4 DEF Next

\* While position queries answer, no entry reaches the broker beside as many
\* managed open positions as the engine may hold.
THEOREM NoEntryBesideManaged ==
    ASSUME Sighted
    PROVE  Spec => NeverBesideManaged
  <1>1. TypeInv /\ ManagedInv /\ [Next]_vars => ManagedInv'
    BY ManagedStep
  <1>2. TypeInv /\ ManagedInv /\ [Next]_vars => [~EntersBesideManaged]_vars
    <2> SUFFICES ASSUME TypeInv, ManagedInv, Next, EntersBesideManaged
                 PROVE  FALSE
      OBVIOUS
    <2> QED
      BY PlacedByEntry, GatesSeeManaged DEF EntersBesideManaged
  <1> QED
    BY <1>1, <1>2, ManagedInit, TypeInvariant, PTL DEF Spec, NeverBesideManaged

-----------------------------------------------------------------------------
(* One order beyond the limit *)

\* The environment in which one order is the most the view can miss.  A refused
\* cancel leaves a second pending order behind only if a pending order may be
\* beside an entry at all, which a limit of one excludes; with a higher limit two
\* orders can fill between the two reads of one rebuild.
Answering  == "pendings" \notin Faults
OneInDoubt == MaxExposure = 1 \/ "cancel" \notin Faults

AtMostOne(S) == \A d, e \in S : d = e

Deciding == step \in {"reconcile", "repair", "missed", "sweep", "track", "decide"}

\* At most one order is pending; at most one live order was not found by this
\* pass; and the view shows what is pending.
DoubtInv ==
    /\ AtMostOne(Pendings)
    /\ step = "rebuild" \/ Deciding => AtMostOne(Live \ snap)
    /\ Deciding => \A d \in Pendings : view[d] # "absent"

BoundedInv == DoubtInv /\ OvershootByOne

LEMMA OneMore ==
    ASSUME NEW S, NEW E, IsFiniteSet(E), AtMostOne(S \ E)
    PROVE  IsFiniteSet(S) /\ Cardinality(S) <= Cardinality(E) + 1
  <1>1. PICK x : S \ E \subseteq {x}
    <2>1. CASE S \ E = {}
      BY <2>1
    <2>2. CASE S \ E # {}
      <3>1. PICK y : y \in S \ E
        BY <2>2
      <3>2. \A z \in S \ E : z = y
        BY <3>1 DEF AtMostOne
      <3>3. S \ E \subseteq {y}
        BY <3>2
      <3> QED
        BY <3>3
    <2> QED
      BY <2>1, <2>2
  <1>2. S \subseteq E \cup {x}
    BY <1>1
  <1>3. IsFiniteSet(E \cup {x}) /\ Cardinality(E \cup {x}) <= Cardinality(E) + 1
    <2>1. Cardinality(E) \in Nat
      BY FS_CardinalityType
    <2> QED
      BY <2>1, FS_AddElement
  <1>4. IsFiniteSet(S) /\ Cardinality(S) <= Cardinality(E \cup {x})
    BY <1>2, <1>3, FS_Subset
  <1> QED
    BY <1>3, <1>4, FS_CardinalityType

LEMMA FiniteDecisions ==
    ASSUME NEW S \in SUBSET Decision
    PROVE  IsFiniteSet(S) /\ Cardinality(S) \in Nat
  BY ConstantsAssumption, FS_Subset, FS_CardinalityType

Enters(d) == SendMarket(d) \/ SendPending(d)

\* Only an entry adds an order to the broker's book.
LEMMA NothingNew ==
    ASSUME TypeInv, [Next]_vars, \A d \in Decision : ~Enters(d)
    PROVE  Live' \subseteq Live /\ Pendings' \subseteq Pendings
  <1> USE DEF Live, Positions, Pendings, TypeInv, TypeOK
  <1>1. CASE Broker
    BY <1>1 DEF Broker, Fill, Close, PartialClose, Expire, ManualClose
  <1>2. CASE Pass
    BY <1>2, PassKeepsOrder
  <1>3. CASE Choice
    BY <1>3 DEF Choice, Enters, CancelStale, FallingKnife, CancelVerified
  <1>4. CASE CadenceElapses \/ Restart \/ UNCHANGED vars
    BY <1>4 DEF CadenceElapses, Restart, vars, brokerVars
  <1> QED
    BY <1>1, <1>2, <1>3, <1>4 DEF Next

\* When the gates let an entry through, the view misses at most one order.
LEMMA GatesMissOne ==
    ASSUME TypeInv, ManagedInv, DoubtInv, NEW d \in Decision, Passes(d)
    PROVE  Cardinality(Live) <= MaxExposure
  <1>1. \A e \in Live : e \in snap => e \in Exposed
    BY DEF Passes, ManagedInv, FilledInv, SeenInv, HasFilled, Live, Positions, Pendings, Exposed
  <1>2. AtMostOne(Live \ Exposed)
    BY <1>1 DEF Passes, DoubtInv, Deciding, AtMostOne
  <1>3. IsFiniteSet(Exposed) /\ Cardinality(Exposed) \in Nat
    BY FiniteDecisions DEF Exposed
  <1>4. Cardinality(Live) <= Cardinality(Exposed) + 1
    BY <1>2, <1>3, OneMore
  <1>5. Cardinality(Live) \in Nat
    BY FiniteDecisions DEF Live, Positions, Pendings
  <1>6. Cardinality(Exposed) < MaxExposure
    BY DEF Passes
  <1> QED
    BY <1>3, <1>4, <1>5, <1>6, ConstantsAssumption

\* An entry leaves at most its own order pending.
LEMMA EntryLeavesOne ==
    ASSUME Answering, OneInDoubt, TypeInv, DoubtInv, NEW d \in Decision, Enters(d)
    PROVE  AtMostOne(Pendings') /\ AtMostOne(Live' \ Live) /\ step' = "list"
  <1> USE DEF TypeInv, TypeOK
  <1>1. Passes(d) /\ order[d] = "none"
    BY DEF Enters, SendMarket, SendPending, Passes
  <1>2. CASE SendMarket(d)
    BY <1>1, <1>2 DEF SendMarket, Answer, DoubtInv, AtMostOne, Live, Positions, Pendings
  <1>3. CASE SendPending(d)
    <2>1. PICK K \in SUBSET Pendings :
            /\ K = {} \/ Fault("cancel") \/ Fault("pendings")
            /\ Answer(d, [e \in Decision |-> IF e \in Pendings \ K THEN "gone" ELSE order[e]],
                      "pending")
      BY <1>3 DEF SendPending
    <2> DEFINE o == [e \in Decision |-> IF e \in Pendings \ K THEN "gone" ELSE order[e]]
    <2>2. K = {}
      <3>1. CASE "cancel" \notin Faults
        BY <2>1, <3>1 DEF Answering, Fault
      <3>2. CASE MaxExposure = 1
        <4>1. IsFiniteSet(Exposed) /\ Cardinality(Exposed) \in Nat
          BY FiniteDecisions DEF Exposed
        <4>2. Cardinality(Exposed) = 0
          BY <1>1, <3>2, <4>1 DEF Passes
        <4>3. Exposed = {}
          BY <4>1, <4>2, FS_EmptySet
        <4>4. Pendings = {}
          BY <1>1, <4>3 DEF Passes, DoubtInv, Deciding, Exposed, Pendings
        <4> QED
          BY <4>4
      <3> QED
        BY <3>1, <3>2 DEF OneInDoubt
    <2>3. /\ o \in [Decision -> {"none", "pending", "position", "closed", "gone"}]
          /\ \A e \in Decision : o[e] # "pending" /\ (o[e] = order[e] \/ o[e] = "gone")
      BY <2>2 DEF Pendings
    <2> HIDE DEF o
    <2>4. (order' = o \/ order' = [o EXCEPT ![d] = "pending"]) /\ step' = "list"
      BY <2>1 DEF Answer, o
    <2>5. \A e \in Decision : e # d => order'[e] # "pending" /\ (order'[e] = order[e] \/ order'[e] = "gone")
      BY <2>3, <2>4
    <2> QED
      BY <2>4, <2>5 DEF AtMostOne, Live, Positions, Pendings
  <1> QED
    BY <1>2, <1>3 DEF Enters

\* What is left to show of a step that is not an entry: this pass's positions
\* and the view.
LEMMA DoubtFrame ==
    ASSUME TypeInv, BoundedInv, [Next]_vars, \A d \in Decision : ~Enters(d),
           step' = "rebuild" \/ Deciding' => AtMostOne(Live' \ snap'),
           Deciding' => \A d \in Pendings' : view'[d] # "absent"
    PROVE  BoundedInv'
  <1>1. Live' \subseteq Live /\ Pendings' \subseteq Pendings
    BY NothingNew
  <1>2. AtMostOne(Pendings')
    BY <1>1 DEF BoundedInv, DoubtInv, AtMostOne
  <1>3. IsFiniteSet(Live) /\ Cardinality(Live) \in Nat
    BY FiniteDecisions DEF Live, Positions, Pendings
  <1>4. Cardinality(Live') <= Cardinality(Live) /\ Cardinality(Live') \in Nat
    BY <1>1, <1>3, FS_Subset, FS_CardinalityType
  <1>5. OvershootByOne'
    BY <1>3, <1>4, ConstantsAssumption DEF BoundedInv, OvershootByOne
  <1> QED
    BY <1>2, <1>5 DEF BoundedInv, DoubtInv, Deciding, AtMostOne

\* The positions of this pass stay, and so does the view of what is pending.
LEMMA DoubtUntouched ==
    ASSUME TypeInv, BoundedInv, [Next]_vars, \A d \in Decision : ~Enters(d),
           snap' = snap, step' = "rebuild" \/ Deciding' => step = "rebuild" \/ Deciding,
           Deciding' => Deciding /\ \A d \in Pendings' : view'[d] = view[d]
    PROVE  BoundedInv'
  <1>1. Live' \subseteq Live /\ Pendings' \subseteq Pendings
    BY NothingNew
  <1>2. step' = "rebuild" \/ Deciding' => AtMostOne(Live' \ snap')
    BY <1>1 DEF BoundedInv, DoubtInv, AtMostOne
  <1>3. Deciding' => \A d \in Pendings' : view'[d] # "absent"
    BY <1>1 DEF BoundedInv, DoubtInv
  <1> QED
    BY <1>2, <1>3, DoubtFrame

LEMMA AnsweredPendings ==
    ASSUME Answering
    PROVE  PendingAnswers = {Pendings}
  BY DEF Answering, PendingAnswers, Fault

LEMMA PendingShows ==
    ASSUME NEW ps, NEW os, NEW d \in Decision, d \in os
    PROVE  ViewOf(ps, os)[d] # "absent"
  BY DEF ViewOf

LEMMA DoubtStep ==
    ASSUME Sighted, Answering, OneInDoubt, TypeInv, ManagedInv, BoundedInv, [Next]_vars
    PROVE  BoundedInv'
  <1>1. ASSUME NEW d \in Decision, Enters(d)
        PROVE  BoundedInv'
    <2>1. AtMostOne(Pendings') /\ AtMostOne(Live' \ Live) /\ step' = "list"
      BY <1>1, EntryLeavesOne DEF BoundedInv
    <2>2. Passes(d)
      BY <1>1 DEF Enters, SendMarket, SendPending
    <2>3. Cardinality(Live) <= MaxExposure
      BY <2>2, GatesMissOne DEF BoundedInv
    <2>4. IsFiniteSet(Live) /\ Cardinality(Live) \in Nat
      BY FiniteDecisions DEF Live, Positions, Pendings
    <2>5. IsFiniteSet(Live') /\ Cardinality(Live') <= Cardinality(Live) + 1
      BY <2>1, <2>4, OneMore
    <2>6. Cardinality(Live') \in Nat
      BY <2>5, FS_CardinalityType
    <2>7. OvershootByOne'
      BY <2>3, <2>4, <2>5, <2>6, ConstantsAssumption DEF OvershootByOne
    <2> QED
      BY <2>1, <2>7 DEF BoundedInv, DoubtInv, Deciding, AtMostOne
  <1>2. CASE \A d \in Decision : ~Enters(d)
    <2>p. Pendings' \subseteq Pendings /\ Pendings' \subseteq Decision
      BY <1>2, NothingNew DEF Pendings
    <2>1. CASE Broker
      <3>1. PICK d \in Decision :
               Fill(d) \/ Close(d) \/ PartialClose(d) \/ Expire(d) \/ ManualClose(d)
        BY <2>1 DEF Broker
      <3>2. \A e \in Pendings' : view'[e] = view[e]
        BY <3>1 DEF Fill, Close, PartialClose, Expire, ManualClose, Pendings, TypeInv, TypeOK
      <3>3. snap' = snap /\ step' = step
        BY <3>1 DEF Fill, Close, PartialClose, Expire, ManualClose, passVars
      <3> QED
        BY <1>2, <3>2, <3>3, DoubtUntouched DEF Deciding
    <2>2. CASE ListPendings \/ NoEntry
      <3>1. step' \in {"list", "manage"}
        BY <2>2 DEF ListPendings, NoEntry
      <3> QED
        BY <1>2, <3>1, DoubtFrame DEF Deciding
    <2>3. CASE ReadPositions
      <3>1. snap' = Positions /\ step' = "rebuild" /\ order' = order
        BY <2>3, SightedAnswer DEF ReadPositions, brokerVars
      <3>2. Live' \ snap' \subseteq Pendings
        BY <3>1 DEF Live, Positions, Pendings
      <3>3. AtMostOne(Live' \ snap')
        BY <3>2 DEF BoundedInv, DoubtInv, AtMostOne
      <3> QED
        BY <1>2, <3>1, <3>3, DoubtFrame DEF Deciding
    <2>4. CASE Rebuild \/ Repair
      <3>1. /\ \E ps : view' = ViewOf(ps, Pendings)
            /\ snap' = snap /\ step' \in {"reconcile", "missed"}
            /\ step \in {"rebuild", "repair"}
        BY <2>4, AnsweredPendings DEF Rebuild, Repair
      <3>2. \A d \in Pendings' : view'[d] # "absent"
        BY <2>p, <3>1, PendingShows
      <3>3. AtMostOne(Live' \ snap')
        BY <1>2, <3>1, NothingNew DEF BoundedInv, DoubtInv, Deciding, AtMostOne
      <3> QED
        BY <1>2, <3>2, <3>3, DoubtFrame
    <2>5. CASE Reconcile \/ MissedCloses \/ Track
      <3>1. view' = view /\ snap' = snap /\ step \in {"reconcile", "missed", "track"}
        BY <2>5 DEF Reconcile, MissedCloses, Track
      <3> QED
        BY <1>2, <3>1, DoubtUntouched DEF Deciding
    <2>6. CASE Sweep
      <3>1. \A e \in Dead : e \notin Pendings
        BY DEF Dead, ManagedInv, FilledInv, HasFilled, Pendings
      <3>2. \A e \in Pendings' : view'[e] = view[e]
        BY <2>6, <2>p, <3>1 DEF Sweep
      <3>3. snap' = snap /\ step = "sweep"
        BY <2>6 DEF Sweep
      <3> QED
        BY <1>2, <3>2, <3>3, DoubtUntouched DEF Deciding
    <2>7. ASSUME NEW d \in Decision, CancelStale(d) \/ FallingKnife(d)
          PROVE  BoundedInv'
      <3>1. snap' = snap /\ step' = step /\ step \in {"manage", "rebuild"}
        BY <2>7 DEF CancelStale, FallingKnife, passVars
      <3> QED
        BY <1>2, <3>1, DoubtUntouched DEF Deciding
    <2>8. CASE CadenceElapses \/ UNCHANGED vars
      <3>1. snap' = snap /\ step' = step /\ view' = view
        BY <2>8 DEF CadenceElapses, vars, passVars
      <3> QED
        BY <1>2, <3>1, DoubtUntouched DEF Deciding
    <2>9. CASE Restart
      <3>1. step' = "list"
        BY <2>9 DEF Restart
      <3> QED
        BY <1>2, <3>1, DoubtFrame DEF Deciding
    <2> QED
      BY <1>2, <2>1, <2>2, <2>3, <2>4, <2>5, <2>6, <2>7, <2>8, <2>9
         DEF Next, Pass, Choice, Enters
  <1> QED
    BY <1>1, <1>2

LEMMA BoundedInit == Init => BoundedInv
  <1> SUFFICES ASSUME Init PROVE BoundedInv
    OBVIOUS
  <1>1. Live = {} /\ Pendings = {}
    BY DEF Init, Live, Positions, Pendings
  <1>2. OvershootByOne
    BY <1>1, FS_EmptySet, ConstantsAssumption DEF OvershootByOne
  <1> QED
    BY <1>1, <1>2 DEF Init, BoundedInv, DoubtInv, Deciding, AtMostOne

\* While the broker's queries answer, the broker never holds more than one order
\* beyond the limit, whatever fills, closes and expires between any two calls,
\* through restarts, lost replies and - with the limit of one the code ships -
\* refused cancels.
THEOREM OneBeyondTheLimit ==
    ASSUME Sighted, Answering, OneInDoubt
    PROVE  Spec => []OvershootByOne
  <1>1. TypeInv /\ ManagedInv /\ [Next]_vars => ManagedInv'
    BY ManagedStep
  <1>2. TypeInv /\ ManagedInv /\ BoundedInv /\ [Next]_vars => BoundedInv'
    BY DoubtStep
  <1>3. BoundedInv => OvershootByOne
    BY DEF BoundedInv
  <1> QED
    BY <1>1, <1>2, <1>3, ManagedInit, BoundedInit, TypeInvariant, PTL DEF Spec
=============================================================================
