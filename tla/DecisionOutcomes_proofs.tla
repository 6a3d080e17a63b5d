---------------------- MODULE DecisionOutcomes_proofs ----------------------
(***************************************************************************)
(* Type correctness, and what the ledger of outcomes may be trusted with,  *)
(* for every value of the constants of DecisionOutcomes.                   *)
(*                                                                         *)
(* The argument.  An order is placed only for the decision in the gates,   *)
(* so a decision that left them unsent never has one (Refused), and orders *)
(* only move forward (OrderForward).  Whatever a pass tracked and does not *)
(* find among the positions it read has closed (VanishedInv), so the trade *)
(* outcomes it asks for, the queued ones and the written ones name closing *)
(* deals (TradeInv), and the closed row of each is ahead of it             *)
(* (BookedInv).  The sweep's evidence is about orders that are over and    *)
(* decisions that were refused, which both are for good (SweepInv).  The   *)
(* decision row is ahead of its rejection and of its outcome call          *)
(* (DecidedInv), so the call is not refused and a sweep that is due finds  *)
(* the decision if it has room; no refused one has a dispatch row          *)
(* (SentInv), so what the sweep finds classifies it (RefusedInv).          *)
(***************************************************************************)
EXTENDS DecisionOutcomes, TLAPS, FiniteSetTheorems

\* The candidate is a decision while it is in the gates, and not sent before them.
GateInv ==
    /\ step \in {"gate", "again"} => cand \in Decision
    /\ step = "gate" => stage[cand] = "proposed"
    /\ step = "again" => stage[cand] \in {"proposed", "sent"}

TypeInv == TypeOK /\ GateInv

\* No order before the decision is sent.
OrderInv == \A d \in Decision : stage[d] # "sent" => order[d] = "none"

\* A decision that has left the gates unsent.
Refused(d) == stage[d] = "proposed" /\ cand # d

HasFilled(d) == order[d] \in {"partial", "position", "reduced", "closed"}

VanishedInv ==
    /\ \A d \in tracked \cup snap : HasFilled(d)
    /\ step \in {"view", "compare", "missed", "settle"} =>
         \A d \in tracked \ snap : order[d] = "closed"

LiveTrade(o) == o # NoOutcome /\ o.kind = "trade" /\ o.by = "live"

\* Trades called for, queued and written name tickets with closing deals.
TradeInv ==
    /\ \A c \in calls : LiveTrade(c) => c.exec \in ClosingDeals
    /\ \A i \in 1..Len(queue) :
          queue[i].table = "outcomes" /\ LiveTrade(queue[i].outcome)
              => queue[i].outcome.exec \in ClosingDeals
    /\ LiveTradesClosing

\* The row of a closed ticket is in the ledger l, or one of the first n in the queue q.
BookedWithin(l, q, t, n) ==
    l[t] = "CLOSED" \/ \E j \in 1..n : q[j] = Row("closed", t)

BookedInv ==
    /\ \A c \in calls : LiveTrade(c) => BookedWithin(ledger, queue, c.exec, Len(queue))
    /\ \A i \in 1..Len(queue) :
          queue[i].table = "outcomes" /\ LiveTrade(queue[i].outcome)
              => BookedWithin(ledger, queue, queue[i].outcome.exec, i - 1)
    /\ BookedBeforeLearned

\* The sweep's verdict o of a decision, and its truth for good.
TrueVerdict(o) ==
    /\ o.kind = "trade" => order[o.d] = "closed"
    /\ o.kind \in {"canceled", "expired"} => order[o.d] = "gone"
    /\ o.kind \notin {"trade", "canceled", "expired"} => Refused(o.d)

\* The verdicts and the gate rejections in the queue q, and the verdicts written.
Verdicts(q) ==
    {q[i].outcome : i \in {j \in 1..Len(q) : q[j].table = "outcomes" /\ q[j].outcome.by = "sweep"}}
Rejections(q) == {q[i].d : i \in {j \in 1..Len(q) : q[j].table = "signals"}}
Written == {d \in Decision : outcomes[d] # NoOutcome /\ outcomes[d].by = "sweep"}

SweepInv ==
    /\ \A d \in signals \cup evident \cup Rejections(queue) : Refused(d)
    /\ \A d \in copy : order[d] \in {"closed", "gone"}
    /\ \A c \in calls : c.by = "live"
    /\ \A o \in Verdicts(queue) \cup {outcomes[d] : d \in Written} : TrueVerdict(o)
    /\ \A d \in Written : outcomes[d].d = d

-----------------------------------------------------------------------------
(* Types *)

LEMMA RowTypes ==
    /\ \A o \in Outcome : OutcomeRow(o) \in Rows
    /\ \A t \in Decision : /\ Row("experiences", t) \in Rows
                           /\ Row("signals", t) \in Rows
                           /\ Row("orders", t) \in Rows
                           /\ Row("closed", t) \in Rows
    /\ \A t \in Decision, d \in Decision \cup {Nobody} : OpenedRow(t, d) \in Rows
  BY DEF Rows

LEMMA QueueType ==
    ASSUME TypeOK, NEW r \in Rows
    PROVE  queue \in Seq(Rows) /\ Append(queue, r) \in Seq(Rows)
  <1>1. queue \in Seq(Rows)
    BY DEF TypeOK
  <1> QED
    BY <1>1

LEMMA RowFields ==
    ASSUME NEW r \in Rows
    PROVE  /\ r.table \in {"outcomes", "experiences", "signals", "orders", "closed", "opened"}
           /\ r.table = "outcomes" => r.outcome \in Outcome
           /\ r.table # "outcomes" => r.d \in Decision
           /\ r.table = "opened" => r.by \in Decision \cup {Nobody}
  BY DEF Rows, OutcomeRow, Row, OpenedRow

LEMMA EndedType ==
    ASSUME NEW d \in Decision, NEW kind \in Kinds, NEW exec \in Decision \cup {Nobody},
           NEW by \in {"live", "sweep"}
    PROVE  /\ Ended(d, kind, exec, by) \in Outcome
           /\ Ended(d, kind, exec, by) # NoOutcome
  BY DEF Ended, Outcome, NoOutcome, Kinds

LEMMA ViewOfType ==
    ASSUME NEW ps, NEW os
    PROVE  ViewOf(ps, os) \in [Decision -> {"absent", "PENDING", "POSITION"}]
  BY DEF ViewOf

LEMMA EndOfPendingsType ==
    ASSUME TypeOK, NEW T \in SUBSET Decision, NEW kind \in {"canceled", "expired"}
    PROVE  /\ EndOfPendings(T, kind) \subseteq Outcome
           /\ \A c \in EndOfPendings(T, kind) : c.kind = kind /\ c.by = "live"
  <1>1. SUFFICES ASSUME NEW u \in T, bound[u] # Nobody
                 PROVE  /\ Ended(bound[u], kind, u, "live") \in Outcome
                        /\ Ended(bound[u], kind, u, "live").kind = kind
                        /\ Ended(bound[u], kind, u, "live").by = "live"
    BY DEF EndOfPendings
  <1>2. bound[u] \in Decision /\ u \in Decision
    BY <1>1 DEF TypeOK
  <1> QED
    BY <1>2 DEF Ended, Outcome, Kinds

LEMMA VanishedType ==
    ASSUME TypeOK, NEW o
    PROVE  /\ Vanished(o) \subseteq Outcome
           /\ \A c \in Vanished(o) : c.kind = "expired" /\ c.by = "live"
  BY EndOfPendingsType DEF Vanished

LEMMA WithoutRestType ==
    ASSUME TypeOK, NEW D \in SUBSET Decision
    PROVE  /\ WithoutRest(D) \in [Decision -> {"none", "pending", "partial", "position",
                                               "reduced", "closed", "gone"}]
           /\ CutBy(D) \subseteq Decision
           /\ \A d \in Decision : WithoutRest(D)[d] # order[d] =>
                 \/ order[d] = "pending" /\ WithoutRest(D)[d] = "gone"
                 \/ order[d] = "partial" /\ WithoutRest(D)[d] = "position"
  BY DEF TypeOK, WithoutRest, CutBy

\* The number of a registration fits: the candidate is not among those sent.
LEMMA StampType ==
    ASSUME NEW S \in SUBSET Decision, NEW d \in Decision \ S
    PROVE  Cardinality(S) + 1 \in 0..Cardinality(Decision)
  <1>1. IsFiniteSet(Decision)
    BY ConstantsAssumption
  <1>2. IsFiniteSet(S) /\ Cardinality(S) <= Cardinality(Decision)
    BY <1>1, FS_Subset
  <1>3. Cardinality(S) # Cardinality(Decision)
    BY <1>1, FS_Subset
  <1>4. Cardinality(S) \in Nat /\ Cardinality(Decision) \in Nat
    BY <1>1, <1>2, FS_CardinalityType
  <1> QED
    BY <1>2, <1>3, <1>4

LEMMA TypeInit == Init => TypeInv
  <1>1. IsFiniteSet(Decision) /\ 0 \in 0..MaxRestarts
    BY ConstantsAssumption
  <1>2. 0 \in 0..Cardinality(Decision)
    BY <1>1, FS_CardinalityType
  <1>3. ASSUME Init PROVE TypeOK
    <2>1. queue \in Seq(Rows)
      BY <1>3 DEF Init
    <2> QED
      BY <1>1, <1>2, <1>3, <2>1 DEF Init, TypeOK
  <1>4. ASSUME Init PROVE GateInv
    BY <1>4 DEF Init, GateInv
  <1> QED
    BY <1>3, <1>4 DEF TypeInv

\* A sent entry: the book is o, or o with the new order.
LEMMA SendType ==
    ASSUME TypeInv, NEW placed \in {"pending", "position"},
           NEW o \in [Decision -> {"none", "pending", "partial", "position", "reduced", "closed",
                                   "gone"}],
           Send(o, placed), cut' \subseteq Decision
    PROVE  TypeInv'
  <1> USE DEF TypeInv, TypeOK, GateInv
  <1>1. cand \in Decision /\ stage[cand] = "proposed" /\ calls = {}
    BY DEF Send, Passes, At
  <1> DEFINE n == Cardinality({d \in Decision : stage[d] = "sent"}) + 1
  <1>2. n \in 0..Cardinality(Decision)
    BY <1>1, StampType
  <1> HIDE DEF n
  <1>3. stamp' = [stamp EXCEPT ![cand] = n]
    BY DEF Send, n
  <1>4. stage' \in [Decision -> {"new", "proposed", "sent"}] /\ stage'[cand] = "sent"
    BY <1>1 DEF Send
  <1>5. stamp' \in [Decision -> 0..Cardinality(Decision)]
    BY <1>1, <1>2, <1>3
  <1>6. order' \in [Decision -> {"none", "pending", "partial", "position", "reduced", "closed",
                                 "gone"}]
    BY <1>1 DEF Send
  <1>7. calls' \subseteq Outcome
    BY <1>1, EndedType DEF Send, Kinds
  <1>8. queue' \in Seq(Rows)
    <2>1. queue' = queue \/ queue' = Append(queue, Row("orders", cand))
      BY DEF Send
    <2>2. TypeOK /\ Row("orders", cand) \in Rows
      BY <1>1, RowTypes
    <2> QED
      BY ONLY <2>1, <2>2, QueueType
  <1>9. /\ step' \in {"begin", "again"} /\ cand' \in Decision \cup {Nobody}
        /\ step' = "again" => cand' = cand
    BY <1>1 DEF Send, Return
  <1>10. UNCHANGED <<view, tracked, bound, family, seen, turn, snap, dbVars, sweepVars, restarts>>
    BY DEF Send
  <1> QED
    BY <1>1, <1>4, <1>5, <1>6, <1>7, <1>8, <1>9, <1>10 DEF dbVars, sweepVars

LEMMA TypeNext == TypeInv /\ [Next]_vars => TypeInv'
  <1> SUFFICES ASSUME TypeInv, [Next]_vars PROVE TypeInv'
    OBVIOUS
  <1> USE DEF TypeInv, TypeOK, GateInv, At, brokerVars, engineVars, entryVars, passVars,
              dbVars, sweepVars
  <1>1. ASSUME NEW d \in Decision, BrokerMoves(d) PROVE TypeInv'
    BY <1>1 DEF BrokerMoves, Moves, CutBy
  <1>2. CASE ReadPositions
    BY <1>2 DEF ReadPositions, Idle, PositionsOf
  <1>3. CASE Rebuild
    BY <1>3, ViewOfType DEF Rebuild
  <1>4. CASE Compare
    BY <1>4, ViewOfType, VanishedType DEF Compare
  <1>5. ASSUME NEW d \in Decision, CancelStale(d) PROVE TypeInv'
    <2>0. TypeOK /\ {d} \in SUBSET Decision
      OBVIOUS
    <2>1. /\ order' \in [Decision -> {"none", "pending", "partial", "position", "reduced",
                                      "closed", "gone"}]
          /\ cut' \subseteq Decision
      <3>1. order' = WithoutRest({d}) /\ cut' = CutBy({d})
        BY <1>5 DEF CancelStale
      <3> QED
        BY ONLY <2>0, <3>1, WithoutRestType
    <2>2. calls' \subseteq Outcome
      <3>1. PICK kind \in {"expired", "canceled"} :
               calls' = EndOfPendings({d}, kind) \cup Vanished(order')
        BY <1>5 DEF CancelStale
      <3> QED
        BY ONLY <2>0, <3>1, EndOfPendingsType, VanishedType
    <2>3. view' \in [Decision -> {"absent", "PENDING", "POSITION"}]
      BY <1>5, ViewOfType DEF CancelStale
    <2> QED
      BY <1>5, <2>1, <2>2, <2>3 DEF CancelStale, Idle
  <1>6. ASSUME NEW t \in Decision, BookMissed(t) PROVE TypeInv'
    <2>1. bound' \in [Decision -> Decision \cup {Nobody}] /\ queue' \in Seq(Rows)
      BY <1>6, RowTypes DEF BookMissed, Booked
    <2>2. calls' \subseteq Outcome
      BY <1>6, <2>1, EndedType DEF BookMissed, TradeOf, Kinds
    <2> QED
      BY <1>6, <2>1, <2>2 DEF BookMissed
  <1>7. ASSUME NEW t \in Decision, Autopsy(t) PROVE TypeInv'
    <2>1. /\ bound' \in [Decision -> Decision \cup {Nobody}] /\ queue' \in Seq(Rows)
          /\ view' \in [Decision -> {"absent", "PENDING", "POSITION"}]
      BY <1>7, RowTypes DEF Autopsy, Booked
    <2>2. calls' \subseteq Outcome
      BY <1>7, EndedType DEF Autopsy, TradeOf, Kinds
    <2>3. /\ stamp' \in [Decision -> 0..Cardinality(Decision)]
          /\ family' \in [Decision -> SUBSET Decision]
      <3>1. 0 \in 0..Cardinality(Decision)
        BY ConstantsAssumption, FS_CardinalityType
      <3>2. /\ stamp \in [Decision -> 0..Cardinality(Decision)]
            /\ family \in [Decision -> SUBSET Decision]
        OBVIOUS
      <3>3. \/ stamp' = stamp /\ family' = family
            \/ /\ bound[t] \in Decision
               /\ stamp' = [stamp EXCEPT ![bound[t]] = 0]
               /\ family' = [family EXCEPT ![bound[t]] = {}]
        BY <1>7 DEF Autopsy, Pruned
      <3> QED
        BY ONLY <3>1, <3>2, <3>3
    <2> QED
      BY <1>7, <2>1, <2>2, <2>3 DEF Autopsy
  <1>8. ASSUME NEW t \in Decision, Track(t) PROVE TypeInv'
    <2>1. PICK d \in Source(t) :
             /\ bound' = [bound EXCEPT ![t] = d]
             /\ family' = IF Staged = {} THEN family ELSE [family EXCEPT ![d] = @ \cup {t}]
             /\ queue' = Append(queue, OpenedRow(t, d))
      BY <1>8 DEF Track
    <2>2. d \in Decision \cup {Nobody} /\ (Staged # {} => d \in Decision)
      BY <2>1 DEF Source, Staged
    <2>3. queue' \in Seq(Rows)
      BY <2>1, <2>2, RowTypes
    <2> QED
      BY <1>8, <2>1, <2>2, <2>3 DEF Track
  <1>9. CASE EndMissed \/ EndPass
    BY <1>9 DEF EndMissed, EndPass
  <1>10. ASSUME NEW d \in Decision, Propose(d) PROVE TypeInv'
    <2> DEFINE n == Cardinality({e \in Decision : stage[e] # "new"}) + 1
    <2>1. n \in 0..Cardinality(Decision)
      BY <1>10, StampType DEF Propose
    <2> HIDE DEF n
    <2>2. turn' = [turn EXCEPT ![d] = n]
      BY <1>10 DEF Propose, n
    <2>3. turn' \in [Decision -> 0..Cardinality(Decision)]
      BY <2>1, <2>2
    <2>4. queue' \in Seq(Rows)
      BY <1>10, RowTypes DEF Propose
    <2>5. /\ stage' = [stage EXCEPT ![d] = "proposed"] /\ cand' = d /\ step' = "gate"
          /\ UNCHANGED <<brokerVars, engineVars, snap, calls, dbVars, sweepVars, restarts>>
      BY <1>10 DEF Propose
    <2> QED
      BY <2>3, <2>4, <2>5
  <1>11. CASE GateRejects
    BY <1>11, RowTypes, EndedType DEF GateRejects, Unsent, Kinds
  <1>12. CASE RefusedInSilence \/ BlockDuplicate
    BY <1>12 DEF RefusedInSilence, BlockDuplicate
  <1>13. CASE RefuseDispatch
    BY <1>13, EndedType DEF RefuseDispatch, Return, Unsent, Kinds
  <1>14. CASE SendMarket
    BY <1>14, SendType DEF SendMarket
  <1>15. CASE SendPending
    <2>1. PendingsOf(order) \subseteq Decision
      BY DEF PendingsOf
    <2> QED
      BY <1>15, <2>1, SendType, WithoutRestType DEF SendPending
  <1>16. ASSUME NEW c \in calls, Record(c) PROVE TypeInv'
    <2>1. TypeOK /\ OutcomeRow(c) \in Rows
      BY <1>16, RowTypes
    <2>2. queue' = queue \/ queue' = Append(queue, OutcomeRow(c))
      BY <1>16 DEF Record
    <2>3. queue' \in Seq(Rows)
      BY ONLY <2>1, <2>2, QueueType
    <2> QED
      BY <1>16, <2>3 DEF Record
  <1>17. CASE Drain
    <2>1. queue' \in Seq(Rows) /\ Head(queue) \in Rows
      BY <1>17 DEF Drain
    <2>2. outcomes' \in [Decision -> Outcome \cup {NoOutcome}]
      <3>1. outcomes' = Stored(Head(queue))
        BY <1>17 DEF Drain
      <3> QED
        BY <2>1, <3>1, RowFields DEF Stored
    <2>3. /\ experiences' \subseteq Decision /\ signals' \subseteq Decision
          /\ orders' \subseteq Decision
      BY <1>17, <2>1, RowFields DEF Drain
    <2>4. /\ ledger' \in [Decision -> {"NONE", "OPENED", "CLOSED"}]
          /\ opener' \in [Decision -> Decision \cup {Nobody}]
      BY <1>17, <2>1, RowFields DEF Drain
    <2> QED
      BY <1>17, <2>1, <2>2, <2>3, <2>4 DEF Drain
  <1>18. CASE Sync
    BY <1>18 DEF Sync, Over
  <1>19. CASE SweepStart
    BY <1>19 DEF SweepStart, Scanned, Missing
  <1>20. ASSUME NEW d \in Decision, SweepOne(d) PROVE TypeInv'
    <2>1. queue' \in Seq(Rows)
      <3>1. ASSUME NEW kind \in Evidence(d) PROVE Found(d, kind) \in Rows
        <4>1. kind \in Kinds
          BY <3>1 DEF Evidence, Kinds
        <4> QED
          BY <4>1, EndedType, RowTypes DEF Found
      <3>2. queue' = queue \/ \E kind \in Evidence(d) : queue' = Append(queue, Found(d, kind))
        BY <1>20 DEF SweepOne
      <3>3. TypeOK
        OBVIOUS
      <3> QED
        BY ONLY <3>1, <3>2, <3>3, QueueType
    <2> QED
      BY <1>20, <2>1 DEF SweepOne
  <1>21. CASE Restart
    <2>1. restarts' \in 0..MaxRestarts
      BY <1>21, ConstantsAssumption DEF Restart
    <2>2. view' \in [Decision -> {"absent", "PENDING", "POSITION"}]
      BY <1>21, ViewOfType DEF Restart
    <2>3. 0 \in 0..Cardinality(Decision)
      BY ConstantsAssumption, FS_CardinalityType
    <2> QED
      BY <1>21, <2>1, <2>2, <2>3 DEF Restart
  <1>22. CASE UNCHANGED vars
    BY <1>22 DEF vars
  <1> QED
    BY <1>1, <1>2, <1>3, <1>4, <1>5, <1>6, <1>7, <1>8, <1>9, <1>10, <1>11, <1>12, <1>13,
       <1>14, <1>15, <1>16, <1>17, <1>18, <1>19, <1>20, <1>21, <1>22
    DEF Next, Tick, Sweep

\* The state of DecisionOutcomes has its types, and no decision is registered twice.
THEOREM TypeCorrect == Spec => []TypeOK
  <1>1. TypeInv => TypeOK
    BY DEF TypeInv
  <1> QED
    BY <1>1, TypeInit, TypeNext, PTL DEF Spec

-----------------------------------------------------------------------------
(* The broker's orders and the refused decisions *)

\* Orders only move forward; a refused decision stays refused.
Forward ==
    \A d \in Decision : /\ HasFilled(d) => HasFilled(d)'
                        /\ order[d] = "closed" => order'[d] = "closed"
                        /\ order[d] = "gone" => order'[d] = "gone"
                        /\ d \in ClosingDeals => d \in ClosingDeals'
                        /\ Refused(d) => Refused(d)'

LEMMA SendForward ==
    ASSUME TypeInv, OrderInv, NEW placed \in {"pending", "position"},
           NEW D \in SUBSET Decision, Send(WithoutRest(D), placed) \/ Send(order, placed)
    PROVE  Forward /\ OrderInv'
  <1>1. /\ cand \in Decision /\ stage[cand] = "proposed" /\ order[cand] = "none"
        /\ stage' = [stage EXCEPT ![cand] = "sent"]
        /\ cand' = cand \/ cand' = Nobody
        /\ stage \in [Decision -> {"new", "proposed", "sent"}]
    BY DEF Send, Passes, Return, At, TypeInv, TypeOK, GateInv, OrderInv
  <1>2. PICK o \in [Decision -> {"none", "pending", "partial", "position", "reduced", "closed",
                                 "gone"}] :
           /\ \A d \in Decision : o[d] # order[d] =>
                 \/ order[d] = "pending" /\ o[d] = "gone"
                 \/ order[d] = "partial" /\ o[d] = "position"
           /\ Send(o, placed)
    BY WithoutRestType DEF TypeInv, TypeOK
  <1>3. order' = o \/ order' = [o EXCEPT ![cand] = placed]
    BY <1>2 DEF Send
  <1>4. \A d \in Decision \ {cand} : order'[d] = o[d] /\ stage'[d] = stage[d]
    BY <1>1, <1>2, <1>3
  <1>5. \A d \in Decision : cand' # d \/ d = cand
    BY <1>1, ConstantsAssumption
  <1> QED
    BY <1>1, <1>2, <1>4, <1>5
    DEF Forward, OrderInv, HasFilled, ClosingDeals, Refused

LEMMA OrderForward == TypeInv /\ OrderInv /\ [Next]_vars => Forward /\ OrderInv'
  <1> SUFFICES ASSUME TypeInv, OrderInv, [Next]_vars PROVE Forward /\ OrderInv'
    OBVIOUS
  <1> USE DEF Forward, OrderInv, HasFilled, ClosingDeals, Refused
  <1>1. ASSUME NEW d \in Decision, BrokerMoves(d) PROVE Forward /\ OrderInv'
    BY <1>1 DEF BrokerMoves, Moves, entryVars, TypeInv, TypeOK
  <1>2. ASSUME NEW d \in Decision, CancelStale(d) PROVE Forward /\ OrderInv'
    <2>1. TypeOK /\ {d} \in SUBSET Decision
      BY DEF TypeInv
    <2>2. order' = WithoutRest({d}) /\ UNCHANGED entryVars
      BY <1>2 DEF CancelStale
    <2> QED
      BY <2>1, <2>2, WithoutRestType DEF entryVars
  <1>3. CASE SendMarket \/ SendPending
    BY <1>3, SendForward DEF SendMarket, SendPending, PendingsOf
  <1>4. ASSUME order' = order, stage' = stage, cand' = cand \/ cand' = Nobody
        PROVE  Forward /\ OrderInv'
    BY <1>4, ConstantsAssumption
  <1>5. CASE GateRejects \/ RefusedInSilence \/ RefuseDispatch \/ BlockDuplicate \/ Restart
    BY <1>4, <1>5 DEF GateRejects, RefusedInSilence, RefuseDispatch, Return, BlockDuplicate,
                      Restart, brokerVars
  <1>6. ASSUME NEW d \in Decision, Propose(d) PROVE Forward /\ OrderInv'
    BY <1>6 DEF Propose, brokerVars, TypeInv, TypeOK
  <1>7. CASE ReadPositions \/ Rebuild \/ Compare \/ EndMissed \/ EndPass
    BY <1>4, <1>7 DEF ReadPositions, Rebuild, Compare, EndMissed, EndPass, brokerVars, entryVars
  <1>8. ASSUME NEW t \in Decision, BookMissed(t) \/ Autopsy(t) \/ Track(t)
        PROVE  Forward /\ OrderInv'
    BY <1>4, <1>8 DEF BookMissed, Autopsy, Track, brokerVars, entryVars
  <1>9. ASSUME NEW c \in calls, Record(c) PROVE Forward /\ OrderInv'
    BY <1>4, <1>9 DEF Record, brokerVars, entryVars
  <1>10. CASE Drain \/ Sync \/ Sweep
    BY <1>4, <1>10 DEF Drain, Sync, Sweep, SweepStart, SweepOne, brokerVars, entryVars
  <1>11. CASE UNCHANGED vars
    BY <1>4, <1>11 DEF vars, brokerVars, entryVars
  <1> QED
    BY <1>1, <1>2, <1>3, <1>5, <1>6, <1>7, <1>8, <1>9, <1>10, <1>11 DEF Next, Tick

\* What is tracked has filled, and what is not among the positions read has closed.
LEMMA VanishedNext ==
    TypeInv /\ OrderInv /\ VanishedInv /\ [Next]_vars => VanishedInv'
  <1> SUFFICES ASSUME TypeInv, OrderInv, VanishedInv, [Next]_vars PROVE VanishedInv'
    OBVIOUS
  <1>1. /\ \A d \in Decision : HasFilled(d) => HasFilled(d)'
        /\ \A d \in Decision : order[d] = "closed" => order'[d] = "closed"
        /\ tracked \subseteq Decision /\ snap \subseteq Decision
        /\ tracked' \subseteq Decision /\ snap' \subseteq Decision
    BY OrderForward, TypeNext DEF Forward, TypeInv, TypeOK
  <1>2. CASE ReadPositions
    BY <1>1, <1>2 DEF ReadPositions, VanishedInv, PositionsOf, HasFilled, brokerVars, engineVars
  <1>3. ASSUME tracked' \subseteq tracked, snap' = snap,
               step' \in {"view", "compare", "missed", "settle"} =>
                  step \in {"view", "compare", "missed", "settle"}
        PROVE  VanishedInv'
    BY <1>1, <1>3 DEF VanishedInv
  <1>4. CASE Rebuild \/ Compare \/ EndMissed
    BY <1>3, <1>4 DEF Rebuild, Compare, EndMissed, At, engineVars
  <1>5. ASSUME NEW t \in Decision, BookMissed(t) \/ Autopsy(t) \/ CancelStale(t)
        PROVE  VanishedInv'
    BY <1>3, <1>5 DEF BookMissed, Autopsy, CancelStale, At
  <1>6. ASSUME NEW t \in Decision, Track(t) PROVE VanishedInv'
    BY <1>1, <1>6 DEF Track, VanishedInv, HasFilled, brokerVars
  <1>7. CASE EndPass \/ Restart
    BY <1>1, <1>7 DEF EndPass, Restart, VanishedInv, At, engineVars
  <1>8. ASSUME NEW d \in Decision, BrokerMoves(d) \/ Propose(d) PROVE VanishedInv'
    BY <1>3, <1>8 DEF BrokerMoves, Propose, engineVars, passVars
  <1>9. CASE GateRejects \/ RefusedInSilence \/ RefuseDispatch \/ BlockDuplicate
    BY <1>3, <1>9 DEF GateRejects, RefusedInSilence, RefuseDispatch, BlockDuplicate, Return,
                      engineVars
  <1>10. CASE SendMarket \/ SendPending
    BY <1>3, <1>10 DEF SendMarket, SendPending, Send, Return
  <1>11. ASSUME NEW c \in calls, Record(c) PROVE VanishedInv'
    BY <1>3, <1>11 DEF Record, engineVars
  <1>12. CASE Drain \/ Sync \/ Sweep
    BY <1>3, <1>12 DEF Drain, Sync, Sweep, SweepStart, SweepOne, engineVars, passVars
  <1>13. CASE UNCHANGED vars
    BY <1>3, <1>13 DEF vars, engineVars, passVars
  <1> QED
    BY <1>2, <1>4, <1>5, <1>6, <1>7, <1>8, <1>9, <1>10, <1>11, <1>12, <1>13 DEF Next, Tick

-----------------------------------------------------------------------------
(* What a step does to the outcome calls, the queue and the tables *)

\* The row r joins the queue.
Queues(r) == r \in Rows /\ queue' = Append(queue, r)

\* A ticket with closing deals is booked, and its trade called for.
Learns ==
    \E t \in ClosingDeals :
        /\ Queues(Row("closed", t))
        /\ \A c \in calls' : c.by = "live" /\ c.exec = t
        /\ UNCHANGED <<dbVars, sweepVars>>

\* No trade is called for, and no outcome queued or written.
Quiet ==
    /\ \A c \in calls' : c \in calls \/ (c.kind # "trade" /\ c.by = "live")
    /\ \/ queue' = queue
       \/ \E r : Queues(r) /\ r.table # "outcomes" /\ (r.table = "signals" => Refused(r.d)')
    /\ evident' \subseteq signals \cup evident
    /\ \A d \in copy' : d \in copy \/ order[d] \in {"closed", "gone"}
    /\ UNCHANGED dbVars

LEMMA SendQuiet ==
    ASSUME TypeInv, NEW o, NEW placed, Send(o, placed)
    PROVE  Quiet
  <1>1. cand \in Decision /\ calls = {}
    BY DEF Send, Passes, At, TypeInv, GateInv
  <1>2. \A c \in calls' : c \in calls \/ (c.kind # "trade" /\ c.by = "live")
    BY <1>1 DEF Send, Ended
  <1>3. queue' = queue \/ queue' = Append(queue, Row("orders", cand))
    BY DEF Send
  <1>4. /\ Row("orders", cand) \in Rows
        /\ Row("orders", cand).table = "orders"
    BY <1>1, RowTypes DEF Row
  <1>5. queue' = queue
        \/ \E r : Queues(r) /\ r.table # "outcomes" /\ (r.table = "signals" => Refused(r.d)')
    BY <1>3, <1>4 DEF Queues
  <1>6. UNCHANGED <<dbVars, copy, evident>>
    BY DEF Send, sweepVars
  <1> QED
    BY <1>2, <1>5, <1>6 DEF Quiet

LEMMA StepKinds ==
    ASSUME TypeInv, OrderInv, VanishedInv, [Next]_vars
    PROVE  \/ Restart \/ Drain \/ Learns \/ Quiet
           \/ \E c \in calls : Record(c)
           \/ \E d \in Decision : SweepOne(d)
  <1> USE DEF dbVars, sweepVars
  <1>1. ASSUME calls' = calls \/ calls' = {}, queue' = queue, UNCHANGED <<dbVars, sweepVars>>
        PROVE  Quiet
    BY <1>1 DEF Quiet
  <1>2. ASSUME NEW d \in Decision, BrokerMoves(d) PROVE Quiet
    BY <1>1, <1>2 DEF BrokerMoves, passVars
  <1>3. CASE ReadPositions \/ Rebuild \/ EndMissed \/ EndPass
    BY <1>1, <1>3 DEF ReadPositions, Rebuild, EndMissed, EndPass
  <1>4. CASE Compare
    <2>1. \A c \in calls' : c \in calls \/ (c.kind # "trade" /\ c.by = "live")
      BY <1>4, VanishedType DEF Compare, TypeInv
    <2> QED
      BY <1>4, <2>1 DEF Compare, Quiet
  <1>5. ASSUME NEW d \in Decision, CancelStale(d) PROVE Quiet
    <2>1. TypeOK /\ {d} \in SUBSET Decision
      BY DEF TypeInv
    <2>2. PICK kind \in {"expired", "canceled"} :
             calls' = EndOfPendings({d}, kind) \cup Vanished(order')
      BY <1>5 DEF CancelStale
    <2>3. \A c \in calls' : c.kind # "trade" /\ c.by = "live"
      BY <2>1, <2>2, VanishedType, EndOfPendingsType
    <2> QED
      BY <1>5, <2>3 DEF CancelStale, Quiet
  <1>6. ASSUME NEW t \in ClosingDeals, NEW b, queue' = Booked(t), calls' = TradeOf(t, b),
               UNCHANGED <<dbVars, sweepVars>>
        PROVE  Learns
    <2>1. t \in Decision /\ Row("closed", t) \in Rows
      BY RowTypes DEF ClosingDeals
    <2>2. \A c \in calls' : c.by = "live" /\ c.exec = t
      BY <1>6 DEF TradeOf, Ended
    <2> QED
      BY <1>6, <2>1, <2>2 DEF Learns, Queues, Booked
  <1>7. ASSUME NEW t \in Decision, BookMissed(t) PROVE Learns
    <2>1. t \in ClosingDeals
      BY <1>7 DEF BookMissed, Missed
    <2> QED
      BY <1>6, <1>7, <2>1 DEF BookMissed
  <1>8. ASSUME NEW t \in Decision, Autopsy(t) PROVE Learns
    <2>1. t \in ClosingDeals
      BY <1>8 DEF Autopsy, At, VanishedInv, ClosingDeals
    <2> QED
      BY <1>6, <1>8, <2>1 DEF Autopsy
  <1>9. ASSUME NEW r \in Rows, r.table \notin {"outcomes", "signals"}, calls' \subseteq calls,
               queue' = Append(queue, r), UNCHANGED <<dbVars, sweepVars>>
        PROVE  Quiet
    BY <1>9 DEF Quiet, Queues
  <1>10. ASSUME NEW t \in Decision, Track(t) PROVE Quiet
    <2>1. PICK d \in Source(t) : queue' = Append(queue, OpenedRow(t, d))
      BY <1>10 DEF Track
    <2>2. d \in Decision \cup {Nobody}
      BY <2>1 DEF Source, Staged, TypeInv, TypeOK
    <2>3. OpenedRow(t, d) \in Rows /\ OpenedRow(t, d).table = "opened"
      BY <2>2, RowTypes DEF OpenedRow
    <2> QED
      BY <1>9, <1>10, <2>1, <2>3 DEF Track
  <1>11. ASSUME NEW d \in Decision, Propose(d) PROVE Quiet
    <2>1. Row("experiences", d) \in Rows /\ Row("experiences", d).table = "experiences"
      BY RowTypes DEF Row
    <2> QED
      BY <1>9, <1>11, <2>1 DEF Propose
  <1>12. CASE GateRejects
    <2>1. PICK d \in Decision : d = cand /\ stage'[d] = "proposed" /\ cand' = Nobody
      BY <1>12 DEF GateRejects, At, TypeInv, GateInv
    <2>2. Row("signals", d) \in Rows
      BY RowTypes
    <2>3. Row("signals", d).d = d /\ Row("signals", d).table = "signals"
      BY DEF Row
    <2>4. Refused(d)'
      BY <2>1, ConstantsAssumption DEF Refused
    <2>5. Queues(Row("signals", d))
      BY <1>12, <2>1, <2>2 DEF GateRejects, Queues
    <2>6. \A c \in calls' : c.kind # "trade" /\ c.by = "live"
      BY <1>12 DEF GateRejects, Unsent, Ended
    <2> QED
      BY <1>12, <2>3, <2>4, <2>5, <2>6 DEF GateRejects, Quiet
  <1>13. CASE RefusedInSilence \/ BlockDuplicate
    BY <1>1, <1>13 DEF RefusedInSilence, BlockDuplicate
  <1>14. CASE RefuseDispatch
    BY <1>14 DEF RefuseDispatch, Unsent, Ended, Quiet
  <1>15. CASE SendMarket \/ SendPending
    BY <1>15, SendQuiet DEF SendMarket, SendPending
  <1>16. CASE Sync
    BY <1>16 DEF Sync, Over, Quiet, passVars
  <1>17. CASE SweepStart
    BY <1>17 DEF SweepStart, Quiet, passVars
  <1>18. CASE UNCHANGED vars
    BY <1>1, <1>18 DEF vars, passVars
  <1> QED
    BY <1>2, <1>3, <1>4, <1>5, <1>7, <1>8, <1>10, <1>11, <1>12, <1>13, <1>14, <1>15,
       <1>16, <1>17, <1>18 DEF Next, Tick, Sweep

LEMMA Queued ==
    ASSUME TypeInv, NEW r, Queues(r)
    PROVE  /\ Len(queue) \in Nat /\ Len(queue') = Len(queue) + 1
           /\ queue'[Len(queue) + 1] = r
           /\ \A i \in 1..Len(queue) : queue'[i] = queue[i] /\ queue[i] \in Rows
  <1>1. queue \in Seq(Rows)
    BY DEF TypeInv, TypeOK
  <1> QED
    BY <1>1 DEF Queues

LEMMA Drained ==
    ASSUME TypeInv, Drain
    PROVE  /\ Len(queue) \in Nat \ {0} /\ Len(queue') = Len(queue) - 1
           /\ \A i \in 1..Len(queue') : queue'[i] = queue[i + 1]
           /\ \A i \in 1..Len(queue) : queue[i] \in Rows
           /\ Head(queue) = queue[1] /\ queue[1] \in Rows
  <1>1. queue \in Seq(Rows) /\ queue # <<>> /\ queue' = Tail(queue)
    BY DEF TypeInv, TypeOK, Drain
  <1> QED
    BY <1>1

\* An outcome is written by the drain of its row, and only over none.
LEMMA OutcomeWritten ==
    ASSUME TypeInv, Drain, NEW d \in Decision, outcomes'[d] # outcomes[d]
    PROVE  /\ queue[1].table = "outcomes" /\ queue[1].outcome.d = d
           /\ outcomes'[d] = queue[1].outcome
           /\ queue[1].outcome \in Outcome
  <1>1. outcomes' = Stored(queue[1]) /\ queue[1] \in Rows
    BY Drained DEF Drain
  <1>2. outcomes \in [Decision -> Outcome \cup {NoOutcome}]
    BY DEF TypeInv, TypeOK
  <1>3. queue[1].table = "outcomes" =>
           queue[1].outcome \in Outcome /\ queue[1].outcome.d \in Decision
    BY <1>1, RowFields DEF Outcome
  <1> QED
    BY <1>1, <1>2, <1>3 DEF Stored

LEMMA Recorded ==
    ASSUME TypeInv, NEW c \in calls, Record(c)
    PROVE  /\ c \in Outcome /\ calls' \subseteq calls
           /\ queue' = queue \/ Queues(OutcomeRow(c))
           /\ OutcomeRow(c).table = "outcomes" /\ OutcomeRow(c).outcome = c
           /\ UNCHANGED <<dbVars, sweepVars>>
  <1>1. c \in Outcome
    BY DEF TypeInv, TypeOK
  <1>2. OutcomeRow(c) \in Rows
    BY <1>1, RowTypes
  <1> QED
    BY <1>1, <1>2 DEF Record, Queues, OutcomeRow

LEMMA Swept ==
    ASSUME TypeInv, NEW d \in Decision, SweepOne(d)
    PROVE  /\ calls' = calls
           /\ queue' = queue \/ \E kind \in Evidence(d) : Queues(Found(d, kind))
           /\ \A kind \in Evidence(d) :
                 /\ kind \in Kinds
                 /\ Found(d, kind).table = "outcomes" /\ Found(d, kind).outcome.kind = kind
                 /\ Found(d, kind).outcome.d = d /\ Found(d, kind).outcome.by = "sweep"
           /\ UNCHANGED <<dbVars, copy, evident>>
  <1>1. ASSUME NEW kind \in Evidence(d)
        PROVE  kind \in Kinds /\ Found(d, kind) \in Rows
    <2>1. kind \in Kinds
      BY <1>1 DEF Evidence, Kinds
    <2> QED
      BY <2>1, EndedType, RowTypes DEF Found
  <1>2. \A kind \in Evidence(d) :
           /\ Found(d, kind).table = "outcomes" /\ Found(d, kind).outcome.kind = kind
           /\ Found(d, kind).outcome.d = d /\ Found(d, kind).outcome.by = "sweep"
    BY DEF Found, OutcomeRow, Ended
  <1> QED
    BY <1>1, <1>2 DEF SweepOne, Queues, passVars

-----------------------------------------------------------------------------
(* Trades are closing, and booked *)

\* Everything the tick thread and the queue are about to write, and what is written.
LEMMA TradeNext ==
    TypeInv /\ OrderInv /\ VanishedInv /\ TradeInv /\ [Next]_vars => TradeInv'
  <1> SUFFICES ASSUME TypeInv, OrderInv, VanishedInv, TradeInv, [Next]_vars PROVE TradeInv'
    OBVIOUS
  <1>1. ClosingDeals \subseteq ClosingDeals'
    BY OrderForward DEF Forward, ClosingDeals
  <1>2. CASE Restart
    BY <1>1, <1>2 DEF Restart, TradeInv, LiveTrade, LiveTradesClosing, dbVars
  <1>3. CASE Drain
    <2>1. calls' = calls
      BY <1>3 DEF Drain, passVars
    <2>2. ASSUME NEW d \in Decision, LiveTrade(outcomes'[d])
          PROVE  outcomes'[d].exec \in ClosingDeals
      <3>1. CASE outcomes'[d] = outcomes[d]
        BY <2>2, <3>1 DEF TradeInv, LiveTrade, LiveTradesClosing
      <3>2. CASE outcomes'[d] # outcomes[d]
        BY <1>3, <2>2, <3>2, OutcomeWritten, Drained DEF TradeInv, LiveTrade
      <3> QED
        BY <3>1, <3>2
    <2> QED
      BY <1>1, <1>3, <2>1, <2>2, Drained DEF TradeInv, LiveTrade, LiveTradesClosing
  <1>4. CASE Learns
    BY <1>1, <1>4, Queued DEF Learns, TradeInv, LiveTrade, LiveTradesClosing, Row, dbVars
  <1>5. CASE Quiet
    <2>1. \A c \in calls' : LiveTrade(c) => c.exec \in ClosingDeals'
      BY <1>1, <1>5 DEF Quiet, TradeInv, LiveTrade
    <2>2. \A i \in 1..Len(queue') :
             queue'[i].table = "outcomes" /\ LiveTrade(queue'[i].outcome)
                 => queue'[i].outcome.exec \in ClosingDeals'
      BY <1>1, <1>5, Queued DEF Quiet, TradeInv
    <2> QED
      BY <1>1, <1>5, <2>1, <2>2 DEF Quiet, TradeInv, LiveTrade, LiveTradesClosing, dbVars
  <1>6. ASSUME NEW c \in calls, Record(c) PROVE TradeInv'
    <2>1. \A i \in 1..Len(queue') :
             queue'[i].table = "outcomes" /\ LiveTrade(queue'[i].outcome)
                 => queue'[i].outcome.exec \in ClosingDeals'
      BY <1>1, <1>6, Recorded, Queued DEF TradeInv
    <2> QED
      BY <1>1, <1>6, <2>1, Recorded DEF TradeInv, LiveTrade, LiveTradesClosing, dbVars
  <1>7. ASSUME NEW d \in Decision, SweepOne(d) PROVE TradeInv'
    <2>1. \A i \in 1..Len(queue') :
             queue'[i].table = "outcomes" /\ LiveTrade(queue'[i].outcome)
                 => queue'[i].outcome.exec \in ClosingDeals'
      <3>1. CASE queue' = queue
        BY <1>1, <3>1 DEF TradeInv
      <3>2. ASSUME NEW kind \in Evidence(d), Queues(Found(d, kind))
            PROVE  \A i \in 1..Len(queue') :
                      queue'[i].table = "outcomes" /\ LiveTrade(queue'[i].outcome)
                          => queue'[i].outcome.exec \in ClosingDeals'
        BY <1>1, <1>7, <3>2, Swept, Queued DEF TradeInv, LiveTrade
      <3> QED
        BY <1>7, <3>1, <3>2, Swept
    <2> QED
      BY <1>1, <1>7, <2>1, Swept DEF TradeInv, LiveTrade, LiveTradesClosing, dbVars
  <1> QED
    BY <1>2, <1>3, <1>4, <1>5, <1>6, <1>7, StepKinds

\* The live engine learns only from trades whose ticket has closing deals.
THEOREM LearnsFromClosedTrades == Spec => []LiveTradesClosing
  <1> DEFINE I == TypeInv /\ OrderInv /\ VanishedInv /\ TradeInv
  <1>1. Init => I
    <2>1. ASSUME Init PROVE OrderInv /\ VanishedInv /\ TradeInv
      BY <2>1 DEF Init, OrderInv, VanishedInv, TradeInv, LiveTrade, LiveTradesClosing
    <2> QED
      BY <2>1, TypeInit
  <1>2. I /\ [Next]_vars => I'
    BY TypeNext, OrderForward, VanishedNext, TradeNext
  <1>3. I => LiveTradesClosing
    BY DEF TradeInv
  <1> QED
    BY <1>1, <1>2, <1>3, PTL DEF Spec

\* A booked ticket stays booked, one row nearer to the table with every row drained.
LEMMA BookedMoves ==
    ASSUME TypeInv, NEW t \in Decision
    PROVE  /\ \A n \in 0..Len(queue) : \A r :
                 BookedWithin(ledger, queue, t, n) /\ Queues(r) /\ UNCHANGED dbVars
                     => BookedWithin(ledger', queue', t, n)
           /\ \A n \in 1..Len(queue) :
                 BookedWithin(ledger, queue, t, n) /\ Drain
                     => BookedWithin(ledger', queue', t, n - 1)
           /\ BookedWithin(ledger, queue, t, 0) /\ Drain => BookedWithin(ledger', queue', t, 0)
           /\ BookedWithin(ledger, queue, t, 0) => ledger[t] = "CLOSED"
  <1>1. ASSUME NEW n \in 0..Len(queue), NEW r, BookedWithin(ledger, queue, t, n), Queues(r),
               UNCHANGED dbVars
        PROVE  BookedWithin(ledger', queue', t, n)
    BY <1>1, Queued DEF BookedWithin, dbVars
  <1>2. ASSUME ledger[t] = "CLOSED" \/ queue[1] = Row("closed", t), Drain
        PROVE  ledger'[t] = "CLOSED"
    <2>1. Head(queue) = queue[1]
      BY <1>2, Drained
    <2>2. /\ Row("closed", t).table = "closed" /\ Row("closed", t).d = t
          /\ ledger \in [Decision -> {"NONE", "OPENED", "CLOSED"}]
      BY DEF Row, TypeInv, TypeOK
    <2> QED
      BY <1>2, <2>1, <2>2 DEF Drain
  <1>3. ASSUME NEW n \in 1..Len(queue), BookedWithin(ledger, queue, t, n), Drain
        PROVE  BookedWithin(ledger', queue', t, n - 1)
    <2>1. CASE ledger[t] = "CLOSED" \/ queue[1] = Row("closed", t)
      BY <1>2, <1>3, <2>1 DEF BookedWithin
    <2>2. ASSUME NEW j \in 2..n, queue[j] = Row("closed", t)
          PROVE  BookedWithin(ledger', queue', t, n - 1)
      <3>1. j - 1 \in 1..n - 1 /\ j - 1 \in 1..Len(queue')
        BY <1>3, <2>2, Drained
      <3>2. queue'[j - 1] = Row("closed", t)
        BY <1>3, <2>2, <3>1, Drained
      <3> QED
        BY <3>1, <3>2 DEF BookedWithin
    <2>3. \A j \in 1..n : j = 1 \/ j \in 2..n
      BY <1>3, Drained
    <2> QED
      BY <1>3, <2>1, <2>2, <2>3 DEF BookedWithin
  <1>4. BookedWithin(ledger, queue, t, 0) => ledger[t] = "CLOSED"
    BY DEF BookedWithin
  <1>5. ASSUME BookedWithin(ledger, queue, t, 0), Drain PROVE BookedWithin(ledger', queue', t, 0)
    BY <1>2, <1>4, <1>5 DEF BookedWithin
  <1> QED
    BY <1>1, <1>3, <1>4, <1>5

LEMMA BookedNext ==
    TypeInv /\ OrderInv /\ VanishedInv /\ TradeInv /\ BookedInv /\ [Next]_vars => BookedInv'
  <1> SUFFICES ASSUME TypeInv, OrderInv, VanishedInv, TradeInv, BookedInv, [Next]_vars
               PROVE  BookedInv'
    OBVIOUS
  <1> USE DEF LiveTrade
  <1>0. /\ \A c \in calls : LiveTrade(c) => c.exec \in Decision
        /\ \A i \in 1..Len(queue) :
              queue[i].table = "outcomes" /\ LiveTrade(queue[i].outcome)
                  => queue[i].outcome.exec \in Decision
        /\ Len(queue) \in Nat
    BY DEF TradeInv, ClosingDeals, TypeInv, TypeOK
  <1>1. CASE Restart
    BY <1>1 DEF Restart, BookedInv, BookedBeforeLearned, dbVars
  <1>2. CASE Drain
    <2>1. calls' = calls
      BY <1>2 DEF Drain, passVars
    <2>2. \A t \in Decision : BookedWithin(ledger, queue, t, Len(queue))
                               => BookedWithin(ledger', queue', t, Len(queue'))
      BY <1>2, Drained, BookedMoves
    <2>3. \A c \in calls' : LiveTrade(c) => BookedWithin(ledger', queue', c.exec, Len(queue'))
      BY <1>0, <2>1, <2>2 DEF BookedInv
    <2>4. ASSUME NEW i \in 1..Len(queue'), queue'[i].table = "outcomes",
                 LiveTrade(queue'[i].outcome)
          PROVE  BookedWithin(ledger', queue', queue'[i].outcome.exec, i - 1)
      <3>1. i + 1 \in 1..Len(queue) /\ queue'[i] = queue[i + 1]
        BY <1>2, <2>4, Drained
      <3>2. PICK t \in Decision : t = queue[i + 1].outcome.exec
        BY <1>0, <2>4, <3>1
      <3>3. BookedWithin(ledger, queue, t, i)
        BY <2>4, <3>1, <3>2 DEF BookedInv
      <3>4. i \in 1..Len(queue)
        BY <1>2, <2>4, Drained
      <3>5. BookedWithin(ledger', queue', t, i - 1)
        BY <1>2, <3>3, <3>4, BookedMoves
      <3> QED
        BY <3>1, <3>2, <3>5 DEF BookedWithin
    <2>5. ASSUME NEW d \in Decision, LiveTrade(outcomes'[d])
          PROVE  ledger'[outcomes'[d].exec] = "CLOSED"
      <3>1. CASE outcomes'[d] = outcomes[d]
        <4>1. PICK t \in Decision : t = outcomes[d].exec /\ ledger[t] = "CLOSED"
          BY <2>5, <3>1 DEF BookedInv, BookedBeforeLearned, TradeInv, LiveTradesClosing,
                            ClosingDeals
        <4> QED
          BY <1>2, <3>1, <4>1, BookedMoves DEF BookedWithin
      <3>2. CASE outcomes'[d] # outcomes[d]
        <4>1. /\ 1 \in 1..Len(queue) /\ queue[1].table = "outcomes"
              /\ queue[1].outcome = outcomes'[d]
          BY <1>2, <3>2, OutcomeWritten, Drained
        <4>2. PICK t \in Decision : t = queue[1].outcome.exec
          BY <1>0, <2>5, <4>1
        <4>3. BookedWithin(ledger, queue, t, 0)
          BY <2>5, <4>1, <4>2 DEF BookedInv
        <4>4. BookedWithin(ledger', queue', t, 0)
          BY <1>2, <4>3, BookedMoves
        <4> QED
          BY <4>1, <4>2, <4>4 DEF BookedWithin
      <3> QED
        BY <3>1, <3>2
    <2> QED
      BY <2>3, <2>4, <2>5 DEF BookedInv, BookedBeforeLearned
  <1>3. ASSUME NEW r, Queues(r), UNCHANGED dbVars,
               r.table = "outcomes" /\ LiveTrade(r.outcome) =>
                   /\ r.outcome.exec \in Decision
                   /\ BookedWithin(ledger, queue, r.outcome.exec, Len(queue)),
               \A c \in calls' : LiveTrade(c) => BookedWithin(ledger', queue', c.exec, Len(queue'))
        PROVE  BookedInv'
    <2>1. ASSUME NEW i \in 1..Len(queue'), queue'[i].table = "outcomes",
                 LiveTrade(queue'[i].outcome)
          PROVE  BookedWithin(ledger', queue', queue'[i].outcome.exec, i - 1)
      <3>1. CASE i \in 1..Len(queue)
        <4>1. queue'[i] = queue[i]
          BY <1>3, <3>1, Queued
        <4>2. PICK t \in Decision : t = queue[i].outcome.exec
          BY <1>0, <2>1, <3>1, <4>1
        <4>3. BookedWithin(ledger, queue, t, i - 1) /\ i - 1 \in 0..Len(queue)
          BY <1>0, <2>1, <3>1, <4>1, <4>2 DEF BookedInv
        <4>4. BookedWithin(ledger', queue', t, i - 1)
          BY <1>3, <4>3, BookedMoves
        <4> QED
          BY <4>1, <4>2, <4>4 DEF BookedWithin
      <3>2. CASE i = Len(queue) + 1
        <4>1. queue'[i] = r /\ i - 1 = Len(queue)
          BY <1>3, <3>2, Queued
        <4>2. PICK t \in Decision : t = r.outcome.exec
          BY <1>3, <2>1, <4>1
        <4>3. BookedWithin(ledger, queue, t, Len(queue))
          BY <1>3, <2>1, <4>1, <4>2
        <4>4. Len(queue) \in 0..Len(queue)
          BY <1>0
        <4>5. \A n \in 0..Len(queue) : BookedWithin(ledger, queue, t, n)
                                        => BookedWithin(ledger', queue', t, n)
          BY <1>3, BookedMoves
        <4>6. PICK n \in 0..Len(queue) : n = Len(queue)
          BY <4>4
        <4>7. BookedWithin(ledger', queue', t, n)
          BY <4>3, <4>5, <4>6
        <4> QED
          BY <4>1, <4>2, <4>6, <4>7 DEF BookedWithin
      <3> QED
        BY <1>0, <1>3, <3>1, <3>2, Queued
    <2> QED
      BY <1>3, <2>1 DEF BookedInv, BookedBeforeLearned, dbVars
  <1>4. ASSUME NEW c \in calls, LiveTrade(c), NEW r, Queues(r), UNCHANGED dbVars
        PROVE  BookedWithin(ledger', queue', c.exec, Len(queue'))
    <2>1. PICK t \in Decision : t = c.exec
      BY <1>0, <1>4
    <2>2. PICK n \in 0..Len(queue) : n = Len(queue)
      BY <1>0
    <2>3. BookedWithin(ledger', queue', t, n)
      BY <1>4, <2>1, <2>2, BookedMoves DEF BookedInv
    <2>4. n \in Nat /\ Len(queue') \in Nat /\ n <= Len(queue')
      BY <1>4, <2>2, Queued
    <2> QED
      BY <2>1, <2>3, <2>4 DEF BookedWithin
  <1>5. ASSUME queue' = queue, calls' \subseteq calls, UNCHANGED dbVars PROVE BookedInv'
    BY <1>5 DEF BookedInv, BookedWithin, BookedBeforeLearned, dbVars
  <1>6. CASE Learns
    <2>1. PICK t \in Decision : /\ Queues(Row("closed", t))
                                /\ \A c \in calls' : c.exec = t
                                /\ UNCHANGED dbVars
      BY <1>6 DEF Learns, ClosingDeals
    <2>2. BookedWithin(ledger', queue', t, Len(queue'))
      BY <1>0, <2>1, Queued DEF BookedWithin
    <2>3. Row("closed", t).table # "outcomes"
      BY DEF Row
    <2> QED
      BY <1>3, <2>1, <2>2, <2>3 DEF BookedWithin
  <1>7. CASE Quiet
    <2>1. UNCHANGED dbVars /\ \A c \in calls' : LiveTrade(c) => c \in calls
      BY <1>7 DEF Quiet
    <2>2. CASE queue' = queue
      BY <2>1, <2>2 DEF BookedInv, BookedWithin, BookedBeforeLearned, dbVars
    <2>3. ASSUME NEW r, Queues(r), r.table # "outcomes" PROVE BookedInv'
      BY <1>3, <1>4, <2>1, <2>3
    <2> QED
      BY <1>7, <2>2, <2>3 DEF Quiet
  <1>8. ASSUME NEW c \in calls, Record(c) PROVE BookedInv'
    <2>1. CASE queue' = queue
      BY <1>5, <1>8, <2>1, Recorded
    <2>2. CASE Queues(OutcomeRow(c))
      BY <1>0, <1>3, <1>4, <1>8, <2>2, Recorded DEF BookedInv
    <2> QED
      BY <1>8, <2>1, <2>2, Recorded
  <1>9. ASSUME NEW d \in Decision, SweepOne(d) PROVE BookedInv'
    <2>1. CASE queue' = queue
      BY <1>5, <1>9, <2>1, Swept
    <2>2. ASSUME NEW kind \in Evidence(d), Queues(Found(d, kind)) PROVE BookedInv'
      BY <1>3, <1>4, <1>9, <2>2, Swept
    <2> QED
      BY <1>9, <2>1, <2>2, Swept
  <1> QED
    BY <1>1, <1>2, <1>6, <1>7, <1>8, <1>9, StepKinds

\* A trade the live engine has learned from is booked as closed.
THEOREM LessonsAreBooked == Spec => []BookedBeforeLearned
  <1> DEFINE I == TypeInv /\ OrderInv /\ VanishedInv /\ TradeInv /\ BookedInv
  <1>1. Init => I
    <2>1. ASSUME Init PROVE OrderInv /\ VanishedInv /\ TradeInv /\ BookedInv
      BY <2>1 DEF Init, OrderInv, VanishedInv, TradeInv, LiveTrade, LiveTradesClosing,
                  BookedInv, BookedBeforeLearned
    <2> QED
      BY <2>1, TypeInit
  <1>2. I /\ [Next]_vars => I'
    BY TypeNext, OrderForward, VanishedNext, TradeNext, BookedNext
  <1>3. I => BookedBeforeLearned
    BY DEF BookedInv
  <1> QED
    BY <1>1, <1>2, <1>3, PTL DEF Spec

-----------------------------------------------------------------------------
(* The sweep tells the truth *)

\* The evidence the sweep has of a decision is true for good.
LEMMA EvidenceTrue ==
    ASSUME TypeInv, SweepInv, NEW d \in Decision, NEW kind \in Evidence(d),
           NEW o, o.d = d, o.kind = kind
    PROVE  TrueVerdict(o)
  <1>1. CASE d \notin orders
    BY <1>1 DEF Evidence, SweepInv, TrueVerdict
  <1>2. CASE d \in orders
    <2>1. order[d] \in {"closed", "gone"}
      BY <1>2 DEF Evidence, SweepInv
    <2> QED
      BY <1>2, <2>1 DEF Evidence, TrueVerdict
  <1> QED
    BY <1>1, <1>2

LEMMA TruthLasts ==
    ASSUME Forward, NEW o, o.d \in Decision, TrueVerdict(o)
    PROVE  TrueVerdict(o)'
  <1>1. /\ order[o.d] = "closed" => order'[o.d] = "closed"
        /\ order[o.d] = "gone" => order'[o.d] = "gone"
        /\ Refused(o.d) => Refused(o.d)'
    BY DEF Forward
  <1> QED
    BY <1>1 DEF TrueVerdict

LEMMA QueueContents ==
    ASSUME TypeInv
    PROVE  /\ \A o \in Verdicts(queue) : o \in Outcome
           /\ Rejections(queue) \subseteq Decision
           /\ \A r : Queues(r) =>
                 /\ \A o \in Verdicts(queue') : o \in Verdicts(queue)
                       \/ (o = r.outcome /\ r.table = "outcomes" /\ o.by = "sweep")
                 /\ \A d \in Rejections(queue') : d \in Rejections(queue)
                       \/ (d = r.d /\ r.table = "signals")
           /\ Drain => Verdicts(queue') \subseteq Verdicts(queue)
           /\ Drain => Rejections(queue') \subseteq Rejections(queue)
  <1>1. \A i \in 1..Len(queue) : queue[i] \in Rows
    BY DEF TypeInv, TypeOK
  <1>2. /\ \A o \in Verdicts(queue) : o \in Outcome
        /\ Rejections(queue) \subseteq Decision
    BY <1>1, RowFields DEF Verdicts, Rejections
  <1>3. ASSUME NEW r, Queues(r)
        PROVE  /\ \A o \in Verdicts(queue') : o \in Verdicts(queue)
                     \/ (o = r.outcome /\ r.table = "outcomes" /\ o.by = "sweep")
               /\ \A d \in Rejections(queue') : d \in Rejections(queue)
                     \/ (d = r.d /\ r.table = "signals")
    BY <1>3, Queued DEF Verdicts, Rejections
  <1>4. ASSUME Drain
        PROVE  /\ Verdicts(queue') \subseteq Verdicts(queue)
               /\ Rejections(queue') \subseteq Rejections(queue)
    <2>1. \A i \in 1..Len(queue') : i + 1 \in 1..Len(queue) /\ queue'[i] = queue[i + 1]
      BY <1>4, Drained
    <2> QED
      BY <2>1 DEF Verdicts, Rejections
  <1> QED
    BY <1>2, <1>3, <1>4

LEMMA SweepNext ==
    TypeInv /\ OrderInv /\ VanishedInv /\ SweepInv /\ [Next]_vars => SweepInv'
  <1> SUFFICES ASSUME TypeInv, OrderInv, VanishedInv, SweepInv, [Next]_vars PROVE SweepInv'
    OBVIOUS
  <1>1. /\ \A d \in signals \cup evident \cup Rejections(queue) : d \in Decision /\ Refused(d)'
        /\ \A d \in copy : order'[d] \in {"closed", "gone"}
        /\ \A d \in Decision : order[d] \in {"closed", "gone"} => order'[d] \in {"closed", "gone"}
        /\ \A o \in Verdicts(queue) \cup {outcomes[d] : d \in Written} : TrueVerdict(o)'
    <2>1. \A d \in Decision : /\ Refused(d) => Refused(d)'
                              /\ order[d] \in {"closed", "gone"} => order'[d] = order[d]
      BY OrderForward DEF Forward
    <2>2. /\ signals \subseteq Decision /\ evident \subseteq Decision /\ copy \subseteq Decision
          /\ Rejections(queue) \subseteq Decision
      BY QueueContents DEF TypeInv, TypeOK
    <2>3. \A o \in Verdicts(queue) \cup {outcomes[d] : d \in Written} : o.d \in Decision
      BY QueueContents DEF Written, TypeInv, TypeOK, Outcome
    <2>4. Forward
      BY OrderForward
    <2> QED
      BY <2>1, <2>2, <2>3, <2>4, TruthLasts DEF SweepInv
  <1>2. CASE Restart
    <2>1. /\ UNCHANGED <<signals, outcomes, copy>> /\ evident' = {} /\ queue' = <<>> /\ calls' = {}
      BY <1>2 DEF Restart, dbVars
    <2>2. Verdicts(queue') = {} /\ Rejections(queue') = {}
      BY <2>1 DEF Verdicts, Rejections
    <2> QED
      BY <1>1, <2>1, <2>2 DEF SweepInv, Written
  \* A step that writes no outcome and queues what is true.
  <1>3. ASSUME \A o \in Verdicts(queue') : o \in Verdicts(queue) \/ TrueVerdict(o)',
               \A d \in signals' \cup evident' \cup Rejections(queue') :
                  d \in signals \cup evident \cup Rejections(queue) \/ Refused(d)',
               \A d \in copy' : d \in copy \/ (d \in Decision /\ order[d] \in {"closed", "gone"}),
               \A c \in calls' : c \in calls \/ c.by = "live",
               outcomes' = outcomes
        PROVE  SweepInv'
    BY <1>1, <1>3 DEF SweepInv, Written
  <1>4. CASE Drain
    <2>1. /\ Verdicts(queue') \subseteq Verdicts(queue)
          /\ Rejections(queue') \subseteq Rejections(queue)
          /\ calls' = calls /\ copy' = copy /\ evident' = evident
      BY <1>4, QueueContents DEF Drain, passVars, sweepVars
    <2>2. signals' \subseteq signals \cup Rejections(queue)
      BY <1>4, Drained DEF Drain, Rejections
    <2>3. ASSUME NEW d \in Written'
          PROVE  /\ outcomes'[d].d = d
                 /\ outcomes'[d] \in Verdicts(queue) \cup {outcomes[e] : e \in Written}
      <3>1. d \in Decision /\ outcomes'[d] # NoOutcome /\ outcomes'[d].by = "sweep"
        BY <2>3 DEF Written
      <3>2. CASE outcomes'[d] = outcomes[d]
        BY <3>1, <3>2 DEF SweepInv, Written
      <3>3. CASE outcomes'[d] # outcomes[d]
        BY <1>4, <3>1, <3>3, OutcomeWritten, Drained DEF Verdicts
      <3> QED
        BY <3>2, <3>3
    <2>4. \A d \in signals' \cup evident' \cup Rejections(queue') : Refused(d)'
      BY <1>1, <2>1, <2>2
    <2>5. \A o \in Verdicts(queue') \cup {outcomes'[d] : d \in Written'} : TrueVerdict(o)'
      BY <1>1, <2>1, <2>3
    <2> QED
      BY <1>1, <2>1, <2>3, <2>4, <2>5 DEF SweepInv
  <1>5. CASE Learns
    <2>1. PICK t \in Decision : /\ Queues(Row("closed", t))
                                /\ \A c \in calls' : c.by = "live"
                                /\ UNCHANGED <<dbVars, sweepVars>>
      BY <1>5 DEF Learns, ClosingDeals
    <2>2. Row("closed", t).table = "closed"
      BY DEF Row
    <2> QED
      BY <1>3, <2>1, <2>2, QueueContents DEF dbVars, sweepVars
  <1>6. CASE Quiet
    <2>1. \A d \in copy' : d \in Decision
      BY TypeNext DEF TypeInv, TypeOK
    <2>2. /\ \A o \in Verdicts(queue') : o \in Verdicts(queue)
          /\ \A d \in Rejections(queue') : d \in Rejections(queue) \/ Refused(d)'
      BY <1>6, QueueContents DEF Quiet
    <2> QED
      BY <1>3, <1>6, <2>1, <2>2 DEF Quiet, dbVars
  <1>7. ASSUME NEW c \in calls, Record(c) PROVE SweepInv'
    <2>1. OutcomeRow(c).table = "outcomes" /\ OutcomeRow(c).outcome = c /\ c.by = "live"
      BY <1>7, Recorded DEF SweepInv
    <2>2. /\ \A o \in Verdicts(queue') : o \in Verdicts(queue)
          /\ Rejections(queue') \subseteq Rejections(queue)
      BY <1>7, <2>1, Recorded, QueueContents
    <2> QED
      BY <1>3, <1>7, <2>2, Recorded DEF dbVars, sweepVars
  <1>8. ASSUME NEW d \in Decision, SweepOne(d) PROVE SweepInv'
    <2>1. ASSUME NEW kind \in Evidence(d), Queues(Found(d, kind)), NEW o \in Verdicts(queue')
          PROVE  o \in Verdicts(queue) \/ TrueVerdict(o)'
      <3>1. o \in Verdicts(queue) \/ (o.d = d /\ o.kind = kind)
        BY <1>8, <2>1, Swept, QueueContents
      <3>2. ASSUME o.d = d, o.kind = kind PROVE TrueVerdict(o)'
        BY <2>1, <3>2, EvidenceTrue, OrderForward, TruthLasts
      <3> QED
        BY <3>1, <3>2
    <2>2. \A o \in Verdicts(queue') : o \in Verdicts(queue) \/ TrueVerdict(o)'
      BY <1>8, <2>1, Swept
    <2>3. Rejections(queue') \subseteq Rejections(queue)
      <3>1. ASSUME NEW kind \in Evidence(d), Queues(Found(d, kind))
            PROVE  Rejections(queue') \subseteq Rejections(queue)
        <4>1. Found(d, kind).table # "signals"
          BY <1>8, <3>1, Swept
        <4> QED
          BY <3>1, <4>1, QueueContents
      <3> QED
        BY <1>8, <3>1, Swept
    <2> QED
      BY <1>3, <1>8, <2>2, <2>3, Swept DEF dbVars
  <1> QED
    BY <1>2, <1>4, <1>5, <1>6, <1>7, <1>8, StepKinds

\* What the recovery sweep writes of a decision is what became of it.
THEOREM SweepIsTruthful == Spec => []SweepTellsTheTruth
  <1> DEFINE I == TypeInv /\ OrderInv /\ VanishedInv /\ SweepInv
  <1>1. Init => I
    <2>1. ASSUME Init PROVE OrderInv /\ VanishedInv /\ SweepInv
      BY <2>1 DEF Init, OrderInv, VanishedInv, SweepInv, Verdicts, Rejections, Written
    <2> QED
      BY <2>1, TypeInit
  <1>2. I /\ [Next]_vars => I'
    BY TypeNext, OrderForward, VanishedNext, SweepNext
  <1>3. I => SweepTellsTheTruth
    <2>1. SUFFICES ASSUME I, NEW d \in Written
                   PROVE  order[d] = CASE outcomes[d].kind = "trade" -> "closed"
                                       [] outcomes[d].kind \in {"canceled", "expired"} -> "gone"
                                       [] OTHER -> "none"
      BY DEF SweepTellsTheTruth, Written
    <2>2. outcomes[d].d = d /\ TrueVerdict(outcomes[d])
      BY <2>1 DEF SweepInv
    <2>3. d \in Decision /\ (Refused(d) => order[d] = "none")
      BY <2>1 DEF Written, OrderInv, Refused
    <2> QED
      BY <2>2, <2>3 DEF TrueVerdict
  <1> QED
    BY <1>1, <1>2, <1>3, PTL DEF Spec

\* The first outcome of a decision is its only one.
THEOREM OutcomesStand == Spec => FirstOutcomeStands
  <1>1. TypeInv /\ [Next]_vars =>
           [\A d \in Decision : outcomes[d] # NoOutcome => outcomes'[d] = outcomes[d]]_vars
    <2> SUFFICES ASSUME TypeInv, [Next]_vars, NEW d \in Decision, outcomes[d] # NoOutcome
                 PROVE  outcomes'[d] = outcomes[d]
      OBVIOUS
    <2>1. CASE Drain
      <3>1. outcomes' = Stored(Head(queue)) /\ Head(queue) \in Rows
        BY <2>1, Drained DEF Drain
      <3>2. Head(queue).table = "outcomes" => Head(queue).outcome.d \in Decision
        BY <3>1, RowFields DEF Outcome
      <3> QED
        BY <3>1, <3>2 DEF Stored, TypeInv, TypeOK
    <2>2. CASE UNCHANGED dbVars
      BY <2>2 DEF dbVars
    <2>3. CASE UNCHANGED vars
      BY <2>3 DEF vars, dbVars
    <2> QED
      BY <2>1, <2>2, <2>3
      DEF Next, Tick, Sweep, BrokerMoves, ReadPositions, Rebuild, Compare, CancelStale,
          BookMissed, Autopsy, Track, EndMissed, EndPass, Propose, GateRejects,
          RefusedInSilence, RefuseDispatch, BlockDuplicate, SendMarket, SendPending, Send,
          Record, Sync, SweepStart, SweepOne, Restart
  <1> QED
    BY <1>1, TypeInit, TypeNext, PTL DEF Spec, FirstOutcomeStands
-----------------------------------------------------------------------------
(* A refusal is not forgotten *)

\* The outcome of decision d is written, called for or queued.
Coming(d) ==
    \/ outcomes[d] # NoOutcome
    \/ \E c \in calls : c.d = d /\ c.kind = "unsent"
    \/ \E i \in 1..Len(queue) : queue[i].table = "outcomes" /\ queue[i].outcome.d = d

\* A start-up sweep will find it without an outcome, or has, and with the evidence
\* that it was not sent.
SweptSoon(d) == (sweepDue /\ d \in experiences) \/ d \in (orphans \cap evident) \ orders

\* A decision whose gate rejection is on record is never forgotten (BUG-169, BUG-174):
\* its outcome is there or coming, or a start-up sweep will supply it, or the sweep
\* of this process had no room for it.
Pursued(d) == SweptSoon(d) \/ d \in beyond
RefusalsRemembered == \A d \in signals : Coming(d) \/ Pursued(d)

\* The decision row of d is in the table e, or one of the first n in the queue q.
RowWithin(e, q, d, n) == d \in e \/ \E j \in 1..n : q[j] = Row("experiences", d)

\* The decision row is ahead of whatever depends on it.
DecidedInv ==
    /\ signals \subseteq experiences
    /\ \A i \in 1..Len(queue) : queue[i].table = "signals" =>
          RowWithin(experiences, queue, queue[i].d, i - 1)
    /\ \A c \in calls : c.kind = "unsent" => RowWithin(experiences, queue, c.d, Len(queue))
    /\ step \in {"gate", "again"} => RowWithin(experiences, queue, cand, Len(queue))

\* A dispatch row is of a decision that was sent.
SentInv ==
    /\ \A d \in orders : stage[d] = "sent"
    /\ \A i \in 1..Len(queue) : queue[i].table = "orders" => stage[queue[i].d] = "sent"

RefusedInv ==
    /\ \A d \in Rejections(queue) : Coming(d)
    /\ RefusalsRemembered

\* No outcome and no rejection is queued, no call ends, no table changes; an unsent
\* decision was in the gates, and one that gets there has its row queued.
Aside ==
    /\ calls \subseteq calls'
    /\ \A c \in calls' \ calls : c.kind = "unsent" => step \in {"gate", "again"} /\ c.d = cand
    /\ \/ queue' = queue
       \/ \E r : /\ Queues(r) /\ r.table \notin {"outcomes", "signals"}
                 /\ r.table = "orders" => stage'[r.d] = "sent"
    /\ step' \in {"gate", "again"} =>
          \/ step \in {"gate", "again"} /\ cand' = cand
          \/ cand' \in Decision /\ Queues(Row("experiences", cand'))
    /\ UNCHANGED <<dbVars, sweepDue, orphans, beyond, evident>>

LEMMA SendAside ==
    ASSUME TypeInv, NEW o, NEW placed, Send(o, placed)
    PROVE  Aside
  <1>1. /\ cand \in Decision /\ calls = {} /\ step \in {"gate", "again"}
        /\ stage' = [stage EXCEPT ![cand] = "sent"]
        /\ stage \in [Decision -> {"new", "proposed", "sent"}]
    BY DEF Send, Passes, At, TypeInv, TypeOK, GateInv
  <1>2. \A c \in calls' : c.kind # "unsent"
    BY <1>1 DEF Send, Ended
  <1>3. queue' = queue \/ queue' = Append(queue, Row("orders", cand))
    BY DEF Send
  <1>4. /\ Row("orders", cand) \in Rows
        /\ Row("orders", cand).table = "orders" /\ Row("orders", cand).d = cand
    BY <1>1, RowTypes DEF Row
  <1>5. stage'[cand] = "sent"
    BY <1>1
  <1>6. \/ queue' = queue
        \/ \E r : /\ Queues(r) /\ r.table \notin {"outcomes", "signals"}
                  /\ r.table = "orders" => stage'[r.d] = "sent"
    BY <1>3, <1>4, <1>5 DEF Queues
  <1>7. step' = "again" => cand' = cand
    BY DEF Send, Return
  <1>8. step' \in {"begin", "again"}
    BY DEF Send, Return
  <1>9. UNCHANGED <<dbVars, sweepDue, orphans, beyond, evident>>
    BY DEF Send, sweepVars
  <1> QED
    BY <1>1, <1>2, <1>6, <1>7, <1>8, <1>9 DEF Aside

LEMMA RefusalSteps ==
    ASSUME TypeInv, [Next]_vars
    PROVE  \/ Restart \/ Drain \/ GateRejects \/ SweepStart \/ Aside
           \/ \E c \in calls : Record(c)
           \/ \E d \in Decision : SweepOne(d)
  <1> USE DEF dbVars, sweepVars
  <1>1. ASSUME calls' = calls \/ calls = {}, \A c \in calls' \ calls : c.kind # "unsent",
               queue' = queue,
               step' \in {"gate", "again"} => step' = step /\ cand' = cand,
               UNCHANGED <<dbVars, sweepDue, orphans, beyond, evident>>
        PROVE  Aside
    BY <1>1 DEF Aside
  <1>2. ASSUME NEW d \in Decision, BrokerMoves(d) PROVE Aside
    BY <1>1, <1>2 DEF BrokerMoves, passVars, entryVars
  <1>3. CASE ReadPositions \/ Rebuild \/ EndMissed \/ EndPass
    BY <1>1, <1>3 DEF ReadPositions, Rebuild, EndMissed, EndPass, entryVars
  <1>4. CASE Compare
    <2>1. \A c \in calls' \ calls : c.kind # "unsent"
      BY <1>4, VanishedType DEF Compare, TypeInv
    <2> QED
      BY <1>1, <1>4, <2>1 DEF Compare, At
  <1>5. ASSUME NEW d \in Decision, CancelStale(d) PROVE Aside
    <2>1. TypeOK /\ {d} \in SUBSET Decision
      BY DEF TypeInv
    <2>2. PICK kind \in {"expired", "canceled"} :
             calls' = EndOfPendings({d}, kind) \cup Vanished(order')
      BY <1>5 DEF CancelStale
    <2>3. \A c \in calls' : c.kind # "unsent"
      BY <2>1, <2>2, VanishedType, EndOfPendingsType
    <2> QED
      BY <1>1, <1>5, <2>3 DEF CancelStale, Idle, At
  <1>6. ASSUME calls' = calls \/ calls = {}, \A c \in calls' \ calls : c.kind # "unsent",
               NEW r \in Rows, r.table \notin {"outcomes", "signals", "orders"},
               queue' = Append(queue, r),
               step' \in {"gate", "again"} =>
                  \/ step' = step /\ cand' = cand
                  \/ cand' \in Decision /\ r = Row("experiences", cand'),
               UNCHANGED <<dbVars, sweepVars>>
        PROVE  Aside
    BY <1>6 DEF Aside, Queues
  <1>7. ASSUME NEW t \in Decision, BookMissed(t) \/ Autopsy(t) PROVE Aside
    <2>1. PICK b : calls' = TradeOf(t, b) /\ queue' = Append(queue, Row("closed", t))
      BY <1>7 DEF BookMissed, Autopsy, Booked
    <2>2. \A c \in calls' : c.kind # "unsent"
      BY <2>1 DEF TradeOf, Ended
    <2>3. Row("closed", t) \in Rows /\ Row("closed", t).table = "closed"
      BY RowTypes DEF Row
    <2> QED
      BY <1>6, <1>7, <2>1, <2>2, <2>3 DEF BookMissed, Autopsy, At
  <1>8. ASSUME NEW t \in Decision, Track(t) PROVE Aside
    <2>1. PICK d \in Source(t) : queue' = Append(queue, OpenedRow(t, d))
      BY <1>8 DEF Track
    <2>2. d \in Decision \cup {Nobody}
      BY <2>1 DEF Source, Staged, TypeInv, TypeOK
    <2>3. OpenedRow(t, d) \in Rows /\ OpenedRow(t, d).table = "opened"
      BY <2>2, RowTypes DEF OpenedRow
    <2> QED
      BY <1>6, <1>8, <2>1, <2>3 DEF Track, At
  <1>9. ASSUME NEW d \in Decision, Propose(d) PROVE Aside
    <2>1. Row("experiences", d) \in Rows /\ Row("experiences", d).table = "experiences"
      BY RowTypes DEF Row
    <2> QED
      BY <1>6, <1>9, <2>1 DEF Propose
  <1>10. CASE RefusedInSilence \/ BlockDuplicate
    BY <1>1, <1>10 DEF RefusedInSilence, BlockDuplicate
  <1>11. CASE RefuseDispatch
    <2>1. step \in {"gate", "again"} /\ calls = {}
      BY <1>11 DEF RefuseDispatch, At
    <2>2. \A c \in calls' : c.d = cand
      BY <1>11 DEF RefuseDispatch, Unsent, Ended
    <2>3. step' \in {"gate", "again"} => cand' = cand
      BY <1>11 DEF RefuseDispatch, Return
    <2> QED
      BY <1>11, <2>1, <2>2, <2>3 DEF RefuseDispatch, Aside
  <1>12. CASE SendMarket \/ SendPending
    BY <1>12, SendAside DEF SendMarket, SendPending
  <1>13. CASE Sync
    BY <1>1, <1>13 DEF Sync, passVars, entryVars
  <1>14. CASE UNCHANGED vars
    BY <1>1, <1>14 DEF vars, passVars, entryVars
  <1> QED
    BY <1>2, <1>3, <1>4, <1>5, <1>7, <1>8, <1>9, <1>10, <1>11, <1>12, <1>13, <1>14
    DEF Next, Tick, Sweep

\* A queued decision row stays ahead, one row nearer to the table with every row drained.
LEMMA RowMoves ==
    ASSUME TypeInv, NEW d \in Decision
    PROVE  /\ \A n \in 0..Len(queue) : \A r :
                 RowWithin(experiences, queue, d, n) /\ Queues(r) /\ UNCHANGED dbVars
                     => RowWithin(experiences', queue', d, n)
           /\ \A n \in 1..Len(queue) :
                 RowWithin(experiences, queue, d, n) /\ Drain
                     => RowWithin(experiences', queue', d, n - 1)
           /\ RowWithin(experiences, queue, d, 0) => d \in experiences
           /\ Drain => experiences \subseteq experiences'
  <1>1. ASSUME NEW n \in 0..Len(queue), NEW r, RowWithin(experiences, queue, d, n), Queues(r),
               UNCHANGED dbVars
        PROVE  RowWithin(experiences', queue', d, n)
    BY <1>1, Queued DEF RowWithin, dbVars
  <1>2. ASSUME d \in experiences \/ queue[1] = Row("experiences", d), Drain
        PROVE  d \in experiences'
    <2>1. Head(queue) = queue[1]
      BY <1>2, Drained
    <2>2. Row("experiences", d).table = "experiences" /\ Row("experiences", d).d = d
      BY DEF Row
    <2> QED
      BY <1>2, <2>1, <2>2 DEF Drain
  <1>3. ASSUME NEW n \in 1..Len(queue), RowWithin(experiences, queue, d, n), Drain
        PROVE  RowWithin(experiences', queue', d, n - 1)
    <2>1. CASE d \in experiences \/ queue[1] = Row("experiences", d)
      BY <1>2, <1>3, <2>1 DEF RowWithin
    <2>2. ASSUME NEW j \in 2..n, queue[j] = Row("experiences", d)
          PROVE  RowWithin(experiences', queue', d, n - 1)
      <3>1. j - 1 \in 1..n - 1 /\ j - 1 \in 1..Len(queue')
        BY <1>3, <2>2, Drained
      <3>2. queue'[j - 1] = Row("experiences", d)
        BY <1>3, <2>2, <3>1, Drained
      <3> QED
        BY <3>1, <3>2 DEF RowWithin
    <2>3. \A j \in 1..n : j = 1 \/ j \in 2..n
      BY <1>3, Drained
    <2> QED
      BY <1>3, <2>1, <2>2, <2>3 DEF RowWithin
  <1>4. RowWithin(experiences, queue, d, 0) => d \in experiences
    BY DEF RowWithin
  <1>5. Drain => experiences \subseteq experiences'
    BY DEF Drain
  <1> QED
    BY <1>1, <1>3, <1>4, <1>5

\* Whether or not a row joins the queue.
LEMMA RowKept ==
    ASSUME TypeInv, NEW d \in Decision, RowWithin(experiences, queue, d, Len(queue)),
           queue' = queue \/ \E r : Queues(r), UNCHANGED dbVars
    PROVE  RowWithin(experiences', queue', d, Len(queue'))
  <1>1. PICK n \in 0..Len(queue) : n = Len(queue)
    BY DEF TypeInv, TypeOK
  <1>2. CASE queue' = queue
    BY <1>2 DEF RowWithin, dbVars
  <1>3. ASSUME NEW r, Queues(r) PROVE RowWithin(experiences', queue', d, Len(queue'))
    <2>1. RowWithin(experiences', queue', d, n)
      BY <1>1, <1>3, RowMoves
    <2>2. n \in Nat /\ Len(queue') = n + 1
      BY <1>1, <1>3, Queued
    <2>3. \A j \in 1..n : j \in 1..(n + 1)
      BY <2>2
    <2> QED
      BY <2>1, <2>2, <2>3 DEF RowWithin
  <1> QED
    BY <1>2, <1>3

LEMMA DecidedNext == TypeInv /\ DecidedInv /\ [Next]_vars => DecidedInv'
  <1> SUFFICES ASSUME TypeInv, DecidedInv, [Next]_vars PROVE DecidedInv'
    OBVIOUS
  <1>0. /\ \A c \in calls : c.d \in Decision
        /\ \A i \in 1..Len(queue) : queue[i] \in Rows
        /\ step \in {"gate", "again"} => cand \in Decision
        /\ Len(queue) \in Nat
    BY DEF TypeInv, TypeOK, GateInv, Outcome
  <1>1. CASE Restart
    BY <1>1 DEF Restart, DecidedInv, dbVars
  \* A step that queues what depends on no decision row, or on one that is ahead.
  <1>2. ASSUME UNCHANGED dbVars,
               \/ queue' = queue
               \/ \E r : Queues(r) /\ (r.table = "signals" =>
                     r.d \in Decision /\ RowWithin(experiences, queue, r.d, Len(queue)))
        PROVE  /\ (signals \subseteq experiences)'
               /\ \A i \in 1..Len(queue') : queue'[i].table = "signals" =>
                     RowWithin(experiences', queue', queue'[i].d, i - 1)
               /\ \A d \in Decision : RowWithin(experiences, queue, d, Len(queue)) =>
                     RowWithin(experiences', queue', d, Len(queue'))
    <2>1. signals' \subseteq experiences'
      BY <1>2 DEF DecidedInv, dbVars
    <2>2. \A d \in Decision : RowWithin(experiences, queue, d, Len(queue)) =>
             RowWithin(experiences', queue', d, Len(queue'))
      BY <1>2, RowKept
    <2>3. CASE queue' = queue
      BY <1>2, <2>1, <2>2, <2>3 DEF DecidedInv, RowWithin, dbVars
    <2>4. ASSUME NEW r, Queues(r), r.table = "signals" =>
                    r.d \in Decision /\ RowWithin(experiences, queue, r.d, Len(queue)),
                 NEW i \in 1..Len(queue'), queue'[i].table = "signals"
          PROVE  RowWithin(experiences', queue', queue'[i].d, i - 1)
      <3>1. CASE i \in 1..Len(queue)
        <4>1. queue'[i] = queue[i]
          BY <2>4, <3>1, Queued
        <4>2. PICK d \in Decision : d = queue[i].d
          BY <1>0, <2>4, <3>1, <4>1, RowFields
        <4>3. RowWithin(experiences, queue, d, i - 1) /\ i - 1 \in 0..Len(queue)
          BY <1>0, <2>4, <3>1, <4>1, <4>2 DEF DecidedInv
        <4>4. RowWithin(experiences', queue', d, i - 1)
          BY <1>2, <2>4, <4>3, RowMoves
        <4> QED
          BY <4>1, <4>2, <4>4
      <3>2. CASE i = Len(queue) + 1
        <4>1. queue'[i] = r /\ i - 1 = Len(queue)
          BY <1>0, <2>4, <3>2, Queued
        <4>2. PICK d \in Decision : d = r.d /\ RowWithin(experiences, queue, d, Len(queue))
          BY <2>4, <4>1
        <4>3. PICK n \in 0..Len(queue) : n = Len(queue)
          BY <1>0
        <4>4. RowWithin(experiences', queue', d, n)
          BY <1>2, <2>4, <4>2, <4>3, RowMoves
        <4> QED
          BY <4>1, <4>2, <4>3, <4>4
      <3> QED
        BY <1>0, <2>4, <3>1, <3>2, Queued
    <2> QED
      BY <1>2, <2>1, <2>2, <2>3, <2>4
  <1>3. CASE Drain
    <2>1. calls' = calls /\ step' = step /\ cand' = cand
      BY <1>3 DEF Drain, passVars, entryVars
    <2>2. /\ Len(queue) \in 1..Len(queue) /\ Len(queue') = Len(queue) - 1
          /\ \A i \in 1..Len(queue') : i + 1 \in 1..Len(queue) /\ queue'[i] = queue[i + 1]
          /\ queue[1] \in Rows
      BY <1>3, Drained
    <2>3. \A d \in Decision : RowWithin(experiences, queue, d, Len(queue)) =>
             RowWithin(experiences', queue', d, Len(queue'))
      BY <1>3, <2>2, RowMoves
    <2>4. \A c \in calls' : c.kind = "unsent" =>
             RowWithin(experiences', queue', c.d, Len(queue'))
      BY <1>0, <2>1, <2>3 DEF DecidedInv
    <2>5. step' \in {"gate", "again"} => RowWithin(experiences', queue', cand', Len(queue'))
      BY <1>0, <2>1, <2>3 DEF DecidedInv
    <2>6. ASSUME NEW i \in 1..Len(queue'), queue'[i].table = "signals"
          PROVE  RowWithin(experiences', queue', queue'[i].d, i - 1)
      <3>1. i + 1 \in 1..Len(queue) /\ queue'[i] = queue[i + 1] /\ i \in 1..Len(queue)
        BY <1>0, <2>2, <2>6
      <3>2. PICK d \in Decision : d = queue[i + 1].d
        BY <1>0, <2>6, <3>1, RowFields
      <3>3. RowWithin(experiences, queue, d, (i + 1) - 1) /\ (i + 1) - 1 = i
        BY <2>6, <3>1, <3>2 DEF DecidedInv
      <3>4. RowWithin(experiences', queue', d, i - 1)
        BY <1>3, <3>1, <3>3, RowMoves
      <3> QED
        BY <3>1, <3>2, <3>4
    <2>7. ASSUME NEW d \in signals' PROVE d \in experiences'
      <3>1. CASE d \in signals
        BY <1>3, <3>1 DEF Drain, DecidedInv
      <3>2. CASE queue[1].table = "signals" /\ queue[1].d = d
        <4>1. d \in Decision
          BY <2>2, <3>2, RowFields
        <4>2. 1 \in 1..Len(queue)
          BY <2>2
        <4>3. RowWithin(experiences, queue, d, 1 - 1)
          BY <3>2, <4>2 DEF DecidedInv
        <4>4. d \in experiences
          BY <4>1, <4>3, RowMoves
        <4> QED
          BY <1>3, <4>1, <4>4, RowMoves
      <3>3. Head(queue) = queue[1]
        BY <1>3, Drained
      <3> QED
        BY <1>3, <2>7, <3>1, <3>2, <3>3 DEF Drain
    <2> QED
      BY <2>4, <2>5, <2>6, <2>7 DEF DecidedInv
  <1>4. CASE GateRejects
    <2>1. PICK d \in Decision : d = cand /\ RowWithin(experiences, queue, d, Len(queue))
      BY <1>0, <1>4 DEF GateRejects, At, DecidedInv
    <2>2. /\ Row("signals", d) \in Rows
          /\ Row("signals", d).d = d
      BY RowTypes DEF Row
    <2>3. Queues(Row("signals", d)) /\ UNCHANGED dbVars /\ step' = "begin"
      BY <1>4, <2>1, <2>2 DEF GateRejects, Queues
    <2>4. \A c \in calls' : c.d = d
      BY <1>4, <2>1 DEF GateRejects, Unsent, Ended
    <2> QED
      BY <1>2, <2>1, <2>2, <2>3, <2>4 DEF DecidedInv
  <1>5. CASE SweepStart
    <2>1. UNCHANGED <<queue, calls, step, cand, dbVars>>
      BY <1>5 DEF SweepStart, passVars, entryVars
    <2> QED
      BY <2>1 DEF DecidedInv, RowWithin, dbVars
  <1>6. CASE Aside
    <2>1. /\ UNCHANGED dbVars
          /\ queue' = queue \/ \E r : Queues(r) /\ r.table # "signals"
      BY <1>6 DEF Aside
    <2>2. \A c \in calls' : c.kind = "unsent" =>
             RowWithin(experiences', queue', c.d, Len(queue'))
      BY <1>0, <1>2, <1>6, <2>1 DEF Aside, DecidedInv
    <2>3. ASSUME step' \in {"gate", "again"}
          PROVE  RowWithin(experiences', queue', cand', Len(queue'))
      <3>1. CASE step \in {"gate", "again"} /\ cand' = cand
        BY <1>0, <1>2, <2>1, <3>1 DEF DecidedInv
      <3>2. CASE cand' \in Decision /\ Queues(Row("experiences", cand'))
        <4>1. /\ Len(queue') \in 1..Len(queue')
              /\ queue'[Len(queue')] = Row("experiences", cand')
          BY <1>0, <3>2, Queued
        <4> QED
          BY <4>1 DEF RowWithin
      <3> QED
        BY <1>6, <2>3, <3>1, <3>2 DEF Aside
    <2> QED
      BY <1>2, <2>1, <2>2, <2>3 DEF DecidedInv
  <1>7. ASSUME NEW c \in calls, Record(c) PROVE DecidedInv'
    <2>1. /\ UNCHANGED dbVars /\ calls' \subseteq calls /\ step' = step /\ cand' = cand
          /\ queue' = queue \/ \E r : Queues(r) /\ r.table # "signals"
      BY <1>7, Recorded DEF Record, entryVars
    <2> QED
      BY <1>0, <1>2, <2>1 DEF DecidedInv
  <1>8. ASSUME NEW d \in Decision, SweepOne(d) PROVE DecidedInv'
    <2>1. /\ UNCHANGED dbVars /\ calls' = calls /\ step' = step /\ cand' = cand
          /\ queue' = queue \/ \E r : Queues(r) /\ r.table # "signals"
      BY <1>8, Swept DEF SweepOne, entryVars, passVars
    <2> QED
      BY <1>0, <1>2, <2>1 DEF DecidedInv
  <1> QED
    BY <1>1, <1>3, <1>4, <1>5, <1>6, <1>7, <1>8, RefusalSteps

\* A decision that was sent stays so.
LEMMA SentLasts ==
    TypeInv /\ [Next]_vars => \A d \in Decision : stage[d] = "sent" => stage'[d] = "sent"
  <1> SUFFICES ASSUME TypeInv, [Next]_vars, NEW d \in Decision, stage[d] = "sent"
               PROVE  stage'[d] = "sent"
    OBVIOUS
  <1>1. ASSUME NEW e \in Decision, Propose(e) PROVE stage'[d] = "sent"
    BY <1>1 DEF Propose, TypeInv, TypeOK
  <1>2. CASE SendMarket \/ SendPending
    BY <1>2 DEF SendMarket, SendPending, Send, Passes, At, TypeInv, TypeOK, GateInv
  <1>3. CASE stage' = stage
    BY <1>3
  <1> QED
    BY <1>1, <1>2, <1>3
    DEF Next, Tick, Sweep, BrokerMoves, ReadPositions, Rebuild, Compare, CancelStale, BookMissed,
        Autopsy, Track, EndMissed, EndPass, GateRejects, RefusedInSilence, RefuseDispatch,
        BlockDuplicate, Record, Drain, Sync, SweepStart, SweepOne, Restart, entryVars, vars

LEMMA SentNext == TypeInv /\ SentInv /\ [Next]_vars => SentInv'
  <1> SUFFICES ASSUME TypeInv, SentInv, [Next]_vars PROVE SentInv'
    OBVIOUS
  <1>0. /\ \A d \in Decision : stage[d] = "sent" => stage'[d] = "sent"
        /\ orders \subseteq Decision /\ Len(queue) \in Nat
        /\ \A i \in 1..Len(queue) : queue[i] \in Rows
    BY SentLasts DEF TypeInv, TypeOK
  <1>1. CASE Restart
    BY <1>0, <1>1 DEF Restart, SentInv, dbVars
  <1>2. CASE Drain
    <2>1. \A i \in 1..Len(queue') : i + 1 \in 1..Len(queue) /\ queue'[i] = queue[i + 1]
      BY <1>2, Drained
    <2>2. /\ 1 \in 1..Len(queue) /\ Head(queue) = queue[1]
      BY <1>2, Drained
    <2>3. \A d \in orders' : d \in orders \/ (queue[1].table = "orders" /\ queue[1].d = d)
      BY <1>2, <2>2 DEF Drain
    <2>4. \A i \in 1..Len(queue) : queue[i].table = "orders" =>
             queue[i].d \in Decision /\ stage'[queue[i].d] = "sent"
      BY <1>0, RowFields DEF SentInv
    <2>5. \A d \in orders' : stage'[d] = "sent"
      BY <1>0, <2>2, <2>3, <2>4 DEF SentInv
    <2> QED
      BY <2>1, <2>4, <2>5 DEF SentInv
  <1>3. ASSUME UNCHANGED dbVars,
               queue' = queue \/ \E r : Queues(r) /\ (r.table = "orders" => stage'[r.d] = "sent")
        PROVE  SentInv'
    <2>1. \A d \in orders' : stage'[d] = "sent"
      BY <1>0, <1>3 DEF SentInv, dbVars
    <2>2. \A i \in 1..Len(queue) : queue[i].table = "orders" => stage'[queue[i].d] = "sent"
      BY <1>0, RowFields DEF SentInv
    <2>3. ASSUME NEW r, Queues(r), r.table = "orders" => stage'[r.d] = "sent"
          PROVE  \A i \in 1..Len(queue') : queue'[i].table = "orders" => stage'[queue'[i].d] = "sent"
      BY <1>0, <2>2, <2>3, Queued
    <2> QED
      BY <1>3, <2>1, <2>2, <2>3 DEF SentInv
  <1>4. CASE GateRejects
    <2>1. Row("signals", cand) \in Rows /\ Row("signals", cand).table = "signals"
      BY <1>4, RowTypes DEF GateRejects, At, TypeInv, GateInv, Row
    <2> QED
      BY <1>3, <1>4, <2>1 DEF GateRejects, Queues
  <1>5. CASE SweepStart
    BY <1>3, <1>5 DEF SweepStart
  <1>6. CASE Aside
    BY <1>3, <1>6 DEF Aside
  <1>7. ASSUME NEW c \in calls, Record(c) PROVE SentInv'
    BY <1>3, <1>7, Recorded
  <1>8. ASSUME NEW d \in Decision, SweepOne(d) PROVE SentInv'
    BY <1>3, <1>8, Swept
  <1> QED
    BY <1>1, <1>2, <1>4, <1>5, <1>6, <1>7, <1>8, RefusalSteps

\* An outcome that is coming arrives, unless the process ends first.
LEMMA ComingLasts ==
    ASSUME TypeInv, DecidedInv, [Next]_vars, ~Restart, NEW d \in Decision, Coming(d)
    PROVE  Coming(d)'
  <1> DEFINE RowOf(q, i) == q[i].table = "outcomes" /\ q[i].outcome.d = d
             Queuing(q) == \E i \in 1..Len(q) : RowOf(q, i)
             Calling(C) == \E c \in C : c.d = d /\ c.kind = "unsent"
  <1>0. /\ Coming(d) <=> outcomes[d] # NoOutcome \/ Calling(calls) \/ Queuing(queue)
        /\ Coming(d)' <=> outcomes'[d] # NoOutcome \/ Calling(calls') \/ Queuing(queue')
        /\ Len(queue) \in Nat
    <2>1. Coming(d) <=> outcomes[d] # NoOutcome \/ Calling(calls) \/ Queuing(queue)
      BY DEF Coming
    <2>2. Coming(d)' <=> outcomes'[d] # NoOutcome \/ Calling(calls') \/ Queuing(queue')
      BY DEF Coming
    <2>3. Len(queue) \in Nat
      BY DEF TypeInv, TypeOK
    <2> QED
      BY <2>1, <2>2, <2>3
  <1>1. CASE Drain
    <2>1. calls' = calls /\ 1 \in 1..Len(queue) /\ outcomes' = Stored(queue[1]) /\ queue[1] \in Rows
      BY <1>1, Drained DEF Drain, passVars
    <2>2. outcomes \in [Decision -> Outcome \cup {NoOutcome}]
      BY DEF TypeInv, TypeOK
    <2>3. queue[1].table = "outcomes" => queue[1].outcome \in Outcome /\ queue[1].outcome # NoOutcome
      BY <2>1, RowFields DEF Outcome, NoOutcome
    <2>4. outcomes[d] # NoOutcome \/ RowOf(queue, 1) => outcomes'[d] # NoOutcome
      BY <2>1, <2>2, <2>3 DEF Stored, Outcome
    <2>5. ASSUME NEW i \in 2..Len(queue), RowOf(queue, i) PROVE Queuing(queue')
      <3>1. i - 1 \in 1..Len(queue') /\ queue'[i - 1] = queue[i]
        BY <1>0, <1>1, <2>5, Drained
      <3>2. RowOf(queue', i - 1)
        BY <2>5, <3>1
      <3> QED
        BY <3>1, <3>2
    <2>6. \A i \in 1..Len(queue) : i = 1 \/ i \in 2..Len(queue)
      BY <1>0
    <2> QED
      BY <1>0, <2>1, <2>4, <2>5, <2>6
  <1>2. ASSUME outcomes' = outcomes, queue' = queue \/ \E r : Queues(r)
        PROVE  Coming(d)' \/ (Calling(calls) /\ ~Calling(calls'))
    <2>1. ASSUME NEW r, Queues(r), NEW i \in 1..Len(queue), RowOf(queue, i) PROVE Queuing(queue')
      <3>1. i \in 1..Len(queue') /\ queue'[i] = queue[i]
        BY <1>0, <2>1, Queued
      <3>2. RowOf(queue', i)
        BY <2>1, <3>1
      <3> QED
        BY <3>1, <3>2
    <2>2. Queuing(queue) => Queuing(queue')
      BY <1>2, <2>1
    <2> HIDE DEF Queuing, Calling
    <2> QED
      BY <1>0, <1>2, <2>2
  <1>3. CASE GateRejects
    <2>1. /\ outcomes' = outcomes /\ ~Calling(calls)
          /\ queue' = Append(queue, Row("signals", cand)) /\ Row("signals", cand) \in Rows
      BY <1>3, RowTypes DEF GateRejects, At, TypeInv, GateInv, dbVars
    <2> QED
      BY <1>2, <2>1 DEF Queues
  <1>4. CASE SweepStart
    <2>1. outcomes' = outcomes /\ queue' = queue /\ calls' = calls
      BY <1>4 DEF SweepStart, dbVars, passVars
    <2> QED
      BY <1>2, <2>1
  <1>5. CASE Aside
    <2>1. /\ outcomes' = outcomes /\ (queue' = queue \/ \E r : Queues(r))
          /\ calls \subseteq calls'
      BY <1>5 DEF Aside, dbVars
    <2> QED
      BY <1>2, <2>1
  <1>6. ASSUME NEW e \in Decision, SweepOne(e) PROVE Coming(d)'
    <2>1. outcomes' = outcomes /\ calls' = calls /\ (queue' = queue \/ \E r : Queues(r))
      BY <1>6, Swept DEF dbVars
    <2> QED
      BY <1>2, <2>1
  <1>7. ASSUME NEW c \in calls, Record(c) PROVE Coming(d)'
    <2>1. /\ outcomes' = outcomes /\ calls' = calls \ {c}
          /\ queue' = queue \/ \E r : Queues(r)
      BY <1>7, Recorded DEF Record, dbVars
    <2>2. CASE c.d = d /\ c.kind = "unsent"
      <3>1. d \in experiences
        <4>1. CASE queue = <<>>
          <5>1. RowWithin(experiences, queue, d, Len(queue)) /\ Len(queue) = 0
            BY <2>2, <4>1 DEF DecidedInv
          <5> QED
            BY <5>1, RowMoves
        <4> QED
          BY <1>7, <2>2, <4>1 DEF Record
      <3>2. CASE outcomes[d] # NoOutcome
        BY <1>0, <2>1, <3>2
      <3>3. CASE outcomes[d] = NoOutcome
        <4>1. Accepted(c)
          BY <2>2, <3>1, <3>3 DEF Accepted
        <4>2. Queues(OutcomeRow(c))
          BY <1>7, <4>1, Recorded, RowTypes DEF Record, Queues
        <4>3. /\ Len(queue') \in 1..Len(queue') /\ queue'[Len(queue')] = OutcomeRow(c)
          BY <1>0, <4>2, Queued
        <4>4. RowOf(queue', Len(queue'))
          BY <1>7, <2>2, <4>3, Recorded
        <4> QED
          BY <1>0, <4>3, <4>4
      <3> QED
        BY <3>2, <3>3
    <2>3. CASE ~(c.d = d /\ c.kind = "unsent")
      BY <1>2, <2>1, <2>3
    <2> QED
      BY <2>2, <2>3
  <1> QED
    BY <1>1, <1>3, <1>4, <1>5, <1>6, <1>7, RefusalSteps

LEMMA RefusedNext ==
    /\ TypeInv /\ OrderInv /\ VanishedInv /\ SweepInv /\ DecidedInv /\ SentInv /\ RefusedInv
    /\ [Next]_vars
    => RefusedInv'
  <1> SUFFICES ASSUME TypeInv, OrderInv, VanishedInv, SweepInv, DecidedInv, SentInv, RefusedInv,
                      [Next]_vars
               PROVE  RefusedInv'
    OBVIOUS
  <1>1. CASE Restart
    <2>1. /\ signals' \subseteq experiences' /\ sweepDue' /\ queue' = <<>>
      BY <1>1 DEF Restart, DecidedInv, dbVars
    <2>2. Rejections(queue') = {}
      BY <2>1 DEF Rejections
    <2> QED
      BY <2>1, <2>2 DEF RefusedInv, RefusalsRemembered, Pursued, SweptSoon
  <1>2. CASE ~Restart
    <2>1. /\ \A d \in Decision : Coming(d) => Coming(d)'
          /\ signals \subseteq Decision /\ signals' \subseteq Decision
          /\ Rejections(queue) \subseteq Decision
      BY <1>2, ComingLasts, TypeNext, QueueContents DEF TypeInv, TypeOK
    <2>2. \A d \in signals : d \notin orders /\ d \notin orders'
      <3>1. SentInv' /\ SweepInv'
        BY SentNext, SweepNext
      <3>2. \A d \in signals : Refused(d) /\ Refused(d)'
        BY <2>1, OrderForward DEF SweepInv, Forward
      <3>3. \A d \in signals : stage[d] = "proposed" /\ stage'[d] = "proposed"
        BY <3>2 DEF Refused
      <3> QED
        BY <3>1, <3>3 DEF SentInv
    \* It is enough to look at what is new in the queue, and at what the sweep still has.
    <2>3. ASSUME \A d \in Rejections(queue') : d \in Rejections(queue) \/ Coming(d)',
                 \A d \in signals' : \/ d \in Rejections(queue)
                                     \/ d \in signals /\ (Pursued(d) => Coming(d)' \/ Pursued(d)')
          PROVE  RefusedInv'
      BY <2>1, <2>3 DEF RefusedInv, RefusalsRemembered
    <2>4. CASE Drain
      <3>1. /\ Rejections(queue') \subseteq Rejections(queue)
            /\ UNCHANGED <<sweepDue, orphans, beyond, evident>> /\ experiences \subseteq experiences'
        BY <2>4, QueueContents DEF Drain, sweepVars
      <3>2. signals' \subseteq signals \cup Rejections(queue)
        BY <2>4, Drained DEF Drain, Rejections
      <3>3. \A d \in signals : Pursued(d) => Pursued(d)'
        BY <2>2, <3>1 DEF Pursued, SweptSoon
      <3> QED
        BY <2>3, <3>1, <3>2, <3>3
    <2>5. CASE SweepStart
      <3>1. /\ queue' = queue /\ UNCHANGED dbVars
            /\ Missing = {d \in experiences : outcomes[d] = NoOutcome}
            /\ orphans' = Scanned /\ beyond' = Missing \ Scanned
            /\ evident' = signals \cap orphans'
        BY <2>5 DEF SweepStart, Missing
      <3>2. ASSUME NEW d \in signals PROVE Coming(d)' \/ Pursued(d)'
        <4>1. CASE outcomes[d] = NoOutcome
          <5>1. d \in beyond' \/ (d \in orphans' /\ d \in evident' /\ d \notin orders')
            BY <2>2, <3>1, <3>2, <4>1 DEF DecidedInv
          <5> QED
            BY <5>1 DEF Pursued, SweptSoon
        <4>2. CASE outcomes[d] # NoOutcome
          BY <2>1, <3>2, <4>2 DEF Coming
        <4> QED
          BY <4>1, <4>2
      <3>3. signals' = signals
        BY <3>1 DEF dbVars
      <3> QED
        BY <2>3, <3>1, <3>2, <3>3
    <2>6. CASE GateRejects
      <3>1. PICK d \in Decision : d = cand
        BY <2>6 DEF GateRejects, At, TypeInv, GateInv
      <3>2. /\ Queues(Row("signals", d)) /\ Row("signals", d).d = d
        BY <2>6, <3>1, RowTypes DEF GateRejects, Queues, Row
      <3>3. Coming(d)'
        BY <2>6, <3>1 DEF GateRejects, Unsent, Ended, Coming
      <3>4. \A e \in Rejections(queue') : e \in Rejections(queue) \/ e = d
        BY <3>2, QueueContents
      <3>5. /\ signals' = signals
            /\ \A e \in signals : Pursued(e) => Pursued(e)'
        BY <2>6 DEF GateRejects, Pursued, SweptSoon, dbVars, sweepVars
      <3> QED
        BY <2>3, <3>3, <3>4, <3>5
    \* A step that queues no rejection and leaves the sweep and the tables alone.
    <2>7. ASSUME UNCHANGED <<dbVars, sweepDue, orphans, beyond, evident>>,
                 queue' = queue \/ \E r : Queues(r) /\ r.table # "signals"
          PROVE  RefusedInv'
      <3>1. \A d \in Rejections(queue') : d \in Rejections(queue)
        BY <2>7, QueueContents
      <3>2. signals' = signals /\ \A d \in signals : Pursued(d) => Pursued(d)'
        BY <2>7 DEF Pursued, SweptSoon, dbVars
      <3> QED
        BY <2>3, <3>1, <3>2
    <2>8. CASE Aside
      BY <2>7, <2>8 DEF Aside
    <2>9. ASSUME NEW c \in calls, Record(c) PROVE RefusedInv'
      BY <2>7, <2>9, Recorded DEF sweepVars
    <2>10. ASSUME NEW e \in Decision, SweepOne(e) PROVE RefusedInv'
      <3>1. /\ ~sweepDue /\ sweepDue' = sweepDue /\ orphans' = orphans \ {e}
            /\ UNCHANGED <<evident, beyond, dbVars>>
        BY <2>10 DEF SweepOne
      <3>2. queue' = queue \/ \E r : Queues(r) /\ r.table = "outcomes"
        BY <2>10, Swept
      <3>3. \A d \in Rejections(queue') : d \in Rejections(queue)
        BY <3>2, QueueContents
      <3>4. \A d \in signals \ {e} : Pursued(d) => Pursued(d)'
        BY <3>1 DEF Pursued, SweptSoon, dbVars
      <3>5. ASSUME e \in signals, SweptSoon(e) PROVE Coming(e)'
        <4>1. Evidence(e) = {"unsent"}
          BY <3>1, <3>5 DEF Pursued, SweptSoon, Evidence
        <4>2. CASE queue' = Append(queue, Found(e, "unsent"))
          <5>1. /\ OutcomeRow(Ended(e, "unsent", Nobody, "sweep")) \in Rows
            BY EndedType, RowTypes DEF Kinds
          <5>2. Found(e, "unsent") \in Rows
            BY <5>1 DEF Found
          <5>3. /\ Len(queue') \in 1..Len(queue') /\ queue'[Len(queue')] = Found(e, "unsent")
            BY <4>2, <5>2, Queued DEF Queues
          <5>4. Found(e, "unsent").table = "outcomes" /\ Found(e, "unsent").outcome.d = e
            BY DEF Found, OutcomeRow, Ended
          <5> QED
            BY <5>3, <5>4 DEF Coming
        <4>3. CASE outcomes[e] # NoOutcome
          BY <2>1, <4>3 DEF Coming
        <4> QED
          BY <2>10, <4>1, <4>2, <4>3 DEF SweepOne
      <3>6. signals' = signals /\ (e \in beyond => Pursued(e)')
        BY <3>1 DEF dbVars, Pursued
      <3> QED
        BY <2>3, <3>3, <3>4, <3>5, <3>6 DEF Pursued
    <2> QED
      BY <1>2, <2>4, <2>5, <2>6, <2>8, <2>9, <2>10, RefusalSteps
  <1> QED
    BY <1>1, <1>2

\* A decision a gate rejected is never forgotten, wherever a crash falls, unless the
\* scan of a start-up sweep was full of older ones: the safety half of
\* RefusedIsClassified.
THEOREM RefusalsAreRemembered == Spec => []RefusalsRemembered
  <1> DEFINE I == /\ TypeInv /\ OrderInv /\ VanishedInv /\ SweepInv
                  /\ DecidedInv /\ SentInv /\ RefusedInv
  <1>1. Init => I
    <2>1. ASSUME Init PROVE OrderInv /\ VanishedInv /\ SweepInv
      BY <2>1 DEF Init, OrderInv, VanishedInv, SweepInv, Verdicts, Rejections, Written
    <2>2. ASSUME Init PROVE DecidedInv /\ SentInv /\ RefusedInv
      BY <2>2 DEF Init, DecidedInv, SentInv, RefusedInv, RefusalsRemembered, Rejections
    <2> QED
      BY <2>1, <2>2, TypeInit
  <1>2. I /\ [Next]_vars => I'
    BY TypeNext, OrderForward, VanishedNext, SweepNext, DecidedNext, SentNext, RefusedNext
  <1>3. I => RefusalsRemembered
    BY DEF RefusedInv
  <1> QED
    BY <1>1, <1>2, <1>3, PTL DEF Spec
=============================================================================
