---------------------- MODULE AuditWritePlane_proofs ----------------------
(***************************************************************************)
(* Type correctness, no silent loss, honest flush and the forward-only     *)
(* ledger of AuditWritePlane, for every value of its constants.            *)
(*                                                                         *)
(* The argument.  A row leaves one holder only in a step that shows it in  *)
(* the next one, and three hand-overs need a fact about the middle of an   *)
(* operation: while a transaction is open, the rows executed so far are in *)
(* the working ledger and the working ledger is ahead of the stored one    *)
(* (TxnInv); while a file is being retired, its row has been replayed or   *)
(* rejected (RetireInv); while a producer writes its overflow file, the    *)
(* file exists or its row was already rejected by the drain (SpillInv).    *)
(* Two producers may draw one file name (NameInv); the file of such a name *)
(* always holds one of its rows until one of them is settled (HolderInv).  *)
(* Counting the queue's unfinished tasks exactly (CountInv) gives flush.   *)
(***************************************************************************)
EXTENDS AuditWritePlane, TLAPS

\* The ledger states a ticket may move to.
Forward(a, b) ==
    \/ a = b
    \/ <<a, b>> \in {<<"NONE", "OPENED">>, <<"NONE", "CLOSED">>,
                     <<"NONE", "CLOSED_NO_ENTRY">>, <<"OPENED", "CLOSED">>}

Settled(r) == r \in dead \/ r \in lost \/ r \in husk \/ r \in crashLost \/ Durable(r)

Accounted == \A r \in Row : pc[r] = "returned" =>
    r \in Pending \/ file[r] = "whole" \/ Settled(r) \/ Shared(r)

TxnInv == wpc = "txn" =>
    /\ \A t \in Ticket : Forward(ledger[t], work[t])
    /\ \A n \in 1..done : batch[n] \in Row => DurableIn(work, batch[n])

\* A name is drawn once, counted past before its file exists, and only rows
\* whose producers were drawing at the same time have the same one.
NameInv == \A r \in Row :
    /\ pc[r] \in {"idle", "held"} => stamp[r] = 0
    /\ pc[r] \in {"naming", "spilling"} => stamp[r] # 0
    /\ stamp[r] <= named + 1 /\ (pc[r] # "naming" => stamp[r] <= named)
    /\ file[r] # "none" \/ r \in pass \/ r \in retiring => stamp[r] # 0 /\ pc[r] # "naming"

RetireInv == \A r \in retiring : \E m \in Row : stamp[m] = stamp[r] /\ Settled(m)

SpillInv == \A r \in Row :
    pc[r] = "spilling" => file[r] # "none" \/ Settled(r) \/ Shared(r)

\* Of the rows that have one file name, the file holds one or one is settled.
HolderInv == \A r \in Row : stamp[r] # 0 /\ pc[r] \in {"spilling", "returned"} =>
    \E m \in Row : stamp[m] = stamp[r] /\ (file[m] # "none" \/ Settled(m))

TmpInv == \A r \in Row : file[r] = "tmp" /\ pc[r] = "returned" => Settled(r)

FileInv == NameInv /\ RetireInv /\ SpillInv /\ HolderInv /\ TmpInv

LossInv == Accounted /\ TxnInv /\ FileInv

CountInv == unfinished = Len(queue) + Len(batch)

BatchInv ==
    /\ wpc \in {"construct", "touch", "loop", "taking", "drain", "exited"} => done = 0
    /\ wpc \in {"construct", "touch", "loop", "drain", "exited"} => batch = <<>>

TypeInv == TypeOK /\ CountInv /\ BatchInv

CoveredInv == \A r \in covered : pc[r] = "returned"

-----------------------------------------------------------------------------
(* Facts about one statement, and about sequences *)

LEMMA RowFields ==
    ASSUME NEW r \in Row
    PROVE  r.ticket \in Ticket /\ r.kind \in {"OPEN", "CLOSE"} /\ r \in Item
  BY DEF Row, Item

\* One statement keeps the ledger's type, moves no ticket backwards, and a row
\* it applies is in the ledger afterwards.
LEMMA ApplyFacts ==
    ASSUME NEW l \in [Ticket -> LedgerState], NEW i \in Item
    PROVE  /\ Apply(l, i) \in [Ticket -> LedgerState]
           /\ \A t \in Ticket : Forward(l[t], Apply(l, i)[t])
           /\ i \in Row => DurableIn(Apply(l, i), i)
  <1>1. CASE i \notin Row
    BY <1>1 DEF Apply, Forward
  <1>2. CASE i \in Row
    <2> DEFINE new == CASE i.kind = "OPEN"  /\ l[i.ticket] = "NONE"   -> "OPENED"
                        [] i.kind = "CLOSE" /\ l[i.ticket] = "NONE"   -> "CLOSED_NO_ENTRY"
                        [] i.kind = "CLOSE" /\ l[i.ticket] = "OPENED" -> "CLOSED"
                        [] OTHER -> l[i.ticket]
    <2>1. i.ticket \in Ticket /\ i.kind \in {"OPEN", "CLOSE"}
      BY <1>2, RowFields
    <2>2. Apply(l, i) = [l EXCEPT ![i.ticket] = new]
      BY <1>2 DEF Apply
    <2>3. l[i.ticket] \in {"NONE", "OPENED", "CLOSED", "CLOSED_NO_ENTRY"}
      BY <2>1 DEF LedgerState
    <2>4. /\ new \in LedgerState
          /\ Forward(l[i.ticket], new)
          /\ i.kind = "OPEN" => new # "NONE"
          /\ i.kind = "CLOSE" => new \in {"CLOSED", "CLOSED_NO_ENTRY"}
      BY <2>1, <2>3 DEF LedgerState, Forward
    <2> HIDE DEF new
    <2>5. QED
      BY <1>2, <2>1, <2>2, <2>4 DEF Forward, DurableIn
  <1>3. QED
    BY <1>1, <1>2

\* Moving forward keeps what is durable.
LEMMA ForwardKeeps ==
    ASSUME NEW l \in [Ticket -> LedgerState], NEW m \in [Ticket -> LedgerState],
           \A t \in Ticket : Forward(l[t], m[t]),
           NEW r \in Row, DurableIn(l, r)
    PROVE  DurableIn(m, r)
  <1>1. r.ticket \in Ticket
    BY RowFields
  <1>2. Forward(l[r.ticket], m[r.ticket])
    BY <1>1
  <1>3. QED
    BY <1>2 DEF Forward, DurableIn

LEMMA ForwardTransitive ==
    ASSUME NEW a \in LedgerState, NEW b \in LedgerState, NEW c \in LedgerState,
           Forward(a, b), Forward(b, c)
    PROVE  Forward(a, c)
  BY DEF Forward, LedgerState

\* Taking the head of a queue, or adding to its end, moves exactly one element.
LEMMA ElemsAppend ==
    ASSUME NEW S, NEW s \in Seq(S), NEW e \in S
    PROVE  Append(s, e) \in Seq(S) /\ Elems(Append(s, e)) = Elems(s) \cup {e}
  <1>1. /\ Append(s, e) \in Seq(S)
        /\ Len(Append(s, e)) = Len(s) + 1
        /\ \A n \in 1..Len(s) : Append(s, e)[n] = s[n]
        /\ Append(s, e)[Len(s) + 1] = e
    OBVIOUS
  <1>2. 1..(Len(s) + 1) = (1..Len(s)) \cup {Len(s) + 1}
    OBVIOUS
  <1>3. QED
    BY <1>1, <1>2 DEF Elems

LEMMA ElemsTail ==
    ASSUME NEW S, NEW s \in Seq(S), s # <<>>
    PROVE  /\ Tail(s) \in Seq(S) /\ Len(Tail(s)) = Len(s) - 1
           /\ Head(s) \in S
           /\ Elems(s) = Elems(Tail(s)) \cup {Head(s)}
  <1>1. /\ Tail(s) \in Seq(S) /\ Len(Tail(s)) = Len(s) - 1 /\ Len(s) > 0
        /\ Head(s) = s[1] /\ Head(s) \in S
        /\ \A n \in 1..Len(s) - 1 : Tail(s)[n] = s[n + 1]
    OBVIOUS
  <1>2. Elems(s) \subseteq Elems(Tail(s)) \cup {Head(s)}
    <2> SUFFICES ASSUME NEW n \in 1..Len(s)
                 PROVE  s[n] \in Elems(Tail(s)) \cup {Head(s)}
      BY DEF Elems
    <2>1. CASE n = 1
      BY <2>1, <1>1
    <2>2. CASE n # 1
      <3>1. n - 1 \in 1..Len(s) - 1 /\ Tail(s)[n - 1] = s[n]
        BY <2>2, <1>1
      <3>2. QED
        BY <3>1, <1>1 DEF Elems
    <2>3. QED
      BY <2>1, <2>2
  <1>3. Elems(Tail(s)) \cup {Head(s)} \subseteq Elems(s)
    <2>1. Head(s) \in Elems(s)
      BY <1>1 DEF Elems
    <2>2. \A n \in 1..Len(Tail(s)) : n + 1 \in 1..Len(s) /\ Tail(s)[n] = s[n + 1]
      BY <1>1
    <2>3. QED
      BY <2>1, <2>2 DEF Elems
  <1>4. QED
    BY <1>1, <1>2, <1>3

LEMMA ElemsIn ==
    ASSUME NEW S, NEW s \in Seq(S)
    PROVE  Elems(s) \subseteq S
  BY DEF Elems

LEMMA ElemsEmpty == Elems(<<>>) = {}
  BY DEF Elems
-----------------------------------------------------------------------------
(* Type correctness *)

LEMMA DeadLetterTypes ==
    ASSUME TypeOK, NEW i \in Item, DeadLetter(i)
    PROVE  dead' \subseteq Row /\ husk' \subseteq Row /\ lost' \subseteq Row
  BY DEF TypeOK, DeadLetter

LEMMA TakesFileTypes ==
    ASSUME TypeOK, NEW r \in Row, NEW S, NEW bytes \in {"none", "tmp", "torn", "whole"},
           TakesFile(r, S, bytes)
    PROVE  /\ file' \in [Row -> {"none", "tmp", "torn", "whole"}]
           /\ pass' \subseteq Row /\ retiring' \subseteq Row
  BY DEF TypeOK, TakesFile, Follow

LEMMA TypeInit == Init => TypeInv
  BY ConstantsAssumption DEF Init, TypeInv, TypeOK, CountInv, BatchInv, LedgerState

LEMMA TypeStep == TypeInv /\ [Next]_vars => TypeInv'
  <1> SUFFICES ASSUME TypeInv, [Next]_vars
               PROVE  TypeInv'
    OBVIOUS
  <1> USE ConstantsAssumption DEF vars, queueVars, workerVars, fileVars, drainVars, storeVars, lifeVars,
          TypeInv, TypeOK, CountInv, BatchInv
  <1>1. ASSUME NEW i \in Item, Resolve(i)
        PROVE  TypeInv'
    BY <1>1 DEF Resolve
  <1>2. ASSUME NEW i \in Item, RefuseArity(i)
        PROVE  TypeInv'
    BY <1>2, DeadLetterTypes DEF RefuseArity
  <1>3. ASSUME NEW i \in Item, Put(i)
        PROVE  TypeInv'
    BY <1>3 DEF Put
  <1>4. ASSUME NEW i \in Item, DropTelemetry(i)
        PROVE  TypeInv'
    BY <1>4 DEF DropTelemetry
  <1>5. ASSUME NEW r \in Row, Name(r)
        PROVE  TypeInv'
    BY <1>5, RowFields DEF Name
  <1>5a. ASSUME NEW r \in Row, Open(r)
        PROVE  TypeInv'
    <2>1. /\ file' \in [Row -> {"none", "tmp", "torn", "whole"}]
          /\ pass' \subseteq Row /\ retiring' \subseteq Row
      BY <1>5a, TakesFileTypes DEF Open
    <2>2. QED
      BY <1>5a, <2>1, RowFields DEF Open
  <1>6. ASSUME NEW r \in Row, SpillDone(r)
        PROVE  TypeInv'
    <2>1. /\ file' \in [Row -> {"none", "tmp", "torn", "whole"}]
          /\ pass' \subseteq Row /\ retiring' \subseteq Row
      BY <1>6, TakesFileTypes DEF SpillDone
    <2>2. QED
      BY <1>6, <2>1, RowFields DEF SpillDone
  <1>6a. ASSUME NEW r \in Row, SpillBeaten(r)
        PROVE  TypeInv'
    <2>1. /\ file' \in [Row -> {"none", "tmp", "torn", "whole"}]
          /\ pass' \subseteq Row /\ retiring' \subseteq Row
      BY <1>6a, TakesFileTypes DEF SpillBeaten
    <2>2. dead' \subseteq Row /\ husk' \subseteq Row /\ lost' \subseteq Row
      BY <1>6a, DeadLetterTypes, RowFields DEF SpillBeaten
    <2>3. QED
      BY <1>6a, <2>1, <2>2, RowFields DEF SpillBeaten
  <1>7. ASSUME NEW r \in Row, SpillRefused(r)
        PROVE  TypeInv'
    BY <1>7, DeadLetterTypes, RowFields DEF SpillRefused
  <1>8. CASE Construct
    BY <1>8 DEF Construct
  <1>9. CASE ConstructFails
    BY <1>9 DEF ConstructFails
  <1>10. CASE Touch
    BY <1>10 DEF Touch
  <1>11. CASE TouchFails
    BY <1>11 DEF TouchFails
  <1>12. CASE LoopHead
    BY <1>12 DEF LoopHead
  <1>13. CASE Take
    <2>1. Tail(queue) \in Seq(Item) /\ Len(Tail(queue)) = Len(queue) - 1 /\ Head(queue) \in Item
      BY <1>13, ElemsTail DEF Take
    <2>2. /\ Append(batch, Head(queue)) \in Seq(Item)
          /\ Len(Append(batch, Head(queue))) = Len(batch) + 1
      BY <2>1
    <2>3. /\ wpc = "taking" /\ done = 0 /\ Len(batch) < BatchMax
          /\ done' = done /\ wpc' = wpc /\ unfinished' = unfinished
          /\ queue' = Tail(queue) /\ batch' = Append(batch, Head(queue))
      BY <1>13 DEF Take
    <2>4. Len(queue') = Len(queue) - 1 /\ Len(batch') = Len(batch) + 1
      BY <2>1, <2>2, <2>3
    <2>5. Len(queue) \in Nat /\ Len(batch) \in Nat
      OBVIOUS
    <2>6. TypeOK'
      <3>1. Len(queue') <= QueueMax /\ Len(batch') <= BatchMax /\ done' \in 0..Len(batch')
        BY <2>3, <2>4, <2>5
      <3>2. QED
        BY <1>13, <2>1, <2>2, <2>3, <3>1 DEF Take
    <2>7. CountInv'
      <3>1. unfinished' = Len(queue) + Len(batch)
        BY <2>3
      <3>2. Len(queue) + Len(batch) = (Len(queue) - 1) + (Len(batch) + 1)
        BY <2>5
      <3>3. QED
        BY <2>4, <3>1, <3>2
    <2>8. BatchInv'
      BY <2>3
    <2>9. QED
      BY <2>6, <2>7, <2>8
  <1>14. CASE BeginBatch
    BY <1>14 DEF BeginBatch
  <1>15. CASE Execute
    <2>1. batch[done + 1] \in Item
      BY <1>15 DEF Execute
    <2>2. Apply(work, batch[done + 1]) \in [Ticket -> LedgerState]
      BY <2>1, ApplyFacts
    <2>3. QED
      BY <1>15, <2>2 DEF Execute
  <1>16. CASE Commit
    BY <1>16 DEF Commit
  <1>17. CASE Rollback
    BY <1>17 DEF Rollback
  <1>18. CASE SalvageRow
    <2>1. batch[done + 1] \in Item
      BY <1>18 DEF SalvageRow
    <2>2. Apply(ledger, batch[done + 1]) \in [Ticket -> LedgerState]
      BY <2>1, ApplyFacts
    <2>3. CASE ledger' = Apply(ledger, batch[done + 1]) /\ UNCHANGED <<dead, husk, lost>>
      BY <1>18, <2>2, <2>3 DEF SalvageRow
    <2>4. CASE DeadLetter(batch[done + 1]) /\ UNCHANGED ledger
      BY <1>18, <2>1, <2>4, DeadLetterTypes DEF SalvageRow
    <2>5. QED
      BY <1>18, <2>3, <2>4 DEF SalvageRow
  <1>19. CASE SalvageDone
    BY <1>19 DEF SalvageDone
  <1>20. CASE Acknowledge
    BY <1>20 DEF Acknowledge
  <1>21. CASE Idle
    <2>1. pass' \subseteq Row
      BY <1>21 DEF Idle, Glob
    <2>2. QED
      BY <1>21, <2>1 DEF Idle
  <1>22. CASE DrainEnds
    BY <1>22 DEF DrainEnds
  <1>23. ASSUME NEW r \in Row, Replay(r)
        PROVE  TypeInv'
    <2>1. Apply(ledger, r) \in [Ticket -> LedgerState]
      BY RowFields, ApplyFacts
    <2>2. QED
      BY <1>23, <2>1 DEF Replay
  <1>24. ASSUME NEW r \in Row, ReplayRejected(r)
        PROVE  TypeInv'
    BY <1>24 DEF ReplayRejected, DeadLetterNoArgs
  <1>25. ASSUME NEW r \in Row, Retire(r)
        PROVE  TypeInv'
    BY <1>25 DEF Retire
  <1>26. CASE CadenceElapses
    BY <1>26 DEF CadenceElapses
  <1>27. CASE BeginClose
    BY <1>27 DEF BeginClose
  <1>28. CASE FlushReturns
    BY <1>28 DEF FlushReturns
  <1>29. CASE FlushTimesOut
    BY <1>29 DEF FlushTimesOut
  <1>30. CASE JoinEnds
    BY <1>30 DEF JoinEnds
  <1>31. CASE Restart
    BY <1>31 DEF Restart
  <1>32. CASE UNCHANGED vars
    BY <1>32
  <1>33. QED
    BY <1>1, <1>2, <1>3, <1>4, <1>5, <1>5a, <1>6, <1>6a, <1>7, <1>8, <1>9, <1>10, <1>11, <1>12, <1>13, <1>14, <1>15, <1>16, <1>17, <1>18, <1>19, <1>20, <1>21, <1>22, <1>23, <1>24, <1>25, <1>26, <1>27, <1>28, <1>29, <1>30, <1>31, <1>32 DEF Next, Produce, Worker, Closer

\* In every reachable state the types are those of TypeOK, and the queue and the
\* batch are within their capacities.
THEOREM TypeCorrect == Spec => []TypeOK
  <1>1. Init => TypeInv
    BY TypeInit
  <1>2. TypeInv /\ [Next]_vars => TypeInv'
    BY TypeStep
  <1>3. TypeInv => TypeOK
    BY DEF TypeInv
  <1>4. QED
    BY <1>1, <1>2, <1>3, PTL DEF Spec
-----------------------------------------------------------------------------
(* No silent loss *)

\* What is settled stays settled while the stores grow and the ledger moves
\* forward.
LEMMA SettledKeeps ==
    ASSUME TypeOK, TypeOK', \A t \in Ticket : Forward(ledger[t], ledger'[t]),
           dead \subseteq dead', lost \subseteq lost', husk \subseteq husk',
           crashLost \subseteq crashLost',
           NEW r \in Row, Settled(r)
    PROVE  Settled(r)'
  <1>1. CASE Durable(r)
    <2>1. DurableIn(ledger', r)
      BY <1>1, ForwardKeeps DEF TypeOK, Durable
    <2>2. QED
      BY <2>1 DEF Settled, Durable, DurableIn
  <1>2. CASE ~Durable(r)
    BY <1>2 DEF Settled
  <1>3. QED
    BY <1>1, <1>2

LEMMA DeadLetterSettles ==
    ASSUME NEW r \in Row, DeadLetter(r)
    PROVE  /\ dead \subseteq dead' /\ lost \subseteq lost' /\ husk' = husk
           /\ r \in dead' \cup lost'
  BY DEF DeadLetter

LEMMA DeadLetterKeeps ==
    ASSUME NEW i \in Item, DeadLetter(i)
    PROVE  dead \subseteq dead' /\ lost \subseteq lost' /\ husk' = husk
  BY DEF DeadLetter

LEMMA LossInit == Init => LossInv
  BY RowFields DEF Init, LossInv, FileInv, NameInv, Accounted, TxnInv, RetireInv, SpillInv,
     HolderInv, TmpInv

\* A step that touches no file name and no file, and answers a producer in its
\* overflow path only by settling its row.
LEMMA FileFrame ==
    ASSUME TypeOK, FileInv, UNCHANGED <<file, stamp, named>>,
           pass' \subseteq pass \cup Glob, retiring' \subseteq retiring,
           \A r \in Row : Settled(r) => Settled(r)',
           \A r \in Row :
              \/ pc'[r] = pc[r]
              \/ pc[r] \in {"idle", "held"} /\ pc'[r] \in {"held", "returned", "failed"}
              \/ pc[r] = "spilling" /\ pc'[r] = "returned" /\ Settled(r)'
    PROVE  FileInv'
  <1>1. NameInv'
    <2>1. \A r \in Row : r \in pass' => r \in pass \/ file[r] # "none"
      BY DEF Glob
    <2>2. \A r \in Row : stamp[r] \in Nat /\ named \in Nat
      BY DEF TypeOK
    <2>3. QED
      BY <2>1, <2>2 DEF FileInv, NameInv
  <1>2. RetireInv'
    BY DEF FileInv, RetireInv
  <1>3. \A r \in Row : Shared(r)' <=> Shared(r)
    BY DEF Shared, Sharers
  <1>4. SpillInv'
    BY <1>3 DEF FileInv, SpillInv
  <1>5. HolderInv'
    BY DEF FileInv, NameInv, HolderInv
  <1>6. TmpInv'
    BY DEF FileInv, NameInv, TmpInv
  <1>7. QED
    BY <1>1, <1>2, <1>4, <1>5, <1>6 DEF FileInv

\* A step that settles nothing and loses nothing from memory.
LEMMA LossFrame ==
    ASSUME TypeOK, LossInv, UNCHANGED <<pc, file, stamp, named, storeVars, crashLost>>,
           Pending \subseteq Pending', pass' \subseteq pass \cup Glob, retiring' \subseteq retiring,
           TxnInv'
    PROVE  LossInv'
  <1>1. \A r \in Row : Settled(r)' <=> Settled(r)
    BY DEF storeVars, Settled, Durable, DurableIn
  <1>2. FileInv'
    BY <1>1, FileFrame DEF LossInv
  <1>3. \A r \in Row : Shared(r)' <=> Shared(r)
    BY DEF Shared, Sharers
  <1>4. Accounted'
    BY <1>1, <1>3 DEF LossInv, Accounted
  <1>5. QED
    BY <1>2, <1>4 DEF LossInv

\* Row x, in its overflow path, gets its bytes into the file of its name.
LEMMA TakesFileLoss ==
    ASSUME TypeOK, TypeOK', FileInv, NEW x \in Row, NEW S \in SUBSET Sharers(x),
           NEW bytes \in {"tmp", "torn", "whole"}, TakesFile(x, S, bytes),
           stamp' = stamp, stamp[x] # 0, pc'[x] \in {"spilling", "returned"},
           named <= named', stamp[x] <= named',
           \A r \in Row : r # x => pc'[r] = pc[r],
           \A r \in Row : Settled(r) => Settled(r)',
           bytes = "tmp" => pc'[x] # "returned"
    PROVE  /\ FileInv'
           /\ file'[x] = bytes
           /\ \A r \in Row : r # x => file'[r] = file[r] \/ Shared(r)'
           /\ \A r \in Row : Shared(r)' <=> Shared(r)
  <1>1. \A r \in Row : Shared(r)' <=> Shared(r)
    BY DEF Shared, Sharers
  <1>2. \A s \in S : s \in Row /\ s # x /\ stamp[s] = stamp[x] /\ Shared(s)
    BY DEF Shared, Sharers
  <1>3. /\ file'[x] = bytes
        /\ \A r \in Row : r # x => file'[r] = IF r \in S THEN "none" ELSE file[r]
    BY DEF TakesFile
  <1>4. /\ pass' \subseteq pass \cup {x}
        /\ retiring' \subseteq retiring \cup {x}
        /\ x \in retiring' => x \in retiring \/ \E s \in S : s \in retiring
    BY DEF TakesFile, Follow
  <1>5. NameInv'
    <2>1. \A r \in Row : stamp[r] \in Nat /\ named \in Nat /\ named' \in Nat
      BY DEF TypeOK
    <2>2. ASSUME NEW r \in Row, r # x
          PROVE  /\ pc'[r] \in {"idle", "held"} => stamp'[r] = 0
                 /\ pc'[r] \in {"naming", "spilling"} => stamp'[r] # 0
                 /\ stamp'[r] <= named' + 1 /\ (pc'[r] # "naming" => stamp'[r] <= named')
                 /\ file'[r] # "none" \/ r \in pass' \/ r \in retiring'
                      => stamp'[r] # 0 /\ pc'[r] # "naming"
      <3>1. /\ pc[r] \in {"idle", "held"} => stamp[r] = 0
            /\ pc[r] \in {"naming", "spilling"} => stamp[r] # 0
            /\ stamp[r] <= named + 1 /\ (pc[r] # "naming" => stamp[r] <= named)
            /\ file[r] # "none" \/ r \in pass \/ r \in retiring
                 => stamp[r] # 0 /\ pc[r] # "naming"
        BY DEF FileInv, NameInv
      <3>2. pc'[r] = pc[r] /\ stamp'[r] = stamp[r]
        BY <2>2
      <3>3. stamp[r] <= named' + 1 /\ (pc[r] # "naming" => stamp[r] <= named')
        BY <2>1, <3>1
      <3>4. QED
        BY <1>3, <1>4, <2>2, <3>1, <3>2, <3>3
    <2>3. /\ pc'[x] \notin {"idle", "held", "naming"} /\ stamp'[x] # 0
          /\ stamp'[x] <= named' /\ stamp'[x] <= named' + 1
      BY <2>1
    <2>4. QED
      BY <2>2, <2>3 DEF NameInv
  <1>6. RetireInv'
    <2> SUFFICES ASSUME NEW r \in retiring'
                 PROVE  \E m \in Row : stamp[m] = stamp[r] /\ Settled(m)'
      BY DEF RetireInv
    <2>1. CASE r \in retiring
      BY <2>1 DEF FileInv, RetireInv
    <2>2. CASE r \notin retiring
      <3>1. PICK s \in S : r = x /\ s \in retiring
        BY <1>4, <2>2
      <3>2. QED
        BY <1>2, <3>1 DEF FileInv, RetireInv
    <2>3. QED
      BY <2>1, <2>2
  <1>7. SpillInv'
    BY <1>1, <1>2, <1>3 DEF FileInv, SpillInv
  <1>8. HolderInv'
    <2> SUFFICES ASSUME NEW r \in Row, stamp[r] # 0, pc'[r] \in {"spilling", "returned"}
                 PROVE  \E m \in Row : stamp[m] = stamp[r] /\ (file'[m] # "none" \/ Settled(m)')
      BY DEF HolderInv
    <2>1. CASE stamp[r] = stamp[x]
      BY <1>3, <2>1
    <2>2. CASE stamp[r] # stamp[x]
      <3>1. r # x /\ pc[r] \in {"spilling", "returned"}
        BY <2>2
      <3>2. PICK m \in Row : stamp[m] = stamp[r] /\ (file[m] # "none" \/ Settled(m))
        BY <3>1 DEF FileInv, HolderInv
      <3>3. m # x /\ m \notin S
        BY <1>2, <2>2, <3>2
      <3>4. QED
        BY <1>3, <3>2, <3>3
    <2>3. QED
      BY <2>1, <2>2
  <1>9. TmpInv'
    BY <1>3 DEF FileInv, TmpInv
  <1>10. QED
    BY <1>1, <1>2, <1>3, <1>5, <1>6, <1>7, <1>8, <1>9 DEF FileInv

LEMMA LossStep == TypeInv /\ TypeInv' /\ LossInv /\ [Next]_vars => LossInv'
  <1> SUFFICES ASSUME TypeInv, TypeInv', LossInv, [Next]_vars
               PROVE  LossInv'
    OBVIOUS
  <1> USE DEF vars, queueVars, workerVars, fileVars, drainVars, storeVars, lifeVars
  <1>0. TypeOK /\ TypeOK' /\ BatchInv /\ BatchInv' /\ Accounted /\ TxnInv /\ FileInv
    BY DEF LossInv, TypeInv
  <1>h. ASSUME stamp' = stamp
        PROVE  \A r \in Row : Shared(r)' <=> Shared(r)
    BY <1>h DEF Shared, Sharers
  <1>1. ASSUME NEW i \in Item, Resolve(i)
        PROVE  LossInv'
    <2>1. Pending' = Pending
      BY <1>1 DEF Resolve, Pending, Unsettled, Elems
    <2>2. \A s \in Row : Settled(s)' <=> Settled(s)
      BY <1>1 DEF Resolve, Settled, Durable, DurableIn
    <2>3. \A s \in Row : \/ pc'[s] = pc[s]
                         \/ pc[s] = "idle" /\ pc'[s] \in {"held", "failed"}
      BY <1>0, <1>1, RowFields DEF Resolve, TypeOK
    <2>4. FileInv'
      BY <1>0, <1>1, <2>2, <2>3, FileFrame DEF Resolve
    <2>5. Accounted'
      BY <1>0, <1>1, <1>h, <2>1, <2>2, <2>3 DEF Resolve, Accounted
    <2>6. TxnInv'
      BY <1>0, <1>1 DEF Resolve, TxnInv
    <2>7. QED
      BY <2>4, <2>5, <2>6 DEF LossInv
  <1>2. ASSUME NEW i \in Item, RefuseArity(i)
        PROVE  LossInv'
    <2>1. /\ dead \subseteq dead' /\ lost \subseteq lost' /\ husk' = husk
          /\ i \in Row => i \in dead' \cup lost'
      BY <1>2, DeadLetterSettles, DeadLetterKeeps DEF RefuseArity
    <2>2. /\ \A s \in Row : Settled(s) => Settled(s)'
          /\ i \in Row => Settled(i)'
      BY <2>1, <1>2 DEF RefuseArity, Settled, Durable, DurableIn
    <2>3. Pending' = Pending
      BY <1>2 DEF RefuseArity, Pending, Unsettled, Elems
    <2>4. /\ \A s \in Row : s # i => pc'[s] = pc[s]
          /\ pc[i] = "held" /\ pc'[i] = "returned"
      BY <1>0, <1>2, RowFields DEF RefuseArity, TypeOK
    <2>5. FileInv'
      BY <1>0, <1>2, <2>2, <2>4, FileFrame DEF RefuseArity
    <2>6. Accounted'
      BY <1>0, <1>2, <1>h, <2>2, <2>3, <2>4 DEF RefuseArity, Accounted
    <2>7. TxnInv'
      BY <1>0, <1>2 DEF RefuseArity, TxnInv
    <2>8. QED
      BY <2>5, <2>6, <2>7 DEF LossInv
  <1>3. ASSUME NEW i \in Item, Put(i)
        PROVE  LossInv'
    <2>1. Elems(queue') = Elems(queue) \cup {i}
      BY <1>0, <1>3, ElemsAppend DEF Put, TypeOK
    <2>2. i \in Pending' /\ \A s \in Row : s \in Pending => s \in Pending'
      BY <2>1, <1>3 DEF Put, Pending, Unsettled, Elems
    <2>3. \A s \in Row : Settled(s)' <=> Settled(s)
      BY <1>3 DEF Put, Settled, Durable, DurableIn
    <2>4. /\ \A s \in Row : s # i => pc'[s] = pc[s]
          /\ pc[i] = "held" /\ pc'[i] = "returned"
      BY <1>0, <1>3, RowFields DEF Put, TypeOK
    <2>5. FileInv'
      BY <1>0, <1>3, <2>3, <2>4, FileFrame DEF Put
    <2>6. Accounted'
      BY <1>0, <1>3, <1>h, <2>2, <2>3, <2>4 DEF Put, Accounted
    <2>7. TxnInv'
      BY <1>0, <1>3 DEF Put, TxnInv
    <2>8. QED
      BY <2>5, <2>6, <2>7 DEF LossInv
  <1>4. ASSUME NEW i \in Item, DropTelemetry(i)
        PROVE  LossInv'
    <2>1. i \notin Row
      BY <1>4, ConstantsAssumption DEF DropTelemetry
    <2>2. Pending' = Pending
      BY <1>4 DEF DropTelemetry, Pending, Unsettled, Elems
    <2>3. \A s \in Row : Settled(s)' <=> Settled(s)
      BY <1>4 DEF DropTelemetry, Settled, Durable, DurableIn
    <2>4. \A s \in Row : pc'[s] = pc[s]
      BY <1>0, <1>4, <2>1, RowFields DEF DropTelemetry, TypeOK
    <2>5. FileInv'
      BY <1>0, <1>4, <2>3, <2>4, FileFrame DEF DropTelemetry
    <2>6. Accounted'
      BY <1>0, <1>4, <1>h, <2>2, <2>3, <2>4 DEF DropTelemetry, Accounted
    <2>7. TxnInv'
      BY <1>0, <1>4 DEF DropTelemetry, TxnInv
    <2>8. QED
      BY <2>5, <2>6, <2>7 DEF LossInv
  <1>5. ASSUME NEW x \in Row, Name(x)
        PROVE  LossInv'
    <2>1. Pending' = Pending
      BY <1>5 DEF Name, Pending, Unsettled, Elems
    <2>2. \A s \in Row : Settled(s)' <=> Settled(s)
      BY <1>5 DEF Name, Settled, Durable, DurableIn
    <2>3. /\ \A s \in Row : s # x => pc'[s] = pc[s] /\ stamp'[s] = stamp[s]
          /\ pc[x] = "held" /\ pc'[x] = "naming" /\ stamp'[x] = named' + 1
          /\ named' \in {named, named + 1}
          /\ UNCHANGED <<file, pass, retiring>>
      BY <1>0, <1>5, RowFields DEF Name, TypeOK
    <2>4. /\ stamp[x] = 0 /\ file[x] = "none" /\ x \notin pass /\ x \notin retiring
          /\ named \in Nat /\ stamp'[x] # 0 /\ named <= named'
          /\ \A s \in Row : stamp[s] \in Nat
      <3>1. named \in Nat /\ \A s \in Row : stamp[s] \in Nat
        BY <1>0 DEF TypeOK
      <3>2. stamp[x] = 0
        BY <1>0, <2>3 DEF FileInv, NameInv
      <3>3. file[x] = "none" /\ x \notin pass /\ x \notin retiring
        BY <1>0, <3>2 DEF FileInv, NameInv
      <3>4. stamp'[x] # 0 /\ named <= named'
        <4>1. stamp'[x] = named' + 1 /\ (named' = named \/ named' = named + 1)
          BY <2>3
        <4>2. QED
          BY <3>1, <4>1
      <3>5. QED
        BY <3>1, <3>2, <3>3, <3>4
    <2>5. \A s \in Row : Shared(s) => Shared(s)'
      BY <2>3, <2>4 DEF Shared, Sharers
    <2>6. NameInv'
      <3>1. ASSUME NEW s \in Row, s # x
            PROVE  stamp'[s] <= named' + 1 /\ (pc[s] # "naming" => stamp'[s] <= named')
        <4>1. stamp[s] <= named + 1 /\ (pc[s] # "naming" => stamp[s] <= named)
          BY <1>0, <3>1 DEF FileInv, NameInv
        <4>2. QED
          BY <2>3, <2>4, <3>1, <4>1
      <3>2. QED
        BY <1>0, <2>3, <2>4, <3>1 DEF FileInv, NameInv
    <2>7. RetireInv'
      <3> SUFFICES ASSUME NEW r \in retiring
                   PROVE  \E m \in Row : stamp'[m] = stamp'[r] /\ Settled(m)'
        BY <2>3 DEF RetireInv
      <3>1. PICK m \in Row : stamp[m] = stamp[r] /\ Settled(m)
        BY <1>0 DEF FileInv, RetireInv
      <3>2. r \in Row /\ stamp[r] # 0 /\ r # x
        BY <1>0, <2>4 DEF FileInv, NameInv, TypeOK
      <3>3. m # x
        BY <2>4, <3>1, <3>2
      <3>4. QED
        BY <2>2, <2>3, <3>1, <3>2, <3>3
    <2>8. SpillInv' /\ TmpInv'
      BY <1>0, <2>2, <2>3, <2>5 DEF FileInv, SpillInv, TmpInv
    <2>9. HolderInv'
      <3> SUFFICES ASSUME NEW r \in Row, stamp'[r] # 0, pc'[r] \in {"spilling", "returned"}
                   PROVE  \E m \in Row : stamp'[m] = stamp'[r] /\ (file[m] # "none" \/ Settled(m)')
        BY <2>3 DEF HolderInv
      <3>1. r # x /\ stamp[r] # 0
        BY <2>3
      <3>2. PICK m \in Row : stamp[m] = stamp[r] /\ (file[m] # "none" \/ Settled(m))
        BY <1>0, <2>3, <3>1 DEF FileInv, HolderInv
      <3>3. m # x
        BY <2>4, <3>1, <3>2
      <3>4. QED
        BY <2>2, <2>3, <3>1, <3>2, <3>3
    <2>10. Accounted'
      BY <1>0, <2>1, <2>2, <2>3, <2>5 DEF Accounted
    <2>11. TxnInv'
      BY <1>0, <1>5 DEF Name, TxnInv
    <2>12. QED
      BY <2>6, <2>7, <2>8, <2>9, <2>10, <2>11 DEF LossInv, FileInv
  <1>5a. ASSUME NEW x \in Row, Open(x)
        PROVE  LossInv'
    <2> DEFINE S == {s \in Sharers(x) : Pooled => file[s] = "tmp"}
    <2>1. Pending' = Pending
      BY <1>5a DEF Open, Pending, Unsettled, Elems
    <2>2. \A s \in Row : Settled(s)' <=> Settled(s)
      BY <1>5a DEF Open, Settled, Durable, DurableIn
    <2>3. /\ \A s \in Row : s # x => pc'[s] = pc[s]
          /\ pc[x] = "naming" /\ pc'[x] = "spilling" /\ stamp' = stamp
          /\ named' = IF named < stamp[x] THEN stamp[x] ELSE named
          /\ TakesFile(x, S, IF Pooled THEN "tmp" ELSE "torn")
      BY <1>0, <1>5a, RowFields DEF Open, TypeOK
    <2>4. /\ stamp[x] # 0 /\ named <= named' /\ stamp[x] <= named'
      <3>1. named \in Nat /\ stamp[x] \in Nat
        BY <1>0 DEF TypeOK
      <3>2. QED
        BY <1>0, <2>3, <3>1 DEF FileInv, NameInv
    <2>5. S \in SUBSET Sharers(x)
      OBVIOUS
    <2> HIDE DEF S
    <2>6. /\ FileInv'
          /\ \A r \in Row : r # x => file'[r] = file[r] \/ Shared(r)'
          /\ \A r \in Row : Shared(r)' <=> Shared(r)
      <3>1. PICK bytes \in {"tmp", "torn", "whole"} : bytes = IF Pooled THEN "tmp" ELSE "torn"
        OBVIOUS
      <3>2. TakesFile(x, S, bytes)
        BY <2>3, <3>1
      <3>3. QED
        BY <1>0, <2>2, <2>3, <2>4, <2>5, <3>2, TakesFileLoss
    <2>7. Accounted'
      BY <1>0, <2>1, <2>2, <2>3, <2>6 DEF Accounted
    <2>8. TxnInv'
      BY <1>0, <1>5a DEF Open, TxnInv
    <2>9. QED
      BY <2>6, <2>7, <2>8 DEF LossInv
  <1>6. ASSUME NEW x \in Row, SpillDone(x)
        PROVE  LossInv'
    <2>1. Pending' = Pending
      BY <1>6 DEF SpillDone, Pending, Unsettled, Elems
    <2>2. \A s \in Row : Settled(s)' <=> Settled(s)
      BY <1>6 DEF SpillDone, Settled, Durable, DurableIn
    <2>3. /\ \A s \in Row : s # x => pc'[s] = pc[s]
          /\ pc[x] = "spilling" /\ pc'[x] = "returned"
          /\ UNCHANGED <<stamp, named>>
      BY <1>0, <1>6, RowFields DEF SpillDone, TypeOK
    <2>4. TxnInv'
      BY <1>0, <1>6 DEF SpillDone, TxnInv
    <2>5. ASSUME NEW bytes \in {"whole", "torn"}, bytes = "torn" => Shared(x),
                 TakesFile(x, Sharers(x), bytes)
          PROVE  LossInv'
      <3>1. stamp[x] # 0 /\ stamp[x] <= named /\ named \in Nat /\ named <= named'
        BY <1>0, <2>3 DEF FileInv, NameInv, TypeOK
      <3>2. /\ FileInv' /\ file'[x] = bytes
            /\ \A r \in Row : r # x => file'[r] = file[r] \/ Shared(r)'
            /\ \A r \in Row : Shared(r)' <=> Shared(r)
        BY <1>0, <2>2, <2>3, <2>5, <3>1, TakesFileLoss
      <3>3. Accounted'
        BY <1>0, <2>1, <2>2, <2>3, <2>5, <3>2 DEF Accounted
      <3>4. QED
        BY <2>4, <3>2, <3>3 DEF LossInv
    <2>6. ASSUME file[x] = "none", UNCHANGED <<file, pass, retiring>>
          PROVE  LossInv'
      <3>1. Settled(x) \/ Shared(x)
        BY <1>0, <2>3, <2>6 DEF FileInv, SpillInv
      <3>2. Accounted'
        BY <1>0, <1>h, <2>1, <2>2, <2>3, <2>6, <3>1 DEF Accounted
      <3>3. NameInv' /\ RetireInv'
        BY <1>0, <2>2, <2>3, <2>6 DEF FileInv, NameInv, RetireInv
      <3>4. SpillInv' /\ TmpInv'
        BY <1>0, <1>h, <2>2, <2>3, <2>6 DEF FileInv, SpillInv, TmpInv
      <3>5. HolderInv'
        BY <1>0, <2>2, <2>3, <2>6 DEF FileInv, HolderInv
      <3>6. QED
        BY <2>4, <3>2, <3>3, <3>4, <3>5 DEF LossInv, FileInv
    <2>7. QED
      BY <1>6, <2>5, <2>6 DEF SpillDone
  <1>6a. ASSUME NEW x \in Row, SpillBeaten(x)
        PROVE  LossInv'
    <2>1. Pending' = Pending
      BY <1>6a DEF SpillBeaten, Pending, Unsettled, Elems
    <2>2. /\ dead \subseteq dead' /\ lost \subseteq lost' /\ husk' = husk
          /\ x \in dead' \cup lost'
      BY <1>6a, DeadLetterSettles DEF SpillBeaten
    <2>3. Settled(x)' /\ \A s \in Row : Settled(s) => Settled(s)'
      BY <2>2, <1>6a DEF SpillBeaten, Settled, Durable, DurableIn
    <2>4. /\ \A s \in Row : s # x => pc'[s] = pc[s]
          /\ pc[x] = "spilling" /\ pc'[x] = "returned"
          /\ UNCHANGED <<stamp, named>>
      BY <1>0, <1>6a, RowFields DEF SpillBeaten, TypeOK
    <2>5. TxnInv'
      BY <1>0, <1>6a DEF SpillBeaten, TxnInv
    <2>6. ASSUME NEW bytes \in {"whole", "torn"}, TakesFile(x, Sharers(x), bytes)
          PROVE  LossInv'
      <3>1. stamp[x] # 0 /\ stamp[x] <= named /\ named \in Nat /\ named <= named'
        BY <1>0, <2>4 DEF FileInv, NameInv, TypeOK
      <3>2. /\ FileInv' /\ file'[x] = bytes
            /\ \A r \in Row : r # x => file'[r] = file[r] \/ Shared(r)'
            /\ \A r \in Row : Shared(r)' <=> Shared(r)
        BY <1>0, <2>3, <2>4, <2>6, <3>1, TakesFileLoss
      <3>3. Accounted'
        BY <1>0, <2>1, <2>3, <2>4, <3>2 DEF Accounted
      <3>4. QED
        BY <2>5, <3>2, <3>3 DEF LossInv
    <2>7. ASSUME UNCHANGED <<file, pass, retiring>>
          PROVE  LossInv'
      <3>1. FileInv'
        BY <1>0, <2>3, <2>4, <2>7, FileFrame
      <3>2. Accounted'
        BY <1>0, <1>h, <2>1, <2>3, <2>4, <2>7 DEF Accounted
      <3>3. QED
        BY <2>5, <3>1, <3>2 DEF LossInv
    <2>8. QED
      BY <1>6a, <2>6, <2>7 DEF SpillBeaten
  <1>7. ASSUME NEW r \in Row, SpillRefused(r)
        PROVE  LossInv'
    <2>1. /\ dead \subseteq dead' /\ lost \subseteq lost' /\ husk' = husk
          /\ r \in dead' \cup lost'
      BY <1>7, DeadLetterSettles DEF SpillRefused
    <2>2. Settled(r)' /\ \A s \in Row : Settled(s) => Settled(s)'
      BY <2>1, <1>7 DEF SpillRefused, Settled, Durable, DurableIn
    <2>3. Pending' = Pending
      BY <1>7 DEF SpillRefused, Pending, Unsettled, Elems
    <2>4. /\ \A s \in Row : s # r => pc'[s] = pc[s]
          /\ pc[r] \in {"held", "spilling"} /\ pc'[r] = "returned"
      BY <1>0, <1>7, RowFields DEF SpillRefused, TypeOK
    <2>5. FileInv'
      BY <1>0, <1>7, <2>2, <2>4, FileFrame DEF SpillRefused
    <2>6. Accounted'
      BY <1>0, <1>7, <1>h, <2>2, <2>3, <2>4 DEF SpillRefused, Accounted
    <2>7. TxnInv'
      BY <1>0, <1>7 DEF SpillRefused, TxnInv
    <2>8. QED
      BY <2>5, <2>6, <2>7 DEF LossInv
  <1>8. CASE Construct
    <2>1. Pending \subseteq Pending'
      BY <1>0, <1>8 DEF Construct, Pending, Unsettled, Elems, TypeOK, BatchInv
    <2>2. TxnInv'
      BY <1>0, <1>8 DEF Construct, TxnInv
    <2>3. QED
      BY <1>0, <1>8, <2>1, <2>2, LossFrame DEF Construct
  <1>9. CASE ConstructFails
    <2>1. Pending \subseteq Pending'
      BY <1>0, <1>9 DEF ConstructFails, Pending, Unsettled, Elems, TypeOK, BatchInv
    <2>2. TxnInv'
      BY <1>0, <1>9 DEF ConstructFails, TxnInv
    <2>3. QED
      BY <1>0, <1>9, <2>1, <2>2, LossFrame DEF ConstructFails
  <1>10. CASE Touch
    <2>1. Pending \subseteq Pending'
      BY <1>0, <1>10 DEF Touch, Pending, Unsettled, Elems, TypeOK, BatchInv
    <2>2. TxnInv'
      BY <1>0, <1>10 DEF Touch, TxnInv
    <2>3. QED
      BY <1>0, <1>10, <2>1, <2>2, LossFrame DEF Touch
  <1>11. CASE TouchFails
    <2>1. Pending \subseteq Pending'
      BY <1>0, <1>11 DEF TouchFails, Pending, Unsettled, Elems, TypeOK, BatchInv
    <2>2. TxnInv'
      BY <1>0, <1>11 DEF TouchFails, TxnInv
    <2>3. QED
      BY <1>0, <1>11, <2>1, <2>2, LossFrame DEF TouchFails
  <1>12. CASE LoopHead
    <2>1. Pending \subseteq Pending'
      BY <1>0, <1>12 DEF LoopHead, Pending, Unsettled, Elems, TypeOK, BatchInv
    <2>2. TxnInv'
      BY <1>0, <1>12 DEF LoopHead, TxnInv
    <2>3. QED
      BY <1>0, <1>12, <2>1, <2>2, LossFrame DEF LoopHead
  <1>14. CASE BeginBatch
    <2>1. Pending \subseteq Pending'
      BY <1>14 DEF BeginBatch, Pending, Unsettled, Elems
    <2>2. done' = 0 /\ work' = ledger'
      BY <1>0, <1>14 DEF BeginBatch, BatchInv
    <2>3. TxnInv'
      BY <2>2 DEF TxnInv, Forward
    <2>4. QED
      BY <1>0, <1>14, <2>1, <2>3, LossFrame DEF BeginBatch
  <1>17. CASE Rollback
    <2>1. Pending \subseteq Pending'
      BY <1>0, <1>17 DEF Rollback, Pending, Unsettled, Elems, TypeOK, BatchInv
    <2>2. TxnInv'
      BY <1>0, <1>17 DEF Rollback, TxnInv
    <2>3. QED
      BY <1>0, <1>17, <2>1, <2>2, LossFrame DEF Rollback
  <1>19. CASE SalvageDone
    <2>1. Pending \subseteq Pending'
      BY <1>0, <1>19 DEF SalvageDone, Pending, Unsettled, Elems, TypeOK, BatchInv
    <2>2. TxnInv'
      BY <1>0, <1>19 DEF SalvageDone, TxnInv
    <2>3. QED
      BY <1>0, <1>19, <2>1, <2>2, LossFrame DEF SalvageDone
  <1>20. CASE Acknowledge
    <2>1. Pending \subseteq Pending'
      BY <1>0, <1>20 DEF Acknowledge, Pending, Unsettled, Elems, TypeOK, BatchInv
    <2>2. TxnInv'
      BY <1>0, <1>20 DEF Acknowledge, TxnInv
    <2>3. QED
      BY <1>0, <1>20, <2>1, <2>2, LossFrame DEF Acknowledge
  <1>21. CASE Idle
    <2>1. Pending \subseteq Pending'
      BY <1>0, <1>21 DEF Idle, Pending, Unsettled, Elems, TypeOK, BatchInv
    <2>2. TxnInv'
      BY <1>0, <1>21 DEF Idle, TxnInv
    <2>3. QED
      BY <1>0, <1>21, <2>1, <2>2, LossFrame DEF Idle
  <1>22. CASE DrainEnds
    <2>1. Pending \subseteq Pending'
      BY <1>0, <1>22 DEF DrainEnds, Pending, Unsettled, Elems, TypeOK, BatchInv
    <2>2. TxnInv'
      BY <1>0, <1>22 DEF DrainEnds, TxnInv
    <2>3. QED
      BY <1>0, <1>22, <2>1, <2>2, LossFrame DEF DrainEnds
  <1>26. CASE CadenceElapses
    <2>1. Pending \subseteq Pending'
      BY <1>0, <1>26 DEF CadenceElapses, Pending, Unsettled, Elems, TypeOK, BatchInv
    <2>2. TxnInv'
      BY <1>0, <1>26 DEF CadenceElapses, TxnInv
    <2>3. QED
      BY <1>0, <1>26, <2>1, <2>2, LossFrame DEF CadenceElapses
  <1>27. CASE BeginClose
    <2>1. Pending \subseteq Pending'
      BY <1>0, <1>27 DEF BeginClose, Pending, Unsettled, Elems, TypeOK, BatchInv
    <2>2. TxnInv'
      BY <1>0, <1>27 DEF BeginClose, TxnInv
    <2>3. QED
      BY <1>0, <1>27, <2>1, <2>2, LossFrame DEF BeginClose
  <1>28. CASE FlushReturns
    <2>1. Pending \subseteq Pending'
      BY <1>0, <1>28 DEF FlushReturns, Pending, Unsettled, Elems, TypeOK, BatchInv
    <2>2. TxnInv'
      BY <1>0, <1>28 DEF FlushReturns, TxnInv
    <2>3. QED
      BY <1>0, <1>28, <2>1, <2>2, LossFrame DEF FlushReturns
  <1>29. CASE FlushTimesOut
    <2>1. Pending \subseteq Pending'
      BY <1>0, <1>29 DEF FlushTimesOut, Pending, Unsettled, Elems, TypeOK, BatchInv
    <2>2. TxnInv'
      BY <1>0, <1>29 DEF FlushTimesOut, TxnInv
    <2>3. QED
      BY <1>0, <1>29, <2>1, <2>2, LossFrame DEF FlushTimesOut
  <1>30. CASE JoinEnds
    <2>1. Pending \subseteq Pending'
      BY <1>0, <1>30 DEF JoinEnds, Pending, Unsettled, Elems, TypeOK, BatchInv
    <2>2. TxnInv'
      BY <1>0, <1>30 DEF JoinEnds, TxnInv
    <2>3. QED
      BY <1>0, <1>30, <2>1, <2>2, LossFrame DEF JoinEnds
  <1>13. CASE Take
    <2>1. Elems(queue) = Elems(queue') \cup {Head(queue)} /\ Head(queue) \in Item
      BY <1>0, <1>13, ElemsTail DEF Take, TypeOK
    <2>2. Elems(batch') = Elems(batch) \cup {Head(queue)}
      BY <1>0, <2>1, <1>13, ElemsAppend DEF Take, TypeOK
    <2>3. Pending = Elems(queue) \cup Elems(batch) /\ Pending' = Elems(queue') \cup Elems(batch')
      BY <1>13 DEF Take, Pending, Unsettled, Elems
    <2>4. Pending' = Pending
      BY <2>1, <2>2, <2>3
    <2>5. TxnInv'
      BY <1>0, <1>13 DEF Take, TxnInv
    <2>6. QED
      BY <1>0, <2>4, <2>5, <1>13, LossFrame DEF Take
  <1>15. CASE Execute
    <2>1. batch[done + 1] \in Item /\ done \in Nat
      BY <1>0, <1>15 DEF Execute, TypeOK
    <2>2. /\ \A t \in Ticket : Forward(work[t], work'[t])
          /\ batch[done + 1] \in Row => DurableIn(work', batch[done + 1])
      BY <1>0, <2>1, <1>15, ApplyFacts DEF Execute, TypeOK
    <2>3. \A t \in Ticket : Forward(ledger'[t], work'[t])
      <3>1. SUFFICES ASSUME NEW t \in Ticket PROVE Forward(ledger[t], work'[t])
        BY <1>15 DEF Execute
      <3>2. ledger[t] \in LedgerState /\ work[t] \in LedgerState /\ work'[t] \in LedgerState
        BY <1>0 DEF TypeOK
      <3>3. Forward(ledger[t], work[t]) /\ Forward(work[t], work'[t])
        BY <1>0, <2>2, <1>15 DEF Execute, TxnInv
      <3>4. QED
        BY <3>2, <3>3, ForwardTransitive
    <2>4. ASSUME NEW n \in 1..done', batch'[n] \in Row
          PROVE  DurableIn(work', batch'[n])
      <3>1. n \in 1..done \/ n = done + 1
        BY <2>1, <1>15 DEF Execute
      <3>2. CASE n \in 1..done
        <4>1. DurableIn(work, batch[n])
          BY <1>0, <2>4, <3>2, <1>15 DEF Execute, TxnInv
        <4>2. batch[n] \in Row
          BY <2>4, <1>15 DEF Execute
        <4>3. DurableIn(work', batch[n])
          BY <1>0, <2>2, <4>1, <4>2, ForwardKeeps DEF TypeOK
        <4>4. QED
          BY <4>3, <1>15 DEF Execute
      <3>3. CASE n = done + 1
        BY <2>2, <2>4, <3>3, <1>15 DEF Execute
      <3>4. QED
        BY <3>1, <3>2, <3>3
    <2>5. TxnInv'
      BY <2>3, <2>4 DEF TxnInv
    <2>6. Pending' = Pending
      BY <1>15 DEF Execute, Pending, Unsettled, Elems
    <2>7. QED
      BY <1>0, <2>5, <2>6, <1>15, LossFrame DEF Execute
  <1>16. CASE Commit
    <2>1. \A s \in Row : Settled(s) => Settled(s)'
      BY <1>0, <1>16, SettledKeeps DEF Commit, TxnInv
    <2>2. ASSUME NEW s \in Row, s \in Pending
          PROVE  s \in Pending' \/ Settled(s)'
      <3>1. CASE s \in Elems(queue)
        BY <3>1, <1>16 DEF Commit, Pending, Elems
      <3>2. CASE s \in Elems(batch)
        <4>1. PICK n \in 1..done : batch[n] = s
          BY <3>2, <1>16 DEF Commit, Elems
        <4>2. DurableIn(work, s)
          BY <1>0, <4>1, <1>16 DEF Commit, TxnInv
        <4>3. QED
          BY <4>2, <1>16 DEF Commit, Settled, Durable, DurableIn
      <3>3. QED
        BY <2>2, <3>1, <3>2, <1>16 DEF Commit, Pending, Unsettled
    <2>3. FileInv'
      BY <1>0, <2>1, <1>16, FileFrame DEF Commit
    <2>4. Accounted'
      BY <1>0, <1>h, <2>1, <2>2, <1>16 DEF Commit, Accounted
    <2>5. TxnInv'
      BY <1>16 DEF Commit, TxnInv
    <2>6. QED
      BY <2>3, <2>4, <2>5 DEF LossInv
  <1>18. CASE SalvageRow
    <2>0. batch[done + 1] \in Item /\ done \in Nat
      BY <1>0, <1>18 DEF SalvageRow, TypeOK
    <2>1. PICK i \in Item : i = batch[done + 1]
      BY <2>0
    <2>2. /\ \A s \in Row : Settled(s) => Settled(s)'
          /\ i \in Row => Settled(i)'
      <3>1. CASE ledger' = Apply(ledger, i) /\ UNCHANGED <<dead, husk, lost>>
        <4>1. /\ \A t \in Ticket : Forward(ledger[t], ledger'[t])
              /\ i \in Row => DurableIn(ledger', i)
          BY <1>0, <3>1, ApplyFacts DEF TypeOK
        <4>2. \A s \in Row : Settled(s) => Settled(s)'
          BY <1>0, <3>1, <4>1, <1>18, SettledKeeps DEF SalvageRow
        <4>3. i \in Row => Settled(i)'
          BY <4>1, <1>18 DEF SalvageRow, Settled, Durable, DurableIn
        <4>4. QED
          BY <4>2, <4>3
      <3>2. CASE DeadLetter(i) /\ UNCHANGED ledger
        <4>1. /\ dead \subseteq dead' /\ lost \subseteq lost' /\ husk' = husk
              /\ i \in Row => i \in dead' \cup lost'
          BY <2>1, <3>2, DeadLetterSettles, DeadLetterKeeps
        <4>2. \A s \in Row : Settled(s) => Settled(s)'
          BY <3>2, <4>1, <1>18 DEF SalvageRow, Settled, Durable, DurableIn
        <4>3. i \in Row => Settled(i)'
          BY <4>1, <1>18 DEF SalvageRow, Settled
        <4>4. QED
          BY <4>2, <4>3
      <3>3. QED
        BY <2>1, <3>1, <3>2, <1>18 DEF SalvageRow
    <2>3. ASSUME NEW s \in Row, s \in Pending
          PROVE  s \in Pending' \/ Settled(s)'
      <3>1. CASE s \in Elems(queue)
        BY <3>1, <1>18 DEF SalvageRow, Pending, Elems
      <3>2. CASE s \in {batch[n] : n \in done + 1..Len(batch)}
        <4>1. PICK n \in done + 1..Len(batch) : batch[n] = s
          BY <3>2
        <4>2. CASE n = done + 1
          BY <2>1, <2>2, <4>1, <4>2
        <4>3. CASE n # done + 1
          <5>1. n \in done' + 1..Len(batch')
            BY <2>0, <4>1, <4>3, <1>18 DEF SalvageRow
          <5>2. QED
            BY <4>1, <5>1, <1>18 DEF SalvageRow, Pending, Unsettled
        <4>4. QED
          BY <4>2, <4>3
      <3>3. QED
        BY <2>3, <3>1, <3>2, <1>18 DEF SalvageRow, Pending, Unsettled
    <2>4. FileInv'
      BY <1>0, <2>2, <1>18, FileFrame DEF SalvageRow
    <2>5. Accounted'
      BY <1>0, <1>h, <2>2, <2>3, <1>18 DEF SalvageRow, Accounted
    <2>6. TxnInv'
      BY <1>18 DEF SalvageRow, TxnInv
    <2>7. QED
      BY <2>4, <2>5, <2>6 DEF LossInv
  <1>23. ASSUME NEW r \in Row, Replay(r)
        PROVE  LossInv'
    <2>1. /\ \A t \in Ticket : Forward(ledger[t], ledger'[t])
          /\ DurableIn(ledger', r)
      BY <1>0, <1>23, ApplyFacts, RowFields DEF Replay, TypeOK
    <2>2. \A s \in Row : Settled(s) => Settled(s)'
      BY <1>0, <2>1, <1>23, SettledKeeps DEF Replay
    <2>3. Settled(r)'
      BY <2>1, <1>23 DEF Replay, Settled, Durable, DurableIn
    <2>4. Pending' = Pending
      BY <1>23 DEF Replay, Pending, Unsettled, Elems
    <2>5. FileInv'
      <3>1. RetireInv'
        BY <1>0, <2>3, <1>23 DEF Replay, RetireInv
      <3>2. NameInv'
        <4>1. r \in pass
          BY <1>23 DEF Replay, Oldest
        <4>2. QED
          BY <1>0, <4>1, <1>23 DEF Replay, FileInv, NameInv
      <3>3. SpillInv' /\ TmpInv'
        BY <1>0, <1>h, <2>2, <1>23 DEF Replay, FileInv, SpillInv, TmpInv
      <3>4. HolderInv'
        BY <1>0, <2>2, <1>23 DEF Replay, FileInv, HolderInv
      <3>5. QED
        BY <3>1, <3>2, <3>3, <3>4 DEF FileInv
    <2>6. Accounted'
      BY <1>0, <1>h, <2>2, <2>4, <1>23 DEF Replay, Accounted
    <2>7. TxnInv'
      BY <1>23 DEF Replay, TxnInv
    <2>8. QED
      BY <2>5, <2>6, <2>7 DEF LossInv
  <1>24. ASSUME NEW r \in Row, ReplayRejected(r)
        PROVE  LossInv'
    <2>1. husk \subseteq husk' /\ lost \subseteq lost' /\ dead' = dead /\ r \in husk' \cup lost'
      BY <1>24 DEF ReplayRejected, DeadLetterNoArgs
    <2>2. \A s \in Row : Settled(s) => Settled(s)'
      BY <2>1, <1>24 DEF ReplayRejected, Settled, Durable, DurableIn
    <2>3. Settled(r)'
      BY <2>1 DEF Settled
    <2>4. Pending' = Pending
      BY <1>24 DEF ReplayRejected, Pending, Unsettled, Elems
    <2>5. FileInv'
      <3>1. RetireInv'
        BY <1>0, <2>3, <1>24 DEF ReplayRejected, RetireInv
      <3>2. NameInv'
        <4>1. r \in pass
          BY <1>24 DEF ReplayRejected, Oldest
        <4>2. QED
          BY <1>0, <4>1, <1>24 DEF ReplayRejected, FileInv, NameInv
      <3>3. SpillInv' /\ TmpInv'
        BY <1>0, <1>h, <2>2, <1>24 DEF ReplayRejected, FileInv, SpillInv, TmpInv
      <3>4. HolderInv'
        BY <1>0, <2>2, <1>24 DEF ReplayRejected, FileInv, HolderInv
      <3>5. QED
        BY <3>1, <3>2, <3>3, <3>4 DEF FileInv
    <2>6. Accounted'
      BY <1>0, <1>h, <2>2, <2>4, <1>24 DEF ReplayRejected, Accounted
    <2>7. TxnInv'
      BY <1>24 DEF ReplayRejected, TxnInv
    <2>8. QED
      BY <2>5, <2>6, <2>7 DEF LossInv
  <1>25. ASSUME NEW x \in Row, Retire(x)
        PROVE  LossInv'
    <2>1. Pending' = Pending
      BY <1>25 DEF Retire, Pending, Unsettled, Elems
    <2>2. \A s \in Row : Settled(s)' <=> Settled(s)
      BY <1>25 DEF Retire, Settled, Durable, DurableIn
    <2>3. /\ x \in retiring /\ retiring' = {} /\ UNCHANGED <<pc, stamp, named, pass>>
          /\ \A s \in Row : s # x => file'[s] = file[s]
          /\ file'[x] = file[x] \/ file'[x] = "none"
      BY <1>0, <1>25 DEF Retire, TypeOK
    <2>4. PICK m \in Row : stamp[m] = stamp[x] /\ Settled(m)
      BY <1>0, <2>3 DEF FileInv, RetireInv
    <2>5. stamp[x] # 0
      BY <1>0, <2>3 DEF FileInv, NameInv
    <2>6. Settled(x) \/ Shared(x)
      BY <2>4, <2>5 DEF Shared, Sharers
    <2>7. Accounted'
      BY <1>0, <1>h, <2>1, <2>2, <2>3, <2>6 DEF Accounted
    <2>8. NameInv' /\ RetireInv'
      BY <1>0, <2>3 DEF FileInv, NameInv, RetireInv
    <2>9. SpillInv' /\ TmpInv'
      BY <1>0, <1>h, <2>2, <2>3, <2>6 DEF FileInv, SpillInv, TmpInv
    <2>10. HolderInv'
      <3> SUFFICES ASSUME NEW r \in Row, stamp[r] # 0, pc[r] \in {"spilling", "returned"}
                   PROVE  \E k \in Row : stamp[k] = stamp[r] /\ (file'[k] # "none" \/ Settled(k)')
        BY <2>3 DEF HolderInv
      <3>1. PICK k \in Row : stamp[k] = stamp[r] /\ (file[k] # "none" \/ Settled(k))
        BY <1>0 DEF FileInv, HolderInv
      <3>2. CASE k = x
        BY <2>2, <2>4, <3>1, <3>2
      <3>3. CASE k # x
        BY <2>2, <2>3, <3>1, <3>3
      <3>4. QED
        BY <3>2, <3>3
    <2>11. TxnInv'
      BY <1>0, <1>25 DEF Retire, TxnInv
    <2>12. QED
      BY <2>7, <2>8, <2>9, <2>10, <2>11 DEF LossInv, FileInv
  <1>31. CASE Restart
    <2>1. /\ crashLost' = crashLost \cup (Pending \cap Row)
          /\ \A s \in Row : pc'[s] = IF pc[s] \in {"held", "naming", "spilling"} THEN "failed"
                                    ELSE pc[s]
          /\ named' = named + 1 /\ pass' = {} /\ retiring' = {} /\ wpc' = "construct"
          /\ UNCHANGED <<file, stamp, ledger, dead, lost, husk>>
      BY <1>31, RowFields DEF Restart
    <2>2. /\ \A s \in Row : Settled(s) => Settled(s)'
          /\ \A s \in Row : s \in Pending => Settled(s)'
      BY <2>1 DEF Settled, Durable, DurableIn
    <2>3. Accounted'
      BY <1>0, <1>h, <2>1, <2>2 DEF Accounted
    <2>4. NameInv'
      <3>1. \A s \in Row : stamp[s] \in Nat /\ named \in Nat
        BY <1>0 DEF TypeOK
      <3>2. \A s \in Row : stamp[s] <= named + 1
        BY <1>0, <3>1 DEF FileInv, NameInv
      <3>3. QED
        BY <1>0, <2>1, <3>1, <3>2 DEF FileInv, NameInv
    <2>5. RetireInv' /\ SpillInv' /\ TmpInv'
      BY <1>0, <2>1, <2>2 DEF FileInv, RetireInv, SpillInv, TmpInv
    <2>6. HolderInv'
      BY <1>0, <2>1, <2>2 DEF FileInv, HolderInv
    <2>7. TxnInv'
      BY <2>1 DEF TxnInv
    <2>8. QED
      BY <2>3, <2>4, <2>5, <2>6, <2>7 DEF LossInv, FileInv
  <1>32. CASE UNCHANGED vars
    <2>1. Pending' = Pending
      BY <1>32 DEF Pending, Unsettled, Elems
    <2>2. TxnInv'
      BY <1>0, <1>32 DEF TxnInv, DurableIn
    <2>3. QED
      BY <1>0, <1>32, <2>1, <2>2, LossFrame
  <1>33. QED
    BY <1>1, <1>2, <1>3, <1>4, <1>5, <1>5a, <1>6, <1>6a, <1>7, <1>8, <1>9, <1>10, <1>11, <1>12, <1>13, <1>14, <1>15, <1>16, <1>17, <1>18, <1>19, <1>20, <1>21, <1>22, <1>23, <1>24, <1>25, <1>26, <1>27, <1>28, <1>29, <1>30, <1>31, <1>32 DEF Next, Produce, Worker, Closer

\* A row that vanished left another row of its file name behind.
LEMMA VanishedIsShared == TypeOK /\ LossInv => NoSilentLoss
  <1> SUFFICES ASSUME TypeOK, LossInv, NEW r \in Row, Fate(r) = "vanished"
               PROVE  \E s \in Sharers(r) : Fate(s) # "vanished"
    BY DEF NoSilentLoss
  <1>1. /\ pc[r] = "returned" /\ r \notin Pending /\ file[r] \notin {"whole", "torn"}
        /\ ~Settled(r)
    BY DEF Fate, Settled
  <1>2. Shared(r) /\ stamp[r] # 0
    BY <1>1 DEF LossInv, Accounted, Shared, Sharers
  <1>3. PICK m \in Row : stamp[m] = stamp[r] /\ (file[m] # "none" \/ Settled(m))
    BY <1>1, <1>2 DEF LossInv, FileInv, HolderInv
  <1>4. file[m] \in {"none", "tmp"} /\ pc[m] = "returned" => Settled(m)
    BY <1>3 DEF LossInv, FileInv, TmpInv
  <1>5. Fate(m) # "vanished"
    <2>1. file[m] \in {"none", "tmp", "torn", "whole"}
      BY DEF TypeOK
    <2>2. CASE pc[m] # "returned"
      BY <2>2 DEF Fate
    <2>3. CASE pc[m] = "returned" /\ Settled(m)
      BY <2>3 DEF Fate, Settled
    <2>4. CASE pc[m] = "returned" /\ ~Settled(m)
      BY <1>4, <2>1, <2>4 DEF Fate
    <2>5. QED
      BY <2>2, <2>3, <2>4
  <1>6. m \in Sharers(r)
    BY <1>2, <1>3, <1>5 DEF Sharers
  <1>7. QED
    BY <1>5, <1>6

\* No financial row is silently dropped, whatever faults, crashes and restarts
\* happen and whatever the capacities are, unless its producer and another drew
\* the same overflow file name; and then one of the rows of that name is kept.
THEOREM NeverSilentlyLost == Spec => []NoSilentLoss
  <1>1. Init => TypeInv /\ LossInv
    BY TypeInit, LossInit
  <1>2. TypeInv /\ LossInv /\ [Next]_vars => TypeInv' /\ LossInv'
    BY TypeStep, LossStep
  <1>3. TypeInv /\ LossInv => NoSilentLoss
    BY VanishedIsShared DEF TypeInv
  <1>4. QED
    BY <1>1, <1>2, <1>3, PTL DEF Spec

LEMMA ForwardStep == TypeInv /\ LossInv /\ [Next]_vars => LedgerMovesForward
  <1> SUFFICES ASSUME TypeInv, LossInv, [Next]_vars
               PROVE  LedgerMovesForward
    OBVIOUS
  <1> USE DEF queueVars, workerVars, fileVars, drainVars, storeVars, lifeVars
  <1>1. TypeOK
    BY DEF TypeInv
  <1>2. ASSUME \A t \in Ticket : Forward(ledger[t], ledger'[t])
        PROVE  LedgerMovesForward
    BY <1>2 DEF Forward, LedgerMovesForward
  <1>3. CASE ledger' = ledger
    BY <1>3 DEF LedgerMovesForward
  <1>4. CASE Commit
    BY <1>2, <1>4 DEF Commit, LossInv, TxnInv
  <1>5. CASE SalvageRow
    <2>1. CASE ledger' = Apply(ledger, batch[done + 1])
      <3>1. batch[done + 1] \in Item
        BY <1>1, <1>5 DEF SalvageRow, TypeOK
      <3>2. QED
        BY <1>1, <1>2, <2>1, <3>1, ApplyFacts DEF TypeOK
    <2>2. QED
      BY <1>3, <1>5, <2>1 DEF SalvageRow
  <1>6. ASSUME NEW r \in Row, Replay(r)
        PROVE  LedgerMovesForward
    BY <1>1, <1>2, <1>6, ApplyFacts, RowFields DEF Replay, TypeOK
  <1>7. Next \/ UNCHANGED vars
    OBVIOUS
  <1>8. CASE Produce \/ CadenceElapses \/ Closer \/ Restart
    <2>1. ledger' = ledger
      BY <1>8 DEF Produce, Closer, CadenceElapses, Restart, Resolve, RefuseArity, Put,
           DropTelemetry, Name, Open, SpillDone, SpillBeaten, SpillRefused, BeginClose, FlushReturns,
           FlushTimesOut, JoinEnds
    <2>2. QED
      BY <1>3, <2>1
  <1>9. CASE Worker
    <2>1. \/ Commit \/ SalvageRow \/ (\E r \in Row : Replay(r)) \/ ledger' = ledger
      BY <1>9 DEF Worker, Construct, ConstructFails, Touch, TouchFails, LoopHead, Take,
           BeginBatch, Execute, Rollback, SalvageDone, Acknowledge, Idle, DrainEnds,
           ReplayRejected, Retire
    <2>2. QED
      BY <1>3, <1>4, <1>5, <1>6, <2>1
  <1>10. CASE UNCHANGED vars
    BY <1>3, <1>10 DEF vars
  <1>11. QED
    BY <1>7, <1>8, <1>9, <1>10 DEF Next

\* No step moves a ticket of the ledger backwards.
THEOREM ForwardOnly == Spec => LedgerNeverRegresses
  <1>1. Init => TypeInv /\ LossInv
    BY TypeInit, LossInit
  <1>2. TypeInv /\ LossInv /\ [Next]_vars => TypeInv' /\ LossInv'
    BY TypeStep, LossStep
  <1>3. TypeInv /\ LossInv /\ [Next]_vars => [LedgerMovesForward]_vars
    BY ForwardStep
  <1>4. QED
    BY <1>1, <1>2, <1>3, PTL DEF Spec, LedgerNeverRegresses

-----------------------------------------------------------------------------
(* Flush *)

FlushInv == CoveredInv /\ FlushHonest

\* A row the flush vouched for was handed over before, so no later step can
\* bring it back into memory.
LEMMA PendingOnlyShrinks ==
    ASSUME TypeInv, TypeInv', [Next]_vars, NEW r \in Row, pc[r] = "returned", r \notin Pending
    PROVE  r \notin Pending' /\ pc'[r] = "returned"
  <1> USE DEF vars, queueVars, workerVars, fileVars, drainVars, storeVars, lifeVars
  <1>0. TypeOK /\ BatchInv /\ r \in Item
    BY RowFields DEF TypeInv
  <1>1. ASSUME NEW i \in Item, Resolve(i)
        PROVE  r \notin Pending' /\ pc'[r] = "returned"
    BY <1>0, <1>1 DEF Resolve, Pending, Unsettled, Elems, TypeOK, BatchInv
  <1>2. ASSUME NEW i \in Item, RefuseArity(i)
        PROVE  r \notin Pending' /\ pc'[r] = "returned"
    BY <1>0, <1>2 DEF RefuseArity, Pending, Unsettled, Elems, TypeOK, BatchInv
  <1>3. ASSUME NEW i \in Item, Put(i)
        PROVE  r \notin Pending' /\ pc'[r] = "returned"
    <2>1. Elems(queue') = Elems(queue) \cup {i}
      BY <1>0, <1>3, ElemsAppend DEF Put, TypeOK
    <2>2. QED
      BY <1>0, <1>3, <2>1 DEF Put, Pending, Unsettled, TypeOK, Elems
  <1>4. ASSUME NEW i \in Item, DropTelemetry(i)
        PROVE  r \notin Pending' /\ pc'[r] = "returned"
    BY <1>0, <1>4 DEF DropTelemetry, Pending, Unsettled, Elems, TypeOK, BatchInv
  <1>5. ASSUME NEW x \in Row, Name(x)
        PROVE  r \notin Pending' /\ pc'[r] = "returned"
    BY <1>0, <1>5 DEF Name, Pending, Unsettled, Elems, TypeOK, BatchInv
  <1>5a. ASSUME NEW x \in Row, Open(x)
        PROVE  r \notin Pending' /\ pc'[r] = "returned"
    BY <1>0, <1>5a DEF Open, Pending, Unsettled, Elems, TypeOK, BatchInv
  <1>6a. ASSUME NEW x \in Row, SpillBeaten(x)
        PROVE  r \notin Pending' /\ pc'[r] = "returned"
    BY <1>0, <1>6a DEF SpillBeaten, Pending, Unsettled, Elems, TypeOK, BatchInv
  <1>6. ASSUME NEW x \in Row, SpillDone(x)
        PROVE  r \notin Pending' /\ pc'[r] = "returned"
    BY <1>0, <1>6 DEF SpillDone, Pending, Unsettled, Elems, TypeOK, BatchInv
  <1>7. ASSUME NEW x \in Row, SpillRefused(x)
        PROVE  r \notin Pending' /\ pc'[r] = "returned"
    BY <1>0, <1>7 DEF SpillRefused, Pending, Unsettled, Elems, TypeOK, BatchInv
  <1>8. CASE Construct
    BY <1>0, <1>8 DEF Construct, Pending, Unsettled, Elems, TypeOK, BatchInv
  <1>9. CASE ConstructFails
    BY <1>0, <1>9 DEF ConstructFails, Pending, Unsettled, Elems, TypeOK, BatchInv
  <1>10. CASE Touch
    BY <1>0, <1>10 DEF Touch, Pending, Unsettled, Elems, TypeOK, BatchInv
  <1>11. CASE TouchFails
    BY <1>0, <1>11 DEF TouchFails, Pending, Unsettled, Elems, TypeOK, BatchInv
  <1>12. CASE LoopHead
    BY <1>0, <1>12 DEF LoopHead, Pending, Unsettled, Elems, TypeOK, BatchInv
  <1>13. CASE Take
    <2>1. Elems(queue) = Elems(queue') \cup {Head(queue)} /\ Head(queue) \in Item
      BY <1>0, <1>13, ElemsTail DEF Take, TypeOK
    <2>2. Elems(batch') = Elems(batch) \cup {Head(queue)}
      BY <1>0, <2>1, <1>13, ElemsAppend DEF Take, TypeOK
    <2>3. Pending = Elems(queue) \cup Elems(batch) /\ Pending' = Elems(queue') \cup Elems(batch')
      BY <1>13 DEF Take, Pending, Unsettled, Elems
    <2>4. QED
      BY <2>1, <2>2, <2>3, <1>13 DEF Take
  <1>14. CASE BeginBatch
    BY <1>0, <1>14 DEF BeginBatch, Pending, Unsettled, Elems, TypeOK, BatchInv
  <1>15. CASE Execute
    BY <1>0, <1>15 DEF Execute, Pending, Unsettled, Elems, TypeOK, BatchInv
  <1>16. CASE Commit
    BY <1>0, <1>16 DEF Commit, Pending, Unsettled, Elems, TypeOK, BatchInv
  <1>17. CASE Rollback
    BY <1>0, <1>17 DEF Rollback, Pending, Unsettled, Elems, TypeOK, BatchInv
  <1>18. CASE SalvageRow
    BY <1>0, <1>18 DEF SalvageRow, Pending, Unsettled, Elems, TypeOK, BatchInv
  <1>19. CASE SalvageDone
    BY <1>0, <1>19 DEF SalvageDone, Pending, Unsettled, Elems, TypeOK, BatchInv
  <1>20. CASE Acknowledge
    BY <1>0, <1>20 DEF Acknowledge, Pending, Unsettled, Elems, TypeOK, BatchInv
  <1>21. CASE Idle
    BY <1>0, <1>21 DEF Idle, Pending, Unsettled, Elems, TypeOK, BatchInv
  <1>22. CASE DrainEnds
    BY <1>0, <1>22 DEF DrainEnds, Pending, Unsettled, Elems, TypeOK, BatchInv
  <1>23. ASSUME NEW x \in Row, Replay(x)
        PROVE  r \notin Pending' /\ pc'[r] = "returned"
    BY <1>0, <1>23 DEF Replay, Pending, Unsettled, Elems, TypeOK, BatchInv
  <1>24. ASSUME NEW x \in Row, ReplayRejected(x)
        PROVE  r \notin Pending' /\ pc'[r] = "returned"
    BY <1>0, <1>24 DEF ReplayRejected, Pending, Unsettled, Elems, TypeOK, BatchInv
  <1>25. ASSUME NEW x \in Row, Retire(x)
        PROVE  r \notin Pending' /\ pc'[r] = "returned"
    BY <1>0, <1>25 DEF Retire, Pending, Unsettled, Elems, TypeOK, BatchInv
  <1>26. CASE CadenceElapses
    BY <1>0, <1>26 DEF CadenceElapses, Pending, Unsettled, Elems, TypeOK, BatchInv
  <1>27. CASE BeginClose
    BY <1>0, <1>27 DEF BeginClose, Pending, Unsettled, Elems, TypeOK, BatchInv
  <1>28. CASE FlushReturns
    BY <1>0, <1>28 DEF FlushReturns, Pending, Unsettled, Elems, TypeOK, BatchInv
  <1>29. CASE FlushTimesOut
    BY <1>0, <1>29 DEF FlushTimesOut, Pending, Unsettled, Elems, TypeOK, BatchInv
  <1>30. CASE JoinEnds
    BY <1>0, <1>30 DEF JoinEnds, Pending, Unsettled, Elems, TypeOK, BatchInv
  <1>31. CASE Restart
    BY <1>0, <1>31 DEF Restart, Pending, Unsettled, Elems, TypeOK, BatchInv
  <1>32. CASE UNCHANGED vars
    BY <1>0, <1>32 DEF Pending, Unsettled, Elems
  <1>33. QED
    BY <1>1, <1>2, <1>3, <1>4, <1>5, <1>5a, <1>6, <1>6a, <1>7, <1>8, <1>9, <1>10, <1>11, <1>12, <1>13, <1>14, <1>15, <1>16, <1>17, <1>18, <1>19, <1>20, <1>21, <1>22, <1>23, <1>24, <1>25, <1>26, <1>27, <1>28, <1>29, <1>30, <1>31, <1>32 DEF Next, Produce, Worker, Closer

LEMMA FlushStep == TypeInv /\ TypeInv' /\ FlushInv /\ [Next]_vars => FlushInv'
  <1> SUFFICES ASSUME TypeInv, TypeInv', FlushInv, [Next]_vars
               PROVE  FlushInv'
    OBVIOUS
  <1> USE DEF vars, queueVars, workerVars, fileVars, drainVars, storeVars, lifeVars
  <1>1. CASE covered' = covered
    <2>1. \A r \in covered : r \in Row /\ pc[r] = "returned" /\ r \notin Pending
      BY DEF TypeInv, TypeOK, FlushInv, CoveredInv, FlushHonest
    <2>2. \A r \in covered : r \notin Pending' /\ pc'[r] = "returned"
      BY <2>1, PendingOnlyShrinks
    <2>3. QED
      BY <1>1, <2>2 DEF FlushInv, CoveredInv, FlushHonest
  <1>2. CASE FlushReturns
    <2>1. Len(queue) \in Nat /\ Len(batch) \in Nat /\ Len(queue) + Len(batch) = 0
      BY <1>2 DEF FlushReturns, TypeInv, TypeOK, CountInv
    <2>2. Len(queue') = 0 /\ Len(batch') = 0 /\ done' \in 0..Len(batch')
      BY <2>1, <1>2 DEF FlushReturns, TypeInv, TypeOK
    <2>3. Pending' = {}
      BY <2>2 DEF Pending, Unsettled, Elems
    <2>4. QED
      BY <1>2, <2>3 DEF FlushReturns, FlushInv, CoveredInv, FlushHonest
  <1>3. CASE Restart
    BY <1>3 DEF Restart, FlushInv, CoveredInv, FlushHonest
  <1>4. covered' = covered \/ FlushReturns \/ Restart
    BY DEF Next, Produce, Worker, Closer, CadenceElapses, Resolve, RefuseArity, Put,
           DropTelemetry, Name, Open, SpillDone, SpillBeaten, SpillRefused, BeginClose, FlushTimesOut,
           JoinEnds, Construct, ConstructFails, Touch, TouchFails, LoopHead, Take,
           BeginBatch, Execute, Commit, Rollback, SalvageRow, SalvageDone, Acknowledge,
           Idle, DrainEnds, Replay, ReplayRejected, Retire
  <1>5. QED
    BY <1>1, <1>2, <1>3, <1>4

\* A flush that returned TRUE left no row accepted before it in memory.
THEOREM FlushVouches == Spec => []FlushHonest
  <1>1. Init => TypeInv /\ FlushInv
    BY TypeInit DEF Init, FlushInv, CoveredInv, FlushHonest
  <1>2. TypeInv /\ FlushInv /\ [Next]_vars => TypeInv' /\ FlushInv'
    BY TypeStep, FlushStep
  <1>3. FlushInv => FlushHonest
    BY DEF FlushInv
  <1>4. QED
    BY <1>1, <1>2, <1>3, PTL DEF Spec
=============================================================================
