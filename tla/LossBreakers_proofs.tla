------------------------ MODULE LossBreakers_proofs ------------------------
(***************************************************************************)
(* The budgets and the cooldown of LossBreakers, for every value of the    *)
(* constants and histories of every length.                                *)
(*                                                                         *)
(* The argument.  The fields of the breaker summarise the history of their *)
(* process: the anchor of a period is the equity of the one evaluation     *)
(* that opened it, because time does not go back and no evaluation of a    *)
(* later period can be followed by one of an earlier (Anchored); the       *)
(* streak is the number of losses since the last win (StreakInv); and a    *)
(* running cooldown comes from a loss that completed a streak and that     *)
(* nothing has passed since (CoolInv).                                     *)
(***************************************************************************)
EXTENDS LossBreakers, TLAPS, FiniteSetTheorems

IsEval(l, i) == i \in DOMAIN l /\ l[i].kind = "eval"

\* Evaluation i is the first of its process in its period of length L.
Opens(l, L, i) ==
    \A h \in DOMAIN l :
        IsEval(l, h) /\ h < i /\ l[h].run = l[i].run => l[h].at \div L # l[i].at \div L

\* The breaker's period is the last one evaluated in process r, and its anchor the
\* equity that opened it.
Anchored(l, r, L, id, start) ==
    \/ id = None /\ \A i \in DOMAIN l : IsEval(l, i) => l[i].run # r
    \/ \E i \in DOMAIN l :
           /\ IsEval(l, i) /\ l[i].run = r /\ Opens(l, L, i)
           /\ l[i].at \div L = id /\ l[i].equity = start
           /\ \A h \in DOMAIN l : IsEval(l, h) /\ l[h].run = r => l[h].at \div L <= id

\* What passed was within the budget of every period that was open.
Kept(l, L, pct) ==
    \A i, j \in DOMAIN l :
        /\ IsEval(l, i) /\ IsEval(l, j) /\ i <= j /\ l[i].run = l[j].run /\ l[j].allowed
        /\ Opens(l, L, i)
        => (l[i].at \div L = l[j].at \div L => ~Over(l[i].equity, l[j].equity, pct))

\* The history is of this time and this process, or of earlier ones.
Past(l, t, r) == \A i \in DOMAIN l : l[i].at <= t /\ l[i].run <= r

WeekLength == DayLength * WeekDays

TypeInv == TypeOK /\ Past(log, now, run)

BudgetInv ==
    /\ TypeInv
    /\ Anchored(log, run, DayLength, breaker.day, breaker.dayStart)
    /\ Anchored(log, run, WeekLength, breaker.week, breaker.weekStart)
    /\ Kept(log, DayLength, DailyPct)
    /\ Kept(log, WeekLength, WeeklyPct)

-----------------------------------------------------------------------------
(* Arithmetic and sequences *)

LEMMA DivMono ==
    ASSUME NEW a \in Nat, NEW b \in Nat, NEW L \in Nat \ {0}, a <= b
    PROVE  a \div L \in Nat /\ b \div L \in Nat /\ a \div L <= b \div L
  OBVIOUS

LEMMA MulNat == ASSUME NEW a \in Nat, NEW b \in Nat PROVE a * b \in Nat
  OBVIOUS

LEMMA NoLoss ==
    ASSUME NEW e \in Nat, NEW pct \in Nat PROVE ~Over(e, e, pct)
  BY MulNat DEF Over

LEMMA Consts ==
    /\ Equity \subseteq Nat /\ DayLength \in Nat \ {0} /\ WeekDays \in Nat \ {0}
    /\ LossLimit \in Nat \ {0} /\ Cooldown \in Nat \ {0} /\ MaxRuns \in Nat \ {0}
    /\ DailyPct \in Nat /\ WeeklyPct \in Nat /\ MaxTime \in Nat /\ MaxLog \in Nat
  BY ConstantsAssumption

LEMMA WeekLengthNat == WeekLength \in Nat \ {0}
  <1>1. \A a, b \in Nat \ {0} : a * b \in Nat \ {0}
    OBVIOUS
  <1> QED
    BY <1>1, Consts DEF WeekLength

LEMMA AppendSeq ==
    ASSUME NEW S, NEW l \in Seq(S), NEW x \in S
    PROVE  /\ Append(l, x) \in Seq(S)
           /\ Len(l) \in Nat
           /\ Len(Append(l, x)) = Len(l) + 1
           /\ DOMAIN l = 1..Len(l)
           /\ DOMAIN Append(l, x) = 1..(Len(l) + 1)
           /\ \A i \in 1..Len(l) : Append(l, x)[i] = l[i]
           /\ Append(l, x)[Len(l) + 1] = x
  OBVIOUS

Rows == Entry \cup Close

LEMMA RowTypes ==
    ASSUME NEW x \in Rows
    PROVE  /\ x.at \in Nat /\ x.run \in Nat
           /\ x.kind = "eval" => x.equity \in Equity /\ x.allowed \in BOOLEAN
  BY DEF Rows, Entry, Close

-----------------------------------------------------------------------------
(* The types *)

LEMMA DayWeekNat == \A t \in Nat : Day(t) \in Nat /\ Week(t) \in Nat
  BY Consts, WeekLengthNat, DivMono DEF Day, Week, WeekLength

LEMMA RolledFields ==
    ASSUME NEW b \in Breaker, NEW e \in Equity, NEW t \in Nat
    PROVE  /\ Rolled(b, e, t) \in Breaker
           /\ Rolled(b, e, t).day = Day(t) /\ Rolled(b, e, t).week = Week(t)
           /\ Rolled(b, e, t).dayStart = IF b.day = Day(t) THEN b.dayStart ELSE e
           /\ Rolled(b, e, t).weekStart = IF b.week = Week(t) THEN b.weekStart ELSE e
           /\ Rolled(b, e, t).streak = b.streak /\ Rolled(b, e, t).until = b.until
  <1>2. b.dayStart \in Equity \cup {None} /\ b.weekStart \in Equity \cup {None}
    BY DEF Breaker
  <1>3. Day(t) \in Nat /\ Week(t) \in Nat
    BY DayWeekNat
  <1> DEFINE s == IF b.day = Day(t) THEN b.dayStart ELSE e
             v == IF b.week = Week(t) THEN b.weekStart ELSE e
  <1>4. s \in Equity \cup {None} /\ v \in Equity \cup {None}
    BY <1>2
  <1>5. Rolled(b, e, t) = [b EXCEPT !.day = Day(t), !.dayStart = s, !.week = Week(t), !.weekStart = v]
    BY DEF Rolled
  <1> HIDE DEF s, v
  <1>6. /\ Rolled(b, e, t) \in Breaker
        /\ Rolled(b, e, t).day = Day(t) /\ Rolled(b, e, t).week = Week(t)
        /\ Rolled(b, e, t).dayStart = s /\ Rolled(b, e, t).weekStart = v
        /\ Rolled(b, e, t).streak = b.streak /\ Rolled(b, e, t).until = b.until
    BY <1>3, <1>4, <1>5 DEF Breaker
  <1> QED
    BY <1>6 DEF s, v

LEMMA FedFields ==
    ASSUME NEW b \in Breaker, NEW loss \in BOOLEAN, NEW at \in Nat
    PROVE  /\ Fed(b, loss, at) \in Breaker
           /\ Fed(b, loss, at).day = b.day /\ Fed(b, loss, at).dayStart = b.dayStart
           /\ Fed(b, loss, at).week = b.week /\ Fed(b, loss, at).weekStart = b.weekStart
           /\ Fed(b, loss, at).streak = IF loss THEN b.streak + 1 ELSE 0
           /\ Fed(b, loss, at).until =
                  IF loss /\ b.streak + 1 >= LossLimit /\ ~Cooling(b, at)
                  THEN at + Cooldown ELSE b.until
  <1>2. LET r == [b EXCEPT !.streak = 0] IN
        /\ r \in Breaker /\ r.day = b.day /\ r.dayStart = b.dayStart
        /\ r.week = b.week /\ r.weekStart = b.weekStart /\ r.streak = 0 /\ r.until = b.until
    BY DEF Breaker
  <1>3. b.streak + 1 \in Nat /\ b.until \in Nat \cup {None} /\ at + Cooldown \in Nat
    BY Consts DEF Breaker
  <1>4. CASE loss
    <2> DEFINE u == IF b.streak + 1 >= LossLimit /\ ~Cooling(b, at) THEN at + Cooldown ELSE b.until
    <2>1. u \in Nat \cup {None}
      BY <1>3
    <2>2. Fed(b, loss, at) = [b EXCEPT !.streak = b.streak + 1, !.until = u]
      BY <1>4 DEF Fed
    <2> HIDE DEF u
    <2>3. /\ Fed(b, loss, at) \in Breaker
          /\ Fed(b, loss, at).day = b.day /\ Fed(b, loss, at).dayStart = b.dayStart
          /\ Fed(b, loss, at).week = b.week /\ Fed(b, loss, at).weekStart = b.weekStart
          /\ Fed(b, loss, at).streak = b.streak + 1 /\ Fed(b, loss, at).until = u
      BY <1>3, <2>1, <2>2 DEF Breaker
    <2> QED
      BY <1>4, <2>3 DEF u
  <1>5. CASE ~loss
    BY <1>2, <1>5 DEF Fed
  <1> QED
    BY <1>4, <1>5

\* What evaluate leaves of the breaker.
LEMMA EvaluatedFields ==
    ASSUME NEW b \in Breaker, NEW t \in Nat
    PROVE  LET r == IF Cooling(b, t) THEN b ELSE [b EXCEPT !.until = None] IN
           /\ r \in Breaker /\ r.day = b.day /\ r.dayStart = b.dayStart
           /\ r.week = b.week /\ r.weekStart = b.weekStart /\ r.streak = b.streak
           /\ r.until = IF Cooling(b, t) THEN b.until ELSE None
  BY DEF Breaker

LEMMA TypeInvariant == Spec => []TypeInv
<1>1. Init => TypeInv
  BY Consts DEF Init, TypeInv, TypeOK, Past, Fresh, Breaker
<1>2. TypeInv /\ [Next]_vars => TypeInv'
  <2> SUFFICES ASSUME TypeInv, [Next]_vars PROVE TypeInv'
    OBVIOUS
  <2>0. /\ now \in 0..MaxTime /\ run \in 1..MaxRuns /\ breaker \in Breaker
        /\ log \in Seq(Rows) /\ Past(log, now, run)
    BY DEF TypeInv, TypeOK, Rows
  <2>1. CASE Tick
    <3>1. Past(log, now + 1, run)
      BY <2>0, RowTypes DEF Past
    <3> QED
      BY <2>0, <2>1, <3>1, Consts DEF Tick, TypeInv, TypeOK, Rows
  <2>2. ASSUME NEW e \in Equity, Evaluate(e) PROVE TypeInv'
    <3> DEFINE x == [kind |-> "eval", at |-> now, run |-> run, equity |-> e,
                     allowed |-> Verdict(Rolled(breaker, e, now), e, now)]
    <3>1. x \in Rows
      <4>1. Verdict(Rolled(breaker, e, now), e, now) \in BOOLEAN
        BY DEF Verdict
      <4> QED
        BY <2>0, <4>1, Consts DEF Rows, Entry
    <3>2. log' = Append(log, x) /\ now' = now /\ run' = run
      BY <2>2 DEF Evaluate
    <3>3. breaker' \in Breaker
      <4>1. Rolled(breaker, e, now) \in Breaker
        BY <2>0, RolledFields, Consts
      <4> QED
        BY <2>0, <2>2, <4>1, EvaluatedFields, Consts DEF Evaluate
    <3>4. log' \in Seq(Rows) /\ Past(log', now', run')
      <4> HIDE DEF x
      <4>1. x.at = now /\ x.run = run
        BY DEF x
      <4> QED
        BY <2>0, <3>1, <3>2, <4>1, AppendSeq, Consts DEF Past
    <3> QED
      BY <2>0, <3>2, <3>3, <3>4 DEF TypeInv, TypeOK, Rows
  <2>3. ASSUME NEW loss \in BOOLEAN, NEW at \in 0..MaxTime, Feed(loss, at) PROVE TypeInv'
    <3> DEFINE x == [kind |-> IF loss THEN "loss" ELSE "win", at |-> at, run |-> run]
    <3>1. x \in Rows
      BY <2>0, Consts DEF Rows, Close
    <3>2. log' = Append(log, x) /\ now' = now /\ run' = run /\ at <= now
      BY <2>3 DEF Feed
    <3>3. breaker' \in Breaker
      BY <2>0, <2>3, FedFields, Consts DEF Feed
    <3>4. log' \in Seq(Rows) /\ Past(log', now', run')
      <4>1. x.at = at /\ x.run = run
        OBVIOUS
      <4> HIDE DEF x
      <4> QED
        BY <2>0, <3>1, <3>2, <4>1, AppendSeq, Consts DEF Past
    <3> QED
      BY <2>0, <3>2, <3>3, <3>4 DEF TypeInv, TypeOK, Rows
  <2>4. CASE Restart
    <3>1. Past(log, now, run + 1)
      BY <2>0, RowTypes DEF Past
    <3>2. Fresh \in Breaker
      BY DEF Fresh, Breaker
    <3> QED
      BY <2>0, <2>4, <3>1, <3>2, Consts DEF Restart, TypeInv, TypeOK, Rows
  <2>5. CASE UNCHANGED vars
    BY <2>5 DEF vars, TypeInv, TypeOK, Past
  <2> QED
    BY <2>1, <2>2, <2>3, <2>4, <2>5 DEF Next
<1> QED
  BY <1>1, <1>2, PTL DEF Spec

\* The breaker's fields and the history keep their types (circuit_breakers.py).
THEOREM TypeCorrect == Spec => []TypeOK
<1>1. TypeInv => TypeOK
  BY DEF TypeInv
<1> QED
  BY <1>1, TypeInvariant, PTL

-----------------------------------------------------------------------------
(* The anchors *)

\* Two evaluations that open the same period of the same process are one.
LEMMA OneOpens ==
    ASSUME NEW l \in Seq(Rows), NEW L, NEW i \in DOMAIN l, NEW j \in DOMAIN l,
           IsEval(l, i), IsEval(l, j), Opens(l, L, i), Opens(l, L, j),
           l[i].run = l[j].run, l[i].at \div L = l[j].at \div L
    PROVE  i = j
  <1>1. ~(i < j) /\ ~(j < i)
    BY DEF Opens
  <1>2. i \in Int /\ j \in Int
    OBVIOUS
  <1> QED
    BY <1>1, <1>2

\* What is appended leaves the openings of what was there.
LEMMA OpensAppend ==
    ASSUME NEW l \in Seq(Rows), NEW x \in Rows, NEW L, NEW i \in 1..Len(l)
    PROVE  Opens(Append(l, x), L, i) <=> Opens(l, L, i)
  BY AppendSeq DEF Opens, IsEval

LEMMA EvalAppend ==
    ASSUME NEW l \in Seq(Rows), NEW x \in Rows
    PROVE  /\ \A i \in 1..Len(l) : IsEval(Append(l, x), i) <=> IsEval(l, i)
           /\ IsEval(Append(l, x), Len(l) + 1) <=> x.kind = "eval"
  BY AppendSeq DEF IsEval

\* An evaluation at time t keeps the summary: it stays in the open period, or opens one.
LEMMA AnchorStep ==
    ASSUME NEW l \in Seq(Rows), NEW x \in Entry, NEW L \in Nat \ {0},
           NEW id \in Nat \cup {None}, NEW start \in Equity \cup {None},
           Past(l, x.at, x.run), Anchored(l, x.run, L, id, start)
    PROVE  Anchored(Append(l, x), x.run, L, x.at \div L,
                    IF id = x.at \div L THEN start ELSE x.equity)
  <1> DEFINE m == Append(l, x)
             n == Len(l) + 1
             p == x.at \div L
  <1>0. x \in Rows /\ x.at \in Nat /\ x.kind = "eval" /\ p \in Nat
    BY DivMono DEF Rows, Entry
  <1>1. /\ DOMAIN m = 1..n /\ m[n] = x /\ Len(l) \in Nat /\ DOMAIN l = 1..Len(l)
        /\ \A i \in 1..Len(l) : m[i] = l[i]
        /\ \A i \in 1..Len(l) : IsEval(m, i) <=> IsEval(l, i)
        /\ IsEval(m, n)
    BY <1>0, AppendSeq, EvalAppend
  <1>2. \A i \in 1..Len(l) : l[i].at \div L <= p
    <2>1. \A i \in 1..Len(l) : l[i] \in Rows
      BY <1>1
    <2> QED
      BY <1>0, <1>1, <2>1, RowTypes, DivMono DEF Past
  <1>3. CASE id = p
    <2>1. PICK i \in DOMAIN l :
             /\ IsEval(l, i) /\ l[i].run = x.run /\ Opens(l, L, i)
             /\ l[i].at \div L = id /\ l[i].equity = start
             /\ \A h \in DOMAIN l : IsEval(l, h) /\ l[h].run = x.run => l[h].at \div L <= id
      BY <1>0, <1>3 DEF Anchored, None
    <2>2. Opens(m, L, i)
      BY <1>0, <1>1, <2>1, OpensAppend
    <2>3. i \in DOMAIN m /\ IsEval(m, i) /\ m[i] = l[i]
      BY <1>1, <2>1
    <2>4. \A h \in DOMAIN m : IsEval(m, h) /\ m[h].run = x.run => m[h].at \div L <= p
      BY <1>0, <1>1, <1>2
    <2> HIDE DEF m, p
    <2> QED
      BY <1>3, <2>1, <2>2, <2>3, <2>4 DEF Anchored, m, p
  <1>4. CASE id # p
    <2>1. \A h \in 1..Len(l) : IsEval(l, h) /\ l[h].run = x.run => l[h].at \div L # p
      <3>1. CASE id = None /\ \A i \in DOMAIN l : IsEval(l, i) => l[i].run # x.run
        BY <1>1, <3>1
      <3>2. CASE \E i \in DOMAIN l :
                   /\ IsEval(l, i) /\ l[i].run = x.run /\ Opens(l, L, i)
                   /\ l[i].at \div L = id /\ l[i].equity = start
                   /\ \A h \in DOMAIN l : IsEval(l, h) /\ l[h].run = x.run => l[h].at \div L <= id
        <4>1. PICK i \in DOMAIN l :
                   /\ l[i].at \div L = id
                   /\ \A h \in DOMAIN l : IsEval(l, h) /\ l[h].run = x.run => l[h].at \div L <= id
          BY <3>2
        <4>2. id \in Nat /\ id <= p
          <5>1. l[i].at \in Nat
            BY <4>1, RowTypes
          <5> QED
            BY <1>1, <1>2, <4>1, <5>1, DivMono
        <4>3. ASSUME NEW h \in 1..Len(l), IsEval(l, h), l[h].run = x.run PROVE l[h].at \div L # p
          <5>1. l[h].at \div L \in Nat
            BY <1>1, <4>3, RowTypes, DivMono
          <5> QED
            BY <1>0, <1>1, <1>4, <4>1, <4>2, <4>3, <5>1
        <4> QED
          BY <4>3
      <3> QED
        BY <3>1, <3>2 DEF Anchored
    <2>2. Opens(m, L, n)
      BY <1>1, <2>1 DEF Opens
    <2>3. \A h \in DOMAIN m : IsEval(m, h) /\ m[h].run = x.run => m[h].at \div L <= p
      BY <1>0, <1>1, <1>2
    <2> HIDE DEF m, p, n
    <2> QED
      BY <1>1, <1>4, <2>2, <2>3 DEF Anchored, m, p, n
  <1> QED
    BY <1>3, <1>4

\* An evaluation that passes the anchor of its period keeps the budget.
LEMMA KeptStep ==
    ASSUME NEW l \in Seq(Rows), NEW x \in Entry, NEW L \in Nat \ {0}, NEW pct \in Nat,
           NEW start, Anchored(Append(l, x), x.run, L, x.at \div L, start),
           Kept(l, L, pct), x.allowed => ~Over(start, x.equity, pct)
    PROVE  Kept(Append(l, x), L, pct)
  <1> DEFINE m == Append(l, x)
             n == Len(l) + 1
             p == x.at \div L
  <1>0. x \in Rows /\ x.kind = "eval" /\ x.equity \in Nat
    BY Consts DEF Rows, Entry
  <1>1. /\ m \in Seq(Rows) /\ DOMAIN m = 1..n /\ m[n] = x /\ Len(l) \in Nat /\ DOMAIN l = 1..Len(l)
        /\ \A i \in 1..Len(l) : m[i] = l[i]
        /\ \A i \in 1..Len(l) : IsEval(m, i) <=> IsEval(l, i)
        /\ \A i \in 1..Len(l) : Opens(m, L, i) <=> Opens(l, L, i)
        /\ IsEval(m, n)
    BY <1>0, AppendSeq, EvalAppend, OpensAppend
  <1>2. PICK o \in DOMAIN m :
           /\ IsEval(m, o) /\ m[o].run = x.run /\ Opens(m, L, o)
           /\ m[o].at \div L = p /\ m[o].equity = start
    <2>1. ~\A i \in DOMAIN m : IsEval(m, i) => m[i].run # x.run
      BY <1>1
    <2> QED
      BY <2>1 DEF Anchored
  <1> HIDE DEF m, n, p
  <1>3. ASSUME NEW i \in DOMAIN m, NEW j \in DOMAIN m,
               IsEval(m, i), IsEval(m, j), i <= j, m[i].run = m[j].run, m[j].allowed,
               Opens(m, L, i), m[i].at \div L = m[j].at \div L
        PROVE  ~Over(m[i].equity, m[j].equity, pct)
    <2>1. CASE j = n
      <3>1. m[j] = x /\ m[j].at \div L = p
        BY <1>1, <2>1 DEF p
      <3>2. i = o
        BY <1>1, <1>2, <1>3, <3>1, OneOpens
      <3> QED
        BY <1>2, <1>3, <3>1, <3>2
    <2>2. CASE j # n
      <3>1. i \in 1..Len(l) /\ j \in 1..Len(l)
        BY <1>1, <1>3, <2>2 DEF n
      <3> QED
        BY <1>1, <1>3, <3>1 DEF Kept
    <2> QED
      BY <2>1, <2>2
  <1> QED
    BY <1>3 DEF Kept, m

\* A close changes neither.
LEMMA CloseKeeps ==
    ASSUME NEW l \in Seq(Rows), NEW x \in Close, NEW L, NEW pct, NEW r, NEW id, NEW start,
           Anchored(l, r, L, id, start), Kept(l, L, pct)
    PROVE  Anchored(Append(l, x), r, L, id, start) /\ Kept(Append(l, x), L, pct)
  <1> DEFINE m == Append(l, x)
  <1>0. x \in Rows /\ x.kind # "eval"
    BY DEF Rows, Close
  <1>1. /\ DOMAIN m = 1..(Len(l) + 1) /\ Len(l) \in Nat /\ DOMAIN l = 1..Len(l)
        /\ \A i \in 1..Len(l) : m[i] = l[i]
        /\ \A i \in 1..Len(l) : IsEval(m, i) <=> IsEval(l, i)
        /\ \A i \in 1..Len(l) : Opens(m, L, i) <=> Opens(l, L, i)
        /\ ~IsEval(m, Len(l) + 1)
    BY <1>0, AppendSeq, EvalAppend, OpensAppend
  <1>2. \A i \in DOMAIN m : IsEval(m, i) => i \in DOMAIN l /\ i \in 1..Len(l)
    BY <1>1
  <1>3. \A i \in DOMAIN l : i \in DOMAIN m
    BY <1>1
  <1> HIDE DEF m
  <1>4. Anchored(m, r, L, id, start)
    <2>1. CASE id = None /\ \A i \in DOMAIN l : IsEval(l, i) => l[i].run # r
      BY <1>1, <1>2, <2>1 DEF Anchored
    <2>2. CASE \E i \in DOMAIN l :
                 /\ IsEval(l, i) /\ l[i].run = r /\ Opens(l, L, i)
                 /\ l[i].at \div L = id /\ l[i].equity = start
                 /\ \A h \in DOMAIN l : IsEval(l, h) /\ l[h].run = r => l[h].at \div L <= id
      <3>1. PICK i \in DOMAIN l :
                 /\ IsEval(l, i) /\ l[i].run = r /\ Opens(l, L, i)
                 /\ l[i].at \div L = id /\ l[i].equity = start
                 /\ \A h \in DOMAIN l : IsEval(l, h) /\ l[h].run = r => l[h].at \div L <= id
        BY <2>2
      <3>2. /\ i \in DOMAIN m /\ IsEval(m, i) /\ m[i].run = r /\ Opens(m, L, i)
            /\ m[i].at \div L = id /\ m[i].equity = start
        BY <1>1, <1>3, <3>1
      <3>3. \A h \in DOMAIN m : IsEval(m, h) /\ m[h].run = r => m[h].at \div L <= id
        BY <1>1, <1>2, <3>1
      <3> QED
        BY <3>2, <3>3 DEF Anchored
    <2> QED
      BY <2>1, <2>2 DEF Anchored
  <1>5. Kept(m, L, pct)
    BY <1>1, <1>2 DEF Kept
  <1> QED
    BY <1>4, <1>5 DEF m

LEMMA BudgetInvariant == Spec => []BudgetInv
<1>1. Init => BudgetInv
  <2> SUFFICES ASSUME Init PROVE BudgetInv
    OBVIOUS
  <2>1. TypeInv
    BY Consts DEF Init, TypeInv, TypeOK, Past, Fresh, Breaker
  <2>2. log = <<>> /\ breaker.day = None /\ breaker.week = None
    BY DEF Init, Fresh
  <2> QED
    BY <2>1, <2>2 DEF BudgetInv, Anchored, Kept
<1>2. BudgetInv /\ TypeInv' /\ [Next]_vars => BudgetInv'
  <2> SUFFICES ASSUME BudgetInv, TypeInv', [Next]_vars PROVE BudgetInv'
    OBVIOUS
  <2>0. /\ now \in Nat /\ run \in Nat /\ breaker \in Breaker
        /\ log \in Seq(Rows) /\ Past(log, now, run)
        /\ breaker.day \in Nat \cup {None} /\ breaker.week \in Nat \cup {None}
        /\ breaker.dayStart \in Equity \cup {None} /\ breaker.weekStart \in Equity \cup {None}
    BY Consts DEF BudgetInv, TypeInv, TypeOK, Rows, Breaker
  <2>1. ASSUME UNCHANGED <<run, breaker, log>> PROVE BudgetInv'
    BY <2>1 DEF BudgetInv
  <2>2. ASSUME NEW e \in Equity, Evaluate(e) PROVE BudgetInv'
    <3> DEFINE b == Rolled(breaker, e, now)
               x == [kind |-> "eval", at |-> now, run |-> run, equity |-> e,
                     allowed |-> Verdict(b, e, now)]
    <3>1. /\ x \in Entry /\ x.at = now /\ x.run = run /\ x.equity = e
          /\ x.allowed => ~Over(b.dayStart, e, DailyPct) /\ ~Over(b.weekStart, e, WeeklyPct)
      <4>1. Verdict(b, e, now) \in BOOLEAN
        BY DEF Verdict
      <4>2. Verdict(b, e, now) => ~Over(b.dayStart, e, DailyPct) /\ ~Over(b.weekStart, e, WeeklyPct)
        BY DEF Verdict
      <4> HIDE DEF b
      <4> QED
        BY <2>0, <4>1, <4>2, Consts DEF Entry
    <3>2. log' = Append(log, x) /\ run' = run
      BY <2>2 DEF Evaluate
    <3>3. /\ b \in Breaker /\ b.day = now \div DayLength /\ b.week = now \div WeekLength
          /\ b.dayStart = IF breaker.day = now \div DayLength THEN breaker.dayStart ELSE e
          /\ b.weekStart = IF breaker.week = now \div WeekLength THEN breaker.weekStart ELSE e
      BY <2>0, RolledFields DEF Day, Week, WeekLength
    <3>4. /\ breaker'.day = b.day /\ breaker'.dayStart = b.dayStart
          /\ breaker'.week = b.week /\ breaker'.weekStart = b.weekStart
      BY <2>0, <2>2, <3>3, EvaluatedFields DEF Evaluate
    <3> HIDE DEF b, x
    <3>5. Anchored(log', run', DayLength, breaker'.day, breaker'.dayStart)
      BY <2>0, <3>1, <3>2, <3>3, <3>4, AnchorStep, Consts DEF BudgetInv
    <3>6. Anchored(log', run', WeekLength, breaker'.week, breaker'.weekStart)
      BY <2>0, <3>1, <3>2, <3>3, <3>4, AnchorStep, WeekLengthNat DEF BudgetInv
    <3>7. Kept(log', DayLength, DailyPct)
      BY <2>0, <3>1, <3>2, <3>3, <3>4, <3>5, KeptStep, Consts DEF BudgetInv
    <3>8. Kept(log', WeekLength, WeeklyPct)
      BY <2>0, <3>1, <3>2, <3>3, <3>4, <3>6, KeptStep, WeekLengthNat, Consts DEF BudgetInv
    <3> QED
      BY <3>5, <3>6, <3>7, <3>8 DEF BudgetInv
  <2>3. ASSUME NEW loss \in BOOLEAN, NEW at \in 0..MaxTime, Feed(loss, at) PROVE BudgetInv'
    <3> DEFINE x == [kind |-> IF loss THEN "loss" ELSE "win", at |-> at, run |-> run]
    <3>1. x \in Close /\ log' = Append(log, x) /\ run' = run
      BY <2>0, <2>3, Consts DEF Close, Feed
    <3>2. /\ breaker'.day = breaker.day /\ breaker'.dayStart = breaker.dayStart
          /\ breaker'.week = breaker.week /\ breaker'.weekStart = breaker.weekStart
      <4>1. at \in Nat /\ breaker' = Fed(breaker, loss, at)
        BY <2>3, Consts DEF Feed
      <4> QED
        BY <2>0, <4>1, FedFields
    <3> HIDE DEF x
    <3> QED
      BY <2>0, <3>1, <3>2, CloseKeeps DEF BudgetInv
  <2>4. CASE Restart
    <3>1. /\ log' = log /\ run' = run + 1 /\ breaker'.day = None /\ breaker'.week = None
      BY <2>4 DEF Restart, Fresh
    <3>2. \A i \in DOMAIN log : log[i].run # run + 1
      BY <2>0, RowTypes DEF Past
    <3> QED
      BY <3>1, <3>2 DEF BudgetInv, Anchored
  <2> QED
    BY <2>1, <2>2, <2>3, <2>4 DEF Next, Tick, vars
<1> QED
  BY <1>1, <1>2, TypeInvariant, PTL DEF Spec

\* Within one process nothing passes the breakers once a period's budget is spent
\* (update_equity and evaluate).
THEOREM BudgetsAreKept == Spec => []BudgetsHold
<1>1. BudgetInv => BudgetsHold
  <2> SUFFICES ASSUME BudgetInv,
                      NEW i \in Evals, NEW j \in Evals,
                      i <= j, log[i].run = log[j].run, log[j].allowed
               PROVE  ~Breaks(i, j)
    BY DEF BudgetsHold
  <2>1. i \in DOMAIN log /\ j \in DOMAIN log /\ IsEval(log, i) /\ IsEval(log, j)
    BY DEF Evals, IsEval
  <2>2. OpensDay(i) => Opens(log, DayLength, i)
    BY DEF OpensDay, Opens, Evals, IsEval, Day
  <2>3. OpensWeek(i) => Opens(log, WeekLength, i)
    BY DEF OpensWeek, Opens, Evals, IsEval, Week, WeekLength
  <2>4. OpensDay(i) /\ Day(log[i].at) = Day(log[j].at) => ~Over(log[i].equity, log[j].equity, DailyPct)
    BY <2>1, <2>2 DEF BudgetInv, Kept, Day
  <2>5. OpensWeek(i) /\ Week(log[i].at) = Week(log[j].at) => ~Over(log[i].equity, log[j].equity, WeeklyPct)
    BY <2>1, <2>3 DEF BudgetInv, Kept, Week, WeekLength
  <2> QED
    BY <2>4, <2>5 DEF Breaks
<1> QED
  BY <1>1, BudgetInvariant, PTL

-----------------------------------------------------------------------------
(* The streak and the cooldown *)

\* The losses of process r in a row at the end of the first k entries.
Losses(l, k, r) ==
    {i \in 1..k : /\ l[i].kind = "loss" /\ l[i].run = r
                  /\ \A w \in i..k : l[w].kind # "win" \/ l[w].run # r}

Arms(l, k) == l[k].kind = "loss" /\ Cardinality(Losses(l, k, l[k].run)) >= LossLimit

\* Nothing of the process of entry a passes after it and before time u.
Quiet(l, a, u) ==
    \A j \in DOMAIN l :
        IsEval(l, j) /\ a < j /\ l[j].run = l[a].run /\ l[j].allowed => l[j].at >= u

\* The running cooldown comes from a loss that armed it, and nothing passed since.
Armed(l, r, u) ==
    \E a \in DOMAIN l : Arms(l, a) /\ l[a].run = r /\ u = l[a].at + Cooldown /\ Quiet(l, a, u)

\* Entry a pauses the engine for loss k: at least until the cooldown of a is over,
\* which a breaker that cools until u, or the time t, has reached.
Pauses(l, k, a, r, t, u) ==
    /\ Arms(l, a) /\ l[a].run = l[k].run
    /\ l[k].at < l[a].at + Cooldown
    /\ Quiet(l, a, l[a].at + Cooldown)
    /\ l[k].run = r => \/ t >= l[a].at + Cooldown
                       \/ u # None /\ u >= l[a].at + Cooldown

CoolInv ==
    /\ TypeInv
    /\ breaker.streak = Cardinality(Losses(log, Len(log), run))
    /\ breaker.until # None => Armed(log, run, breaker.until)
    /\ \A k \in DOMAIN log : Arms(log, k) =>
           \E a \in 1..k : Pauses(log, k, a, run, now, breaker.until)

LEMMA LossesFinite ==
    ASSUME NEW l, NEW k \in Nat, NEW r
    PROVE  IsFiniteSet(Losses(l, k, r)) /\ Losses(l, k, r) \subseteq 1..k
           /\ Cardinality(Losses(l, k, r)) \in Nat
  <1>1. Losses(l, k, r) \subseteq 1..k
    BY DEF Losses
  <1>2. IsFiniteSet(1..k)
    BY FS_Interval
  <1> QED
    BY <1>1, <1>2, FS_Subset, FS_CardinalityType

LEMMA LossesAppend ==
    ASSUME NEW l \in Seq(Rows), NEW x \in Rows, NEW r, NEW k \in 0..Len(l)
    PROVE  Losses(Append(l, x), k, r) = Losses(l, k, r)
  <1>1. \A i \in 1..k : Append(l, x)[i] = l[i]
    BY AppendSeq
  <1>2. \A i \in 1..k : \A w \in i..k : w \in 1..k
    OBVIOUS
  <1> QED
    BY <1>1, <1>2 DEF Losses

LEMMA ArmsAppend ==
    ASSUME NEW l \in Seq(Rows), NEW x \in Rows, NEW k \in 1..Len(l)
    PROVE  Arms(Append(l, x), k) <=> Arms(l, k)
  <1>1. Append(l, x)[k] = l[k] /\ k \in 0..Len(l)
    BY AppendSeq
  <1> QED
    BY <1>1, LossesAppend DEF Arms

\* How one more entry changes the losses in a row.
LEMMA LossesStep ==
    ASSUME NEW l \in Seq(Rows), NEW x \in Rows
    PROVE  /\ x.kind = "eval" => Losses(Append(l, x), Len(l) + 1, x.run) = Losses(l, Len(l), x.run)
           /\ x.kind = "win" => Losses(Append(l, x), Len(l) + 1, x.run) = {}
           /\ x.kind = "loss" =>
                  /\ Losses(Append(l, x), Len(l) + 1, x.run) = Losses(l, Len(l), x.run) \cup {Len(l) + 1}
                  /\ Len(l) + 1 \notin Losses(l, Len(l), x.run)
  <1> DEFINE m == Append(l, x)
             n == Len(l) + 1
  <1>1. /\ Len(l) \in Nat /\ m[n] = x /\ n \in 1..n
        /\ \A i \in 1..Len(l) : m[i] = l[i]
    BY AppendSeq
  <1>2. 1..n = 1..Len(l) \cup {n} /\ n \notin 1..Len(l)
    BY <1>1
  <1>3. \A i \in 1..Len(l) : i..n = i..Len(l) \cup {n} /\ i..Len(l) \subseteq 1..Len(l)
    BY <1>1
  <1>4. n..n = {n}
    BY <1>1
  <1> HIDE DEF m, n
  <1>5. \A i \in 1..Len(l) :
           (\A w \in i..n : m[w].kind # "win" \/ m[w].run # x.run)
             <=> /\ \A w \in i..Len(l) : l[w].kind # "win" \/ l[w].run # x.run
                 /\ x.kind # "win"
    BY <1>1, <1>3
  <1>6. Losses(m, n, x.run) =
           {i \in 1..Len(l) : /\ l[i].kind = "loss" /\ l[i].run = x.run
                              /\ \A w \in i..Len(l) : l[w].kind # "win" \/ l[w].run # x.run
                              /\ x.kind # "win"}
           \cup {i \in {n} : x.kind = "loss"}
    BY <1>1, <1>2, <1>4, <1>5 DEF Losses
  <1> QED
    BY <1>2, <1>6 DEF Losses, m, n

\* What an evaluation or a close appended to the history leaves of a pause.
LEMMA PauseStep ==
    ASSUME NEW l \in Seq(Rows), NEW x \in Rows, NEW k \in 1..Len(l), NEW a \in 1..k,
           NEW t \in Nat, NEW u \in Nat \cup {None}, NEW v \in Nat \cup {None},
           Pauses(l, k, a, x.run, t, u),
           x.kind = "eval" /\ x.allowed => x.at = t /\ (u = None \/ t >= u),
           u # None => (v # None /\ v >= u) \/ t >= u
    PROVE  Pauses(Append(l, x), k, a, x.run, t, v)
  <1> DEFINE m == Append(l, x)
  <1>1. /\ DOMAIN m = 1..(Len(l) + 1) /\ m[Len(l) + 1] = x /\ Len(l) \in Nat /\ DOMAIN l = 1..Len(l)
        /\ \A i \in 1..Len(l) : m[i] = l[i]
        /\ \A i \in 1..Len(l) : IsEval(m, i) <=> IsEval(l, i)
        /\ IsEval(m, Len(l) + 1) <=> x.kind = "eval"
        /\ a \in 1..Len(l)
        /\ Arms(m, a) <=> Arms(l, a)
    BY AppendSeq, EvalAppend, ArmsAppend
  <1>2. l[a].at \in Nat /\ l[a].at + Cooldown \in Nat
    BY <1>1, RowTypes, Consts
  <1> DEFINE d == l[a].at + Cooldown
  <1> HIDE DEF m, d
  <1>3. m[a] = l[a] /\ m[k] = l[k]
    BY <1>1
  <1>4. ASSUME x.run = l[a].run, x.kind = "eval", x.allowed PROVE x.at >= d
    BY <1>2, <1>4 DEF Pauses, None, d
  <1>5. Quiet(m, a, d)
    BY <1>1, <1>3, <1>4 DEF Pauses, Quiet, d
  <1>6. l[k].run = x.run => t >= d \/ (v # None /\ v >= d)
    BY <1>2 DEF Pauses, None, d
  <1> QED
    BY <1>1, <1>3, <1>5, <1>6 DEF Pauses, m, d

LEMMA ArmedStep ==
    ASSUME NEW l \in Seq(Rows), NEW x \in Rows, NEW u \in Nat, Armed(l, x.run, u),
           x.kind = "eval" /\ x.allowed => x.at >= u
    PROVE  Armed(Append(l, x), x.run, u)
  <1> DEFINE m == Append(l, x)
  <1>1. PICK a \in DOMAIN l :
           Arms(l, a) /\ l[a].run = x.run /\ u = l[a].at + Cooldown /\ Quiet(l, a, u)
    BY DEF Armed
  <1>2. /\ DOMAIN m = 1..(Len(l) + 1) /\ m[Len(l) + 1] = x /\ Len(l) \in Nat /\ DOMAIN l = 1..Len(l)
        /\ \A i \in 1..Len(l) : m[i] = l[i]
        /\ \A i \in 1..Len(l) : IsEval(m, i) <=> IsEval(l, i)
        /\ IsEval(m, Len(l) + 1) <=> x.kind = "eval"
        /\ Arms(m, a) <=> Arms(l, a)
    BY <1>1, AppendSeq, EvalAppend, ArmsAppend
  <1> HIDE DEF m
  <1>3. Quiet(m, a, u) /\ m[a] = l[a] /\ a \in DOMAIN m
    BY <1>1, <1>2 DEF Quiet
  <1> QED
    BY <1>1, <1>2, <1>3 DEF Armed, m

LEMMA CoolInvariant == Spec => []CoolInv
<1>1. Init => CoolInv
  <2> SUFFICES ASSUME Init PROVE CoolInv
    OBVIOUS
  <2>1. TypeInv
    BY Consts DEF Init, TypeInv, TypeOK, Past, Fresh, Breaker
  <2>2. log = <<>> /\ breaker.streak = 0 /\ breaker.until = None /\ Len(log) = 0
    BY DEF Init, Fresh
  <2>3. Losses(log, 0, run) = {}
    BY DEF Losses
  <2> QED
    BY <2>1, <2>2, <2>3, FS_EmptySet DEF CoolInv
<1>2. CoolInv /\ TypeInv' /\ [Next]_vars => CoolInv'
  <2> SUFFICES ASSUME CoolInv, TypeInv', [Next]_vars PROVE CoolInv'
    OBVIOUS
  <2>0. /\ now \in Nat /\ run \in Nat /\ breaker \in Breaker
        /\ log \in Seq(Rows) /\ Past(log, now, run) /\ DOMAIN log = 1..Len(log) /\ Len(log) \in Nat
        /\ breaker.until \in Nat \cup {None} /\ breaker.streak \in Nat
    BY Consts DEF CoolInv, TypeInv, TypeOK, Rows, Breaker
  <2>1. CASE Tick
    <3>1. now' = now + 1 /\ UNCHANGED <<run, breaker, log>>
      BY <2>1 DEF Tick
    <3>2. ASSUME NEW k \in DOMAIN log, Arms(log, k)
          PROVE  \E a \in 1..k : Pauses(log, k, a, run, now + 1, breaker.until)
      <4>1. PICK a \in 1..k : Pauses(log, k, a, run, now, breaker.until)
        BY <3>2 DEF CoolInv
      <4>2. log[a].at \in Nat
        <5>1. log[a] \in Rows
          BY <2>0
        <5> QED
          BY <5>1, RowTypes
      <4> QED
        BY <2>0, <4>1, <4>2, Consts DEF Pauses
    <3> QED
      BY <3>1, <3>2 DEF CoolInv
  <2>2. ASSUME NEW e \in Equity, Evaluate(e) PROVE CoolInv'
    <3> DEFINE b == Rolled(breaker, e, now)
               x == [kind |-> "eval", at |-> now, run |-> run, equity |-> e,
                     allowed |-> Verdict(b, e, now)]
    <3>1. b \in Breaker /\ b.until = breaker.until /\ b.streak = breaker.streak
      BY <2>0, RolledFields
    <3>2. Verdict(b, e, now) \in BOOLEAN /\ (Verdict(b, e, now) => ~Cooling(b, now))
      BY DEF Verdict
    <3>3. log' = Append(log, x) /\ run' = run /\ now' = now
      BY <2>2 DEF Evaluate
    <3>4. /\ breaker'.streak = breaker.streak
          /\ breaker'.until = IF Cooling(b, now) THEN breaker.until ELSE None
      BY <2>0, <2>2, <3>1, EvaluatedFields DEF Evaluate
    <3> HIDE DEF b
    <3>5. /\ x \in Rows /\ x.kind = "eval" /\ x.at = now /\ x.run = run
          /\ x.allowed => breaker.until = None \/ now >= breaker.until
          /\ x.allowed => ~Cooling(b, now)
      BY <2>0, <3>1, <3>2, Consts DEF Rows, Entry, Cooling
    <3>6. /\ breaker'.until \in Nat \cup {None}
          /\ breaker.until # None => (breaker'.until # None /\ breaker'.until >= breaker.until)
                                    \/ now >= breaker.until
          /\ breaker'.until # None => breaker'.until = breaker.until /\ ~x.allowed
      BY <2>0, <3>1, <3>4, <3>5 DEF Cooling
    <3> HIDE DEF x
    <3>7. breaker'.streak = Cardinality(Losses(log', Len(log'), run'))
      BY <2>0, <3>3, <3>4, <3>5, LossesStep, AppendSeq DEF CoolInv
    <3>8. breaker'.until # None => Armed(log', run', breaker'.until)
      BY <2>0, <3>3, <3>5, <3>6, ArmedStep DEF CoolInv
    <3>9. ASSUME NEW k \in DOMAIN log', Arms(log', k)
          PROVE  \E a \in 1..k : Pauses(log', k, a, run', now', breaker'.until)
      <4>1. k \in 1..Len(log) /\ Arms(log, k)
        <5>1. DOMAIN log' = 1..(Len(log) + 1) /\ log'[Len(log) + 1].kind # "loss"
          BY <2>0, <3>3, <3>5, AppendSeq
        <5>2. k # Len(log) + 1
          BY <3>9, <5>1 DEF Arms
        <5>3. k \in 1..Len(log)
          BY <2>0, <5>1, <5>2
        <5> QED
          BY <2>0, <3>3, <3>5, <3>9, <5>3, ArmsAppend
      <4>2. PICK a \in 1..k : Pauses(log, k, a, run, now, breaker.until)
        BY <2>0, <4>1 DEF CoolInv
      <4> QED
        BY <2>0, <3>3, <3>5, <3>6, <4>1, <4>2, PauseStep
    <3> QED
      BY <3>7, <3>8, <3>9 DEF CoolInv
  <2>3. ASSUME NEW loss \in BOOLEAN, NEW at \in 0..MaxTime, Feed(loss, at) PROVE CoolInv'
    <3> DEFINE x == [kind |-> IF loss THEN "loss" ELSE "win", at |-> at, run |-> run]
               n == Len(log) + 1
               arms == loss /\ breaker.streak + 1 >= LossLimit /\ ~Cooling(breaker, at)
    <3>1. /\ at \in Nat /\ at <= now /\ breaker' = Fed(breaker, loss, at)
          /\ log' = Append(log, x) /\ run' = run /\ now' = now
      BY <2>3, Consts DEF Feed
    <3>2. /\ breaker'.streak = IF loss THEN breaker.streak + 1 ELSE 0
          /\ breaker'.until = IF arms THEN at + Cooldown ELSE breaker.until
      BY <2>0, <3>1, FedFields
    <3>3. /\ x \in Rows /\ x.kind # "eval" /\ x.at = at /\ x.run = run
          /\ x.kind = IF loss THEN "loss" ELSE "win"
      BY <2>0, <3>1, Consts DEF Rows, Close
    <3> HIDE DEF x
    <3>4. breaker'.streak = Cardinality(Losses(log', Len(log'), run'))
      <4> DEFINE S == Losses(log, Len(log), run)
      <4>0. Len(log') = n
        BY <2>0, <3>1, <3>3, AppendSeq
      <4>1. CASE loss
        <5>1. Losses(log', n, run) = S \cup {n} /\ n \notin S
          BY <2>0, <3>1, <3>3, <4>1, LossesStep
        <5>2. IsFiniteSet(S) /\ breaker.streak = Cardinality(S)
          BY <2>0, LossesFinite DEF CoolInv
        <5> HIDE DEF S, n
        <5>3. Cardinality(S \cup {n}) = Cardinality(S) + 1
          BY <5>1, <5>2, FS_AddElement
        <5> QED
          BY <3>1, <3>2, <4>0, <4>1, <5>1, <5>2, <5>3
      <4>2. CASE ~loss
        <5>1. Losses(log', n, run) = {}
          BY <2>0, <3>1, <3>3, <4>2, LossesStep
        <5> HIDE DEF n
        <5> QED
          BY <3>1, <3>2, <4>0, <4>2, <5>1, FS_EmptySet
      <4> QED
        BY <4>1, <4>2
    <3>5. /\ DOMAIN log' = 1..n /\ n \in DOMAIN log' /\ log'[n] = x /\ Len(log') = n
          /\ ~IsEval(log', n)
      BY <2>0, <3>1, <3>3, AppendSeq, EvalAppend
    <3>6. Arms(log', n) <=> loss /\ breaker.streak + 1 >= LossLimit
      BY <3>1, <3>2, <3>3, <3>4, <3>5 DEF Arms
    <3>7. /\ breaker'.until \in Nat \cup {None}
          /\ breaker.until # None => (breaker'.until # None /\ breaker'.until >= breaker.until)
                                    \/ now >= breaker.until
      BY <2>0, <3>1, <3>2, Consts DEF Cooling, None
    <3>8. \A u : Quiet(log', n, u)
      BY <2>0, <3>5 DEF Quiet
    <3> HIDE DEF n
    <3>9. breaker'.until # None => Armed(log', run', breaker'.until)
      <4>1. CASE arms
        BY <3>1, <3>2, <3>3, <3>5, <3>6, <3>8, <4>1 DEF Armed
      <4>2. CASE ~arms
        BY <2>0, <3>1, <3>2, <3>3, <4>2, ArmedStep DEF CoolInv
      <4> QED
        BY <4>1, <4>2
    <3>10. ASSUME NEW k \in DOMAIN log', Arms(log', k)
           PROVE  \E a \in 1..k : Pauses(log', k, a, run', now', breaker'.until)
      <4>1. CASE k = n
        <5>1. loss /\ breaker.streak + 1 >= LossLimit
          BY <3>6, <3>10, <4>1
        <5>2. CASE arms
          <6>1. Pauses(log', n, n, run', now', breaker'.until)
            BY <3>1, <3>2, <3>3, <3>5, <3>8, <3>10, <4>1, <5>2, Consts DEF Pauses, None
          <6>2. n \in 1..n
            BY <3>5
          <6> QED
            BY <4>1, <6>1, <6>2
        <5>3. CASE ~arms
          <6>1. Cooling(breaker, at) /\ breaker'.until = breaker.until /\ breaker.until # None /\ at < breaker.until
            BY <3>2, <5>1, <5>3 DEF Cooling
          <6>2. PICK a \in DOMAIN log' :
                   /\ Arms(log', a) /\ log'[a].run = run' /\ breaker'.until = log'[a].at + Cooldown
                   /\ Quiet(log', a, breaker'.until)
            BY <3>9, <6>1 DEF Armed
          <6>3. Pauses(log', n, a, run', now', breaker'.until)
            BY <2>0, <3>1, <3>3, <3>5, <6>1, <6>2 DEF Pauses
          <6> QED
            BY <3>5, <4>1, <6>2, <6>3
        <5> QED
          BY <5>2, <5>3
      <4>2. CASE k # n
        <5>1. k \in 1..Len(log)
          BY <2>0, <3>5, <4>2 DEF n
        <5>2. Arms(log, k)
          BY <2>0, <3>1, <3>3, <3>10, <5>1, ArmsAppend
        <5>3. PICK a \in 1..k : Pauses(log, k, a, run, now, breaker.until)
          BY <2>0, <5>1, <5>2 DEF CoolInv
        <5> QED
          BY <2>0, <3>1, <3>3, <3>7, <5>1, <5>3, PauseStep
      <4> QED
        BY <4>1, <4>2
    <3> QED
      BY <3>4, <3>9, <3>10 DEF CoolInv
  <2>4. CASE Restart
    <3>1. /\ log' = log /\ run' = run + 1 /\ now' = now
          /\ breaker'.streak = 0 /\ breaker'.until = None
      BY <2>4 DEF Restart, Fresh
    <3>2. \A i \in DOMAIN log : log[i].run # run + 1
      BY <2>0, RowTypes DEF Past
    <3>3. Losses(log, Len(log), run + 1) = {}
      BY <2>0, <3>2 DEF Losses
    <3>4. ASSUME NEW k \in DOMAIN log, Arms(log, k)
          PROVE  \E a \in 1..k : Pauses(log, k, a, run + 1, now, None)
      BY <3>2, <3>4 DEF CoolInv, Pauses
    <3> QED
      BY <3>1, <3>3, <3>4, FS_EmptySet DEF CoolInv
  <2>5. CASE UNCHANGED vars
    BY <2>5 DEF vars, CoolInv
  <2> QED
    BY <2>1, <2>2, <2>3, <2>4, <2>5 DEF Next
<1> QED
  BY <1>1, <1>2, TypeInvariant, PTL DEF Spec

LEMMA ArmingArms ==
    /\ \A k \in DOMAIN log : Streak(k) = Losses(log, k, log[k].run)
    /\ \A k \in DOMAIN log : Arming(k) <=> Arms(log, k)
  <1>1. \A k \in DOMAIN log : Streak(k) = Losses(log, k, log[k].run)
    BY DEF Streak, Losses
  <1> QED
    BY <1>1 DEF Arming, Arms

\* A losing streak at its limit stops the engine for a cooldown, in what order so
\* ever the closes were booked (record_trade_result and evaluate).
THEOREM StreaksCool == Spec => []StreakCools
<1>1. CoolInv => StreakCools
  <2> SUFFICES ASSUME CoolInv, NEW k \in DOMAIN log, Arming(k)
               PROVE  \E a \in 1..k :
                         /\ Arming(a) /\ log[a].run = log[k].run
                         /\ log[k].at < log[a].at + Cooldown
                         /\ \A j \in Evals :
                                a < j /\ log[j].run = log[a].run /\ log[j].allowed
                                    => log[j].at >= log[a].at + Cooldown
    BY DEF StreakCools
  <2>1. PICK a \in 1..k : Pauses(log, k, a, run, now, breaker.until)
    BY ArmingArms DEF CoolInv
  <2>2. a \in DOMAIN log
    <3>1. log \in Seq(Rows)
      BY DEF CoolInv, TypeInv, TypeOK, Rows
    <3> QED
      BY <2>1, <3>1
  <2>3. Arming(a) /\ log[a].run = log[k].run /\ log[k].at < log[a].at + Cooldown
    BY <2>1, <2>2, ArmingArms DEF Pauses
  <2>4. \A j \in Evals :
           a < j /\ log[j].run = log[a].run /\ log[j].allowed => log[j].at >= log[a].at + Cooldown
    BY <2>1 DEF Pauses, Quiet, Evals, IsEval
  <2> QED
    BY <2>1, <2>3, <2>4
<1> QED
  BY <1>1, CoolInvariant, PTL

-----------------------------------------------------------------------------
(* Refusals *)

Spent(l, i, j, L, pct) ==
    /\ Opens(l, L, i) /\ l[i].at \div L = l[j].at \div L
    /\ Over(l[i].equity, l[j].equity, pct)

\* What refuses evaluation j: a budget spent since evaluation i, or a streak.
Cause(l, j) ==
    \/ \E i \in 1..j :
           /\ IsEval(l, i) /\ i < j /\ l[i].run = l[j].run
           /\ Spent(l, i, j, DayLength, DailyPct) \/ Spent(l, i, j, WeekLength, WeeklyPct)
    \/ \E k \in 1..j : Arms(l, k) /\ l[k].run = l[j].run /\ l[j].at < l[k].at + Cooldown

CauseInv ==
    /\ BudgetInv /\ CoolInv
    /\ \A j \in DOMAIN log : IsEval(log, j) /\ ~log[j].allowed => Cause(log, j)

LEMMA CauseAppend ==
    ASSUME NEW l \in Seq(Rows), NEW x \in Rows, NEW j \in 1..Len(l), Cause(l, j)
    PROVE  Cause(Append(l, x), j)
  <1> DEFINE m == Append(l, x)
  <1>1. /\ Len(l) \in Nat
        /\ \A i \in 1..j : /\ m[i] = l[i] /\ i \in 1..Len(l)
                           /\ IsEval(m, i) <=> IsEval(l, i)
                           /\ Arms(m, i) <=> Arms(l, i)
                           /\ Opens(m, DayLength, i) <=> Opens(l, DayLength, i)
                           /\ Opens(m, WeekLength, i) <=> Opens(l, WeekLength, i)
    BY AppendSeq, EvalAppend, ArmsAppend, OpensAppend
  <1>2. m[j] = l[j]
    BY <1>1
  <1> HIDE DEF m
  <1>3. CASE \E i \in 1..j :
               /\ IsEval(l, i) /\ i < j /\ l[i].run = l[j].run
               /\ Spent(l, i, j, DayLength, DailyPct) \/ Spent(l, i, j, WeekLength, WeeklyPct)
    BY <1>1, <1>2, <1>3 DEF Cause, Spent, m
  <1>4. CASE \E k \in 1..j : Arms(l, k) /\ l[k].run = l[j].run /\ l[j].at < l[k].at + Cooldown
    BY <1>1, <1>2, <1>4 DEF Cause, m
  <1> QED
    BY <1>3, <1>4 DEF Cause

\* The opening a spent budget is measured from is an earlier evaluation.
LEMMA SpentEarlier ==
    ASSUME NEW m \in Seq(Rows), NEW n \in DOMAIN m, n = Len(m), IsEval(m, n),
           NEW L, NEW pct \in Nat, NEW start,
           Anchored(m, m[n].run, L, m[n].at \div L, start), m[n].at \div L # None,
           Over(start, m[n].equity, pct)
    PROVE  \E i \in 1..n : IsEval(m, i) /\ i < n /\ m[i].run = m[n].run /\ Spent(m, i, n, L, pct)
  <1>1. PICK i \in DOMAIN m :
           /\ IsEval(m, i) /\ m[i].run = m[n].run /\ Opens(m, L, i)
           /\ m[i].at \div L = m[n].at \div L /\ m[i].equity = start
    BY DEF Anchored
  <1>2. m[n].equity \in Nat
    <2>1. m[n] \in Rows
      OBVIOUS
    <2> QED
      BY <2>1, RowTypes, Consts DEF IsEval
  <1>3. i # n
    BY <1>1, <1>2, NoLoss
  <1>4. i \in 1..n /\ i < n
    BY <1>1, <1>3
  <1> QED
    BY <1>1, <1>4 DEF Spent

LEMMA CauseInvariant == Spec => []CauseInv
<1>1. Init /\ BudgetInv /\ CoolInv => CauseInv
  BY DEF Init, CauseInv
<1>2. CauseInv /\ BudgetInv' /\ CoolInv' /\ [Next]_vars => CauseInv'
  <2> SUFFICES ASSUME CauseInv, BudgetInv', CoolInv', [Next]_vars PROVE CauseInv'
    OBVIOUS
  <2>0. /\ now \in Nat /\ run \in Nat /\ breaker \in Breaker
        /\ log \in Seq(Rows) /\ DOMAIN log = 1..Len(log) /\ Len(log) \in Nat
    BY Consts DEF CauseInv, CoolInv, TypeInv, TypeOK, Rows
  <2>1. CASE UNCHANGED log
    BY <2>1 DEF CauseInv
  <2>2. ASSUME NEW x \in Rows, log' = Append(log, x),
               x.kind = "eval" /\ ~x.allowed => Cause(log', Len(log) + 1)
        PROVE  CauseInv'
    <3>1. ASSUME NEW j \in DOMAIN log', IsEval(log', j), ~log'[j].allowed PROVE Cause(log', j)
      <4>1. CASE j = Len(log) + 1
        BY <2>0, <2>2, <3>1, <4>1, AppendSeq, EvalAppend
      <4>2. CASE j # Len(log) + 1
        <5>1. j \in 1..Len(log) /\ log'[j] = log[j] /\ IsEval(log, j)
          BY <2>0, <2>2, <3>1, <4>2, AppendSeq, EvalAppend
        <5> QED
          BY <2>0, <2>2, <3>1, <5>1, CauseAppend DEF CauseInv
      <4> QED
        BY <4>1, <4>2
    <3> QED
      BY <3>1 DEF CauseInv
  <2>3. ASSUME NEW e \in Equity, Evaluate(e) PROVE CauseInv'
    <3> DEFINE b == Rolled(breaker, e, now)
               x == [kind |-> "eval", at |-> now, run |-> run, equity |-> e,
                     allowed |-> Verdict(b, e, now)]
               n == Len(log) + 1
    <3>1. /\ b \in Breaker /\ b.until = breaker.until
          /\ b.day = now \div DayLength /\ b.week = now \div WeekLength
      BY <2>0, RolledFields DEF Day, Week, WeekLength
    <3>2. /\ Verdict(b, e, now) \in BOOLEAN
          /\ ~Verdict(b, e, now) => \/ Cooling(b, now) \/ Over(b.dayStart, e, DailyPct)
                                    \/ Over(b.weekStart, e, WeeklyPct)
      BY DEF Verdict
    <3>3. log' = Append(log, x) /\ run' = run
      BY <2>3 DEF Evaluate
    <3>4. /\ breaker'.day = b.day /\ breaker'.dayStart = b.dayStart
          /\ breaker'.week = b.week /\ breaker'.weekStart = b.weekStart
      BY <2>0, <2>3, <3>1, EvaluatedFields DEF Evaluate
    <3> HIDE DEF b
    <3>5. /\ x \in Rows /\ x.kind = "eval" /\ x.at = now /\ x.run = run /\ x.equity = e
          /\ ~x.allowed => \/ Cooling(b, now) \/ Over(b.dayStart, e, DailyPct)
                           \/ Over(b.weekStart, e, WeeklyPct)
      BY <2>0, <3>2, Consts DEF Rows, Entry
    <3> HIDE DEF x
    <3>6. /\ log' \in Seq(Rows) /\ n \in DOMAIN log' /\ n = Len(log') /\ log'[n] = x /\ IsEval(log', n)
      BY <2>0, <3>3, <3>5, AppendSeq, EvalAppend
    <3>7. now \div DayLength # None /\ now \div WeekLength # None
      BY <2>0, WeekLengthNat, Consts, DivMono DEF None
    <3>8. CASE Over(b.dayStart, e, DailyPct)
      <4>1. Anchored(log', run, DayLength, now \div DayLength, b.dayStart)
        BY <3>1, <3>3, <3>4 DEF BudgetInv
      <4>2. \E i \in 1..n : /\ IsEval(log', i) /\ i < n /\ log'[i].run = log'[n].run
                            /\ Spent(log', i, n, DayLength, DailyPct)
        BY <3>5, <3>6, <3>7, <3>8, <4>1, SpentEarlier, Consts
      <4>3. Cause(log', n)
        BY <4>2 DEF Cause
      <4> QED
        BY <2>2, <3>3, <3>5, <4>3
    <3>9. CASE Over(b.weekStart, e, WeeklyPct)
      <4>1. Anchored(log', run, WeekLength, now \div WeekLength, b.weekStart)
        BY <3>1, <3>3, <3>4 DEF BudgetInv
      <4>2. \E i \in 1..n : /\ IsEval(log', i) /\ i < n /\ log'[i].run = log'[n].run
                            /\ Spent(log', i, n, WeekLength, WeeklyPct)
        BY <3>5, <3>6, <3>7, <3>9, <4>1, SpentEarlier, Consts
      <4>3. Cause(log', n)
        BY <4>2 DEF Cause
      <4> QED
        BY <2>2, <3>3, <3>5, <4>3
    <3>10. CASE Cooling(b, now)
      <4>1. breaker.until # None /\ now < breaker.until
        BY <3>1, <3>10 DEF Cooling
      <4>2. PICK a \in DOMAIN log : Arms(log, a) /\ log[a].run = run /\ breaker.until = log[a].at + Cooldown
        BY <4>1 DEF CauseInv, CoolInv, Armed
      <4>3. a \in 1..n /\ Arms(log', a) /\ log'[a] = log[a]
        BY <2>0, <3>3, <3>5, <4>2, AppendSeq, ArmsAppend
      <4>4. Cause(log', n)
        BY <3>5, <3>6, <4>1, <4>2, <4>3 DEF Cause
      <4> QED
        BY <2>2, <3>3, <3>5, <4>4
    <3>11. CASE x.allowed
      BY <2>2, <3>3, <3>5, <3>11
    <3> QED
      BY <3>5, <3>8, <3>9, <3>10, <3>11
  <2>4. ASSUME NEW loss \in BOOLEAN, NEW at \in 0..MaxTime, Feed(loss, at) PROVE CauseInv'
    <3> DEFINE x == [kind |-> IF loss THEN "loss" ELSE "win", at |-> at, run |-> run]
    <3>1. x \in Rows /\ x.kind # "eval" /\ log' = Append(log, x)
      BY <2>0, <2>4, Consts DEF Rows, Close, Feed
    <3> HIDE DEF x
    <3> QED
      BY <2>2, <3>1
  <2> QED
    BY <2>1, <2>3, <2>4 DEF Next, Tick, Restart, vars
<1> QED
  BY <1>1, <1>2, BudgetInvariant, CoolInvariant, PTL DEF Spec

\* The breakers refuse only for a budget spent or a streak still cooling in this
\* process, so every halt of theirs lifts by itself (evaluate).
THEOREM RefusalsHaveCause == Spec => []RefusedForCause
<1>1. CauseInv => RefusedForCause
  <2> SUFFICES ASSUME CauseInv, NEW j \in Evals, ~log[j].allowed
               PROVE  \/ \E i \in Evals : i < j /\ log[i].run = log[j].run /\ Breaks(i, j)
                      \/ \E k \in 1..j : /\ Arming(k) /\ log[k].run = log[j].run
                                         /\ log[j].at < log[k].at + Cooldown
    BY DEF RefusedForCause
  <2>1. j \in DOMAIN log /\ IsEval(log, j) /\ Cause(log, j)
    BY DEF CauseInv, Evals, IsEval
  <2>3. ASSUME NEW i \in 1..j, IsEval(log, i), i < j, log[i].run = log[j].run,
               Spent(log, i, j, DayLength, DailyPct) \/ Spent(log, i, j, WeekLength, WeeklyPct)
        PROVE  i \in Evals /\ Breaks(i, j)
    <3>1. i \in DOMAIN log /\ i \in Evals
      BY <2>3 DEF Evals, IsEval
    <3>2. CASE Spent(log, i, j, DayLength, DailyPct)
      <4>1. OpensDay(i)
        BY <3>2 DEF Spent, Opens, OpensDay, Evals, IsEval, Day
      <4>2. Day(log[i].at) = Day(log[j].at)
        BY <3>2 DEF Spent, Day
      <4> QED
        BY <3>1, <3>2, <4>1, <4>2 DEF Spent, Breaks
    <3>3. CASE Spent(log, i, j, WeekLength, WeeklyPct)
      <4>1. OpensWeek(i)
        BY <3>3 DEF Spent, Opens, OpensWeek, Evals, IsEval, Week, WeekLength
      <4>2. Week(log[i].at) = Week(log[j].at)
        BY <3>3 DEF Spent, Week, WeekLength
      <4> QED
        BY <3>1, <3>3, <4>1, <4>2 DEF Spent, Breaks
    <3> QED
      BY <2>3, <3>2, <3>3
  <2>4. \A k \in 1..j : Arms(log, k) => Arming(k)
    <3>1. log \in Seq(Rows)
      BY DEF CauseInv, CoolInv, TypeInv, TypeOK, Rows
    <3>2. \A k \in 1..j : k \in DOMAIN log
      BY <2>1, <3>1
    <3> QED
      BY <3>2, ArmingArms
  <2> QED
    BY <2>1, <2>3, <2>4 DEF Cause
<1> QED
  BY <1>1, CauseInvariant, PTL
=============================================================================
