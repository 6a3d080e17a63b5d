---------------------------- MODULE LossBreakers ----------------------------
(***************************************************************************)
(* The profit-protection breakers of the risk engine: a daily and a weekly *)
(* loss budget measured from the equity of the first evaluation of the     *)
(* period, and a timed cooldown after a streak of losing trades.  The tick *)
(* thread evaluates every proposal and feeds every booked close; a close   *)
(* is booked when its deals turn up, perhaps late and out of order.        *)
(*                                                                         *)
(* `log' is the history the properties are stated over; the code keeps     *)
(* only the fields of `breaker', in memory: nothing calls                  *)
(* save_breaker_anchors, so a new process finds no anchors to restore.     *)
(* Left out: the refusals of evaluate_proposal before and after the        *)
(* breakers, and the checks for values that are not finite.                *)
(***************************************************************************)
EXTENDS Integers, Sequences, FiniteSets

CONSTANTS
    Equity,       \* values the account's equity takes
    DayLength,    \* time units in a UTC day
    WeekDays,     \* days in a week
    DailyPct,     \* daily_loss_budget_pct
    WeeklyPct,    \* weekly_loss_budget_pct
    LossLimit,    \* consecutive_loss_cooldown
    Cooldown,     \* cooldown_duration_sec
    MaxTime,      \* bound: time units explored
    MaxLog,       \* bound: evaluations and closes explored
    MaxRuns       \* bound: engine processes explored

ASSUME ConstantsAssumption ==
    /\ Equity \subseteq Nat \ {0}
    /\ {DayLength, WeekDays, LossLimit, Cooldown, MaxRuns} \subseteq Nat \ {0}
    /\ {DailyPct, WeeklyPct, MaxTime, MaxLog} \subseteq Nat

VARIABLES
    now,       \* the time of the last tick
    run,       \* which process this is
    breaker,   \* CircuitBreakerEngine
    log        \* every evaluation and every close that was fed, in order

vars == <<now, run, breaker, log>>

None == -1     \* no period, no anchor, no cooldown

Day(t)  == t \div DayLength
Week(t) == t \div (DayLength * WeekDays)

Breaker == [day : Nat \cup {None}, dayStart : Equity \cup {None},
            week : Nat \cup {None}, weekStart : Equity \cup {None},
            streak : Nat, until : Nat \cup {None}]

Fresh == [day |-> None, dayStart |-> None, week |-> None, weekStart |-> None,
          streak |-> 0, until |-> None]

Entry == [kind : {"eval"}, at : Nat, run : Nat, equity : Equity, allowed : BOOLEAN]
Close == [kind : {"loss", "win"}, at : Nat, run : Nat]

-----------------------------------------------------------------------------
(* CircuitBreakerEngine *)

\* _loss_pct(start, e) > pct
Over(start, e, pct) == (start - e) * 100 > pct * start

\* Mutant of Rolled: a new day also moves the anchor of the week.
RolledTogether(b, e, t) ==
    [b EXCEPT !.day = Day(t), !.dayStart = IF b.day = Day(t) THEN b.dayStart ELSE e,
              !.week = Week(t), !.weekStart = IF b.day = Day(t) THEN b.weekStart ELSE e]

\* update_equity: the first equity of a period anchors it.
Rolled(b, e, t) ==
    [b EXCEPT !.day = Day(t), !.dayStart = IF b.day = Day(t) THEN b.dayStart ELSE e,
              !.week = Week(t), !.weekStart = IF b.week = Week(t) THEN b.weekStart ELSE e]

Cooling(b, t) == b.until # None /\ t < b.until

\* Mutant of Verdict: an expired cooldown blocks until the streak is broken.
VerdictOfStreak(b, e, t) ==
    /\ b.streak < LossLimit
    /\ ~Over(b.dayStart, e, DailyPct)
    /\ ~Over(b.weekStart, e, WeeklyPct)

\* evaluate: what a proposal is told.
Verdict(b, e, t) ==
    /\ ~Cooling(b, t)
    /\ ~Over(b.dayStart, e, DailyPct)
    /\ ~Over(b.weekStart, e, WeeklyPct)

\* Mutant of Fed: a winning trade ends the cooldown with the streak.
FedForgiving(b, loss, at) ==
    IF ~loss THEN [b EXCEPT !.streak = 0, !.until = None]
    ELSE [b EXCEPT !.streak = @ + 1,
                   !.until = IF b.streak + 1 >= LossLimit /\ ~Cooling(b, at)
                             THEN at + Cooldown ELSE @]

\* Mutant of Fed: a winning trade takes one off the streak.
FedDown(b, loss, at) ==
    IF ~loss THEN [b EXCEPT !.streak = @ - 1]
    ELSE [b EXCEPT !.streak = @ + 1,
                   !.until = IF b.streak + 1 >= LossLimit /\ ~Cooling(b, at)
                             THEN at + Cooldown ELSE @]

\* record_trade_result: a loss that finds the streak at its limit arms the cooldown,
\* unless one is running when the trade closed.
Fed(b, loss, at) ==
    IF ~loss THEN [b EXCEPT !.streak = 0]
    ELSE [b EXCEPT !.streak = @ + 1,
                   !.until = IF b.streak + 1 >= LossLimit /\ ~Cooling(b, at)
                             THEN at + Cooldown ELSE @]

-----------------------------------------------------------------------------
(* The engine *)

Init ==
    /\ now = 0 /\ run = 1
    /\ breaker = Fresh
    /\ log = <<>>

Tick ==
    /\ now < MaxTime
    /\ now' = now + 1
    /\ UNCHANGED <<run, breaker, log>>

\* evaluate_proposal asks the breakers; a cooldown that has passed is cleared, the
\* streak that armed it is not.
Evaluate(e) ==
    LET b == Rolled(breaker, e, now) IN
    /\ Len(log) < MaxLog
    /\ breaker' = IF Cooling(b, now) THEN b ELSE [b EXCEPT !.until = None]
    /\ log' = Append(log, [kind |-> "eval", at |-> now, run |-> run, equity |-> e,
                           allowed |-> Verdict(b, e, now)])
    /\ UNCHANGED <<now, run>>

\* The autopsy or the missed-close loop books a trade that closed at some time so far.
Feed(loss, at) ==
    /\ Len(log) < MaxLog
    /\ at <= now
    /\ breaker' = Fed(breaker, loss, at)
    /\ log' = Append(log, [kind |-> IF loss THEN "loss" ELSE "win", at |-> at, run |-> run])
    /\ UNCHANGED <<now, run>>

\* A new process: get_breaker_anchors finds none.
Restart ==
    /\ run < MaxRuns
    /\ run' = run + 1
    /\ breaker' = Fresh
    /\ UNCHANGED <<now, log>>

Next ==
    \/ Tick
    \/ \E e \in Equity : Evaluate(e)
    \/ \E loss \in BOOLEAN, at \in 0..MaxTime : Feed(loss, at)
    \/ Restart

Spec == Init /\ [][Next]_vars

-----------------------------------------------------------------------------
(* Properties *)

TypeOK ==
    /\ now \in 0..MaxTime /\ run \in 1..MaxRuns
    /\ breaker \in Breaker
    /\ log \in Seq(Entry \cup Close)

Evals == {i \in DOMAIN log : log[i].kind = "eval"}

\* Evaluation i is the first of its day (of its week) in its process.
OpensDay(i)  == \A h \in Evals : h < i /\ log[h].run = log[i].run => Day(log[h].at) # Day(log[i].at)
OpensWeek(i) == \A h \in Evals : h < i /\ log[h].run = log[i].run => Week(log[h].at) # Week(log[i].at)

Breaks(i, j) ==
    \/ OpensDay(i) /\ Day(log[i].at) = Day(log[j].at) /\ Over(log[i].equity, log[j].equity, DailyPct)
    \/ OpensWeek(i) /\ Week(log[i].at) = Week(log[j].at) /\ Over(log[i].equity, log[j].equity, WeeklyPct)

\* Within one process no proposal passes on an equity that has lost more than the
\* daily or the weekly budget since the first evaluation of that period, however the
\* days, the recoveries and the cooldowns between them fall.
BudgetsHold ==
    \A i, j \in Evals :
        i <= j /\ log[i].run = log[j].run /\ log[j].allowed => ~Breaks(i, j)

\* The losses in a row that close k completes, in the order they were fed.
Streak(k) ==
    {i \in 1..k : /\ log[i].kind = "loss" /\ log[i].run = log[k].run
                  /\ \A w \in i..k : log[w].kind # "win" \/ log[w].run # log[k].run}

Arming(k) == log[k].kind = "loss" /\ Cardinality(Streak(k)) >= LossLimit

\* A losing streak that reaches the limit is followed by a pause: nothing passes
\* before the cooldown of that loss, or of an earlier one it still runs from, is over.
StreakCools ==
    \A k \in DOMAIN log : Arming(k) =>
        \E a \in 1..k :
            /\ Arming(a) /\ log[a].run = log[k].run
            /\ log[k].at < log[a].at + Cooldown
            /\ \A j \in Evals :
                   a < j /\ log[j].run = log[a].run /\ log[j].allowed
                       => log[j].at >= log[a].at + Cooldown

\* A refusal has its cause in this process: a budget spent since its period opened,
\* or a losing streak at its limit less than a cooldown ago.  No halt outlives that.
RefusedForCause ==
    \A j \in Evals : ~log[j].allowed =>
        \/ \E i \in Evals : i < j /\ log[i].run = log[j].run /\ Breaks(i, j)
        \/ \E k \in 1..j : /\ Arming(k) /\ log[k].run = log[j].run
                           /\ log[j].at < log[k].at + Cooldown

\* The budgets across restarts: a loss taken earlier in the period keeps counting.
\* It fails: the anchors are never saved, a new process measures from what is left.
LossesOutliveRestart ==
    \A i, j \in Evals :
        (/\ i <= j /\ log[j].allowed
         /\ Day(log[i].at) = Day(log[j].at)
         /\ \A h \in Evals : h < i => Day(log[h].at) # Day(log[i].at))
            => ~Over(log[i].equity, log[j].equity, DailyPct)
=============================================================================
