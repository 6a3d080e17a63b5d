-------------------------- MODULE PositionProtection --------------------------
(***************************************************************************)
(* The protection of one open BUY position (a SELL mirrors it).  On every  *)
(* tick the engine takes a snapshot of the position and runs a chain over  *)
(* it: the profit-giveback close, the adaptive break-even lock, the lock   *)
(* of the best profit, and the verdict of the router or of the rule        *)
(* matrix.  Each link may write the stop; the price, the broker's stop and *)
(* the operator move between them, and all of them compare with the        *)
(* snapshot.                                                               *)
(*                                                                         *)
(* Prices are whole points, the contract size is 1.  The cooldowns, dwell  *)
(* times, step gate and hysteresis that may hold an action back are a free *)
(* choice to do nothing, the router's and the rules' conditions a free     *)
(* choice among their verdicts.  Take-profit, sibling legs, the AI flip    *)
(* exit (off by default) and the legacy trigger are left out.              *)
(***************************************************************************)
EXTENDS Integers

CONSTANTS
    Open,         \* price_open
    Volume,       \* lots at the open, in volume steps
    FirstStop,    \* stop at the open, 0 for none
    Prices,       \* bid prices
    HandStops,    \* stops the operator sets
    AtrRisk,      \* 1.5 ATR, the risk of a position first seen without a stop
    Gap,          \* the broker's minimum distance of a stop from the price
    LockGap,      \* effective_freeze_gap of the break-even lock
    LockPips,     \* BREAKEVEN_LOCK_PIPS
    Cost,         \* round trip cost and buffer of the full lock
    Triggers,     \* full trigger of the lock by regime and ATR, in tenths of R
    MinPeak,      \* PROFIT_GIVEBACK_PEAK_USD
    MfePeak,      \* peak that arms the lock of the best profit
    RulePip,      \* offset of RULE_ZERO_DRAWDOWN_TRAIL
    HalfAtr,      \* distance of RULE_ATR_EXPANSION_RATCHET
    BeLock,       \* offset of the router's BREAK_EVEN
    Trail,        \* distance of the router's NORMAL_TRAIL
    Faults,       \* of {"refuse", "reply", "blind"}: refused requests, lost
                  \* answers, position queries that answer nothing
    MaxRestarts   \* bound: engine restarts explored

ASSUME ConstantsAssumption ==
    /\ {Open, Volume, Gap, LockGap, LockPips, Cost, MinPeak} \subseteq Nat \ {0}
    /\ {FirstStop, AtrRisk, MfePeak, RulePip, HalfAtr, BeLock, Trail, MaxRestarts} \subseteq Nat
    /\ Prices \subseteq Nat /\ HandStops \subseteq Nat /\ Triggers \subseteq Nat
    /\ Open \in Prices /\ FirstStop < Open

VARIABLES
    price,      \* broker: the bid
    stop,       \* broker: the stop, 0 for none
    vol,        \* broker: open volume, 0 once closed
    step,       \* the management pass: where it is
    tick,       \* its current_tick
    pos,        \* its snapshot of the position
    mem,        \* PositionProtectionState
    risk,       \* _initial_risks
    scaled,     \* _partial_closed_tickets
    done,       \* _closed_tickets
    seen,       \* history: the stop of the last snapshot, until the operator moves it
    restarts

broker == <<price, stop, vol>>
pass   == <<step, tick, pos>>
memory == <<mem, risk, scaled, done>>
vars   == <<broker, pass, memory, seen, restarts>>

Steps == {"idle", "read", "giveback", "lock", "mfe", "act"}

Unknown == -1      \* a ticket that is not tracked yet
None    == -1      \* no snapshot, or the stop moved by hand since

NoMemory == [peak |-> 0, locked |-> FALSE, floor |-> 0, asked |-> FALSE]

-----------------------------------------------------------------------------
(* The policies, over the snapshot and the memory *)

\* calculate_breakeven_sl
Even == Open + LockPips

\* _tiered_giveback_floor: armed from half of R, with the share to keep in percent.
Armed == risk <= 0 \/ 2 * mem.peak >= risk
Keep  == IF risk <= 0 THEN 30
         ELSE IF 2 * mem.peak >= 3 * risk THEN 80
         ELSE IF mem.peak >= risk THEN 70 ELSE 60

\* evaluate_profit_giveback
Eroded ==
    /\ mem.peak >= MinPeak /\ Armed
    /\ pos.profit < 0 \/ 100 * pos.profit < Keep * mem.peak

\* Mutant of Critical: a loss after a peak below the arming point is tolerated.
CriticalArmed ==
    /\ mem.peak >= MinPeak /\ Armed
    /\ pos.profit < 0 \/ 100 * pos.profit <= Keep * mem.peak

\* _evaluate_candidate_state: PROFIT_GIVEBACK_CRITICAL, which no debounce delays.
Critical ==
    /\ mem.peak >= MinPeak
    /\ \/ pos.profit < 0
       \/ Armed /\ 100 * pos.profit <= Keep * mem.peak

\* PROFIT_GIVEBACK_WARNING
Warned == mem.peak >= MinPeak /\ Armed /\ 10 * pos.profit < 7 * mem.peak

\* Mutant of Improves: only the break-even floor is respected.
ImprovesFloor(target) == mem.locked => target >= mem.floor

\* is_sl_improvement: past the snapshot's stop, and not behind the break-even lock.
Improves(target) ==
    /\ target > pos.stop
    /\ mem.locked => target >= mem.floor

\* 70% of the best profit.
BestLock == Open + (7 * mem.peak) \div (10 * pos.vol)

\* ExitProtectionPolicy.plan, trigger at k tenths of R: below it the stop goes to
\* -0.45R, from it on to the cost-aware lock.  The move must have persisted.
Unit == risk \div pos.vol
Due(k) ==
    /\ risk > 0
    /\ 10 * mem.peak >= 6 * risk
    /\ \/ 100 * pos.profit >= 100 * mem.peak - 15 * risk
       \/ 100 * pos.profit >= (10 * k - 15) * risk
Planned(k) ==
    IF 10 * mem.peak < k * risk THEN Open - (45 * Unit) \div 100
    ELSE Open + Cost + Unit \div 10

-----------------------------------------------------------------------------
(* The broker *)

Accepts(target) == vol > 0 /\ price - target >= Gap

\* modify_position and what it answers.
Modify(target, ok) ==
    /\ \/ ok /\ Accepts(target) /\ stop' = target
       \/ ~ok /\ "reply" \in Faults /\ Accepts(target) /\ stop' = target
       \/ ~ok /\ ("refuse" \in Faults \/ ~Accepts(target)) /\ stop' = stop
    /\ UNCHANGED <<price, vol>>

\* close_position and what it answers: after a refusal it asks whether the position is
\* still there, and takes a query that answers nothing for a close.
Close(ok) ==
    /\ \/ vol' = 0 /\ (ok \/ vol = 0 \/ "reply" \in Faults)
       \/ vol' = vol /\ (IF ok THEN "blind" \in Faults ELSE "refuse" \in Faults)
    /\ UNCHANGED <<price, stop>>

\* The market moves and fills the stop.
Move(p) ==
    /\ vol > 0 /\ p # price
    /\ price' = p
    /\ vol' = IF stop > 0 /\ p <= stop THEN 0 ELSE vol
    /\ UNCHANGED <<stop, pass, memory, seen, restarts>>

\* modify_position_manual, from the dashboard's thread.
ModifyByHand(s) ==
    /\ vol > 0 /\ s # stop /\ Accepts(s)
    /\ stop' = s
    /\ seen' = None
    /\ UNCHANGED <<price, vol, pass, memory, restarts>>

\* close_position_manual
CloseByHand ==
    /\ vol > 0
    /\ vol' = 0
    /\ UNCHANGED <<price, stop, pass, memory, seen, restarts>>

-----------------------------------------------------------------------------
(* A management pass *)

NoPosition == [stop |-> 0, vol |-> Volume, profit |-> 0]

To(s) == step' = s /\ UNCHANGED <<tick, pos>>

Ends == step' = "idle" /\ tick' = Open /\ pos' = NoPosition

Init ==
    /\ price = Open /\ stop = FirstStop /\ vol = Volume
    /\ step = "idle" /\ tick = Open
    /\ pos = NoPosition
    /\ mem = NoMemory /\ risk = Unknown /\ scaled = FALSE /\ done = FALSE
    /\ seen = None /\ restarts = 0

\* The tick is fetched before the positions are.
Tick ==
    /\ step = "idle"
    /\ step' = "read" /\ tick' = price
    /\ UNCHANGED <<broker, pos, memory, seen, restarts>>

Highest(a, b) == IF a >= b THEN a ELSE b

\* Mutant of Peak: the peak follows the profit.
PeakFollows(profit) == profit

\* update_peak
Peak(profit) == Highest(mem.peak, profit)

\* get_positions, the tracking of a new ticket and refresh_protection_state.  Before
\* it, reconcile_missed_closes takes an untracked ticket with a closing deal for
\* closed, though the deal closed only a part of it.
Read ==
    LET profit == vol * (price - Open) IN
    /\ step = "read" /\ vol > 0
    /\ pos' = [stop |-> stop, vol |-> vol, profit |-> profit]
    /\ risk' = IF risk # Unknown THEN risk
               ELSE vol * (IF stop = 0 THEN AtrRisk ELSE Highest(Open - stop, stop - Open))
    /\ mem' = [peak |-> Peak(profit), floor |-> Even,
               locked |-> mem.locked \/ stop >= Even, asked |-> mem.asked]
    /\ \/ done' = done
       \/ risk = Unknown /\ vol < Volume /\ done' = TRUE
    /\ seen' = stop
    /\ step' = "giveback"
    /\ UNCHANGED <<broker, tick, scaled, restarts>>

\* The position is gone, or the query answers nothing: its autopsy, modelled in
\* DecisionOutcomes, and _cleanup_ticket_state, which leaves the protection state.
ReadNone ==
    /\ step = "read"
    /\ vol = 0 \/ "blind" \in Faults
    /\ risk' = Unknown /\ scaled' = FALSE /\ done' = FALSE
    /\ Ends
    /\ UNCHANGED <<broker, mem, seen, restarts>>

\* The engine holds the position for closed, or for closing.
Dismissed == mem.asked \/ done

\* _run_protection_chain then leaves the position alone.
Skips ==
    /\ step = "giveback" /\ Dismissed
    /\ Ends
    /\ UNCHANGED <<broker, memory, seen, restarts>>

\* enforce_profit_giveback_protection
KeepsProfit ==
    /\ step = "giveback" /\ ~Dismissed /\ ~Eroded
    /\ To("lock")
    /\ UNCHANGED <<broker, memory, seen, restarts>>

\* The answer is remembered as close_requested.
GivebackCloses(ok) ==
    /\ step = "giveback" /\ ~Dismissed /\ Eroded
    /\ Close(ok)
    /\ mem' = [mem EXCEPT !.asked = ok]
    /\ Ends
    /\ UNCHANGED <<risk, scaled, done, seen, restarts>>

\* In a volatility expansion a position whose break-even stop holds is not closed;
\* _maybe_tighten_protective_sl may move that stop to 85% of the profit.
GivebackSpares(ok) ==
    LET target == Open + (85 * pos.profit) \div (100 * pos.vol) IN
    /\ step = "giveback" /\ ~Dismissed /\ Eroded
    /\ mem.locked /\ pos.stop >= mem.floor /\ tick > pos.stop
    /\ \/ UNCHANGED broker
       \/ pos.profit > 0 /\ Improves(target) /\ Modify(target, ok)
    /\ Ends
    /\ UNCHANGED <<memory, seen, restarts>>

\* apply_breakeven_lock: held back, or the planned stop capped below the tick.
LockWaits ==
    /\ step = "lock"
    /\ To("mfe")
    /\ UNCHANGED <<broker, memory, seen, restarts>>

LockSent(k, ok) ==
    LET target == IF Planned(k) >= tick - LockGap THEN tick - LockGap ELSE Planned(k) IN
    /\ step = "lock" /\ ~mem.locked
    /\ Due(k) /\ Planned(k) > pos.stop
    /\ target = Planned(k) \/ target > Open
    /\ Modify(target, ok)
    /\ mem' = [mem EXCEPT !.floor = Planned(k), !.locked = ok]
    /\ To("mfe")
    /\ UNCHANGED <<risk, scaled, done, seen, restarts>>

\* The lock of the best profit.
MfeWaits ==
    /\ step = "mfe"
    /\ To("act")
    /\ UNCHANGED <<broker, memory, seen, restarts>>

MfeSent(ok) ==
    /\ step = "mfe"
    /\ mem.peak >= MfePeak /\ 10 * pos.profit < 7 * mem.peak
    /\ tick - BestLock >= Gap /\ Improves(BestLock)
    /\ Modify(BestLock, ok)
    /\ To("act")
    /\ UNCHANGED <<memory, seen, restarts>>

\* _arbitrate_decision: a critical giveback closes whatever the router says.  A close
\* that answers yes is done once _broker_close_verified no longer sees the position.
ActCloses(ok) ==
    /\ step = "act"
    /\ Close(ok)
    /\ IF ok /\ vol' > 0 THEN done' \in BOOLEAN ELSE done' = ok
    /\ Ends
    /\ UNCHANGED <<mem, risk, scaled, seen, restarts>>

ActHolds ==
    /\ step = "act" /\ ~Critical
    /\ Ends
    /\ UNCHANGED <<broker, memory, seen, restarts>>

\* The targets of MODIFY_SL (two rules and the giveback warning), of BREAK_EVEN and
\* of NORMAL_TRAIL, past the guards of their branches.
Targets ==
    {t \in {Open + RulePip} : tick > t}
    \cup {t \in {tick - HalfAtr} : pos.profit > 0}
    \cup {t \in {BestLock} : Warned}
RouterTargets ==
    {t \in {Open + BeLock} : tick > Open /\ t > pos.stop /\ ~mem.locked /\ tick - t >= Gap}
    \cup {t \in {tick - Highest(Gap, Trail)} : tick > Open /\ Improves(t)}

ActModifies(ok) ==
    /\ step = "act" /\ ~Critical
    /\ \/ \E t \in Targets : Improves(t) /\ Modify(t, ok)
       \/ \E t \in RouterTargets : Modify(t, ok)
    /\ Ends
    /\ UNCHANGED <<memory, seen, restarts>>

\* What is left of v after a request to close n; one for more than that is refused.
Less(v, n) == IF n <= v THEN v - n ELSE v

\* PARTIAL_CLOSE of one half, rounded, once.  close_position sends the same volume up
\* to three times after lost answers, as long as any of the position is still open.
ActScalesOut ==
    \E half \in {pos.vol \div 2, (pos.vol + 1) \div 2} :
        LET once  == Less(vol, half)
            twice == Less(once, half)
        IN  /\ step = "act" /\ ~Critical
            /\ tick > Open /\ ~scaled /\ 0 < half /\ half < pos.vol
            /\ \/ half <= vol /\ vol' = once /\ scaled' = TRUE
               \/ ("refuse" \in Faults \/ half > vol) /\ vol' = vol /\ scaled' = FALSE
               \/ /\ "reply" \in Faults
                  /\ vol' \in {once, twice, Less(twice, half)} /\ scaled' \in BOOLEAN
            /\ Ends
            /\ UNCHANGED <<price, stop, mem, risk, done, seen, restarts>>

\* A new engine process: the position is found again, nothing of the memory is.
Restart ==
    /\ restarts < MaxRestarts
    /\ restarts' = restarts + 1
    /\ mem' = NoMemory /\ risk' = Unknown /\ scaled' = FALSE /\ done' = FALSE
    /\ Ends
    /\ UNCHANGED <<broker, seen>>

Next ==
    \/ \E p \in Prices : Move(p)
    \/ \E s \in HandStops : ModifyByHand(s)
    \/ CloseByHand
    \/ Tick \/ Read \/ ReadNone
    \/ Skips \/ KeepsProfit
    \/ \E ok \in BOOLEAN : GivebackCloses(ok) \/ GivebackSpares(ok)
    \/ LockWaits
    \/ \E k \in Triggers, ok \in BOOLEAN : LockSent(k, ok)
    \/ MfeWaits
    \/ \E ok \in BOOLEAN : MfeSent(ok)
    \/ ActHolds
    \/ \E ok \in BOOLEAN : ActCloses(ok)
    \/ \E ok \in BOOLEAN : ActModifies(ok)
    \/ ActScalesOut
    \/ Restart

Spec == Init /\ [][Next]_vars

GivebackCloseSent == \E ok \in BOOLEAN : GivebackCloses(ok)
ActCloseSent == \E ok \in BOOLEAN : ActCloses(ok)

\* Passes go on (every tick runs one, whatever blocks new entries), the broker does
\* not hide an open position from all of them, and a broker that is asked again on
\* every pass to close a losing position does so in the end.
Fairness ==
    /\ WF_vars(Tick) /\ WF_vars(ReadNone) /\ SF_vars(Read)
    /\ WF_vars(Skips \/ KeepsProfit \/ GivebackCloseSent)
    /\ WF_vars(LockWaits) /\ WF_vars(MfeWaits) /\ WF_vars(ActCloseSent \/ ActHolds)
    /\ SF_vars(GivebackCloseSent /\ pos.profit < 0 /\ vol' = 0)
    /\ SF_vars(ActCloseSent /\ Critical /\ pos.profit < 0 /\ vol' = 0)

FairSpec == Spec /\ Fairness

-----------------------------------------------------------------------------
(* Properties *)

TypeOK ==
    /\ price \in Prices /\ stop \in Nat /\ vol \in 0..Volume
    /\ step \in Steps /\ tick \in Prices
    /\ pos \in [stop : Nat, vol : 1..Volume, profit : Int]
    /\ mem \in [peak : Nat, locked : BOOLEAN, floor : Nat, asked : BOOLEAN]
    /\ risk \in Nat \cup {Unknown} /\ scaled \in BOOLEAN /\ done \in BOOLEAN
    /\ seen \in Nat \cup {None} /\ restarts \in 0..MaxRestarts

\* From one snapshot to the next the stop only retreats if the operator moved it, or
\* inside the profit the break-even lock gives: no fault, lost answer, restart or
\* stale snapshot makes a position riskier than the last pass found it.
RiskNeverGrows ==
    [][Read => pos'.stop >= seen \/ pos'.stop > Open]_vars

\* A position that was a winner by the giveback's measure is not left in loss for
\* ever: it is closed, or comes back to its entry, unless a restart forgets the peak or
\* the engine holds it for closed.
RedWinnerEnds == []<>(vol = 0 \/ price >= Open \/ mem.peak < MinPeak \/ Dismissed)

\* PositionProtectionState: was_sl_modified says that the break-even stop is there.
\* With nobody touching the stop by hand, an open position with the flag has its stop
\* above the entry.  It fails: the partial de-risk to -0.45R sets the same flag.
LockMeansEven == mem.locked /\ vol > 0 => stop > Open
=============================================================================
