-------------------------- MODULE DecisionOutcomes --------------------------
(***************************************************************************)
(* What the experience ledger says became of each entry decision.  A       *)
(* decision row is queued before the gates; its outcome row is queued by    *)
(* whoever learns the end of it: a gate, the dispatcher, a cancelled or     *)
(* vanished pending order, the autopsy of a closed position, the missed-    *)
(* close loop after a restart, or the start-up recovery sweep, which runs   *)
(* in a thread of its own while the engine trades.  All rows go through     *)
(* one FIFO queue drained by one writer; a crash loses what is queued.      *)
(*                                                                         *)
(* A decision, its request id and its order's broker ticket are one value.  *)
(* Left out: failed broker queries and the two reads of a view repair (see  *)
(* OrderLifecycle), spilled rows and flush timeouts (AuditWritePlane), the  *)
(* hedge path, the TTL and size limit of the staged contexts, the age of    *)
(* the deals the missed-close loop asks for (OrderLifecycle again), and the *)
(* timestamps the causality checks compare.                                 *)
(***************************************************************************)
EXTENDS Naturals, Sequences, FiniteSets

CONSTANTS
    Decision,      \* entry decisions
    Nobody,        \* the empty request id or execution id
    MaxExposure,   \* MAX_TOTAL_EXPOSURE
    SweepLimit,    \* max_decisions: how many orphans a sweep scans
    MaxRestarts,   \* bound: engine restarts explored
    Faults         \* partial: partial fills and partial closes happen;
                   \* reply: an order is placed and the adapter answers ticket 0

ASSUME ConstantsAssumption ==
    /\ IsFiniteSet(Decision) /\ Nobody \notin Decision
    /\ MaxExposure \in Nat \ {0} /\ SweepLimit \in Nat \ {0}
    /\ MaxRestarts \in Nat
    /\ Faults \subseteq {"partial", "reply"}

VARIABLES
    order,        \* broker: none, pending, partial, position, reduced, closed, gone
    cut,          \* broker: partly filled orders whose rest was cancelled
    view,         \* _live_tickets_cache: absent, PENDING, POSITION
    tracked,      \* _entry_timestamps: tickets seen open and not autopsied yet
    bound,        \* _entry_order_ids: the decision a ticket is attributed to
    stamp,        \* _pending_context_ts: when a decision was staged, 0 if it is not
    family,       \* _context_bound_tickets: tickets bound to a staged decision
    seen,         \* _reconcile_seen: tickets the missed-close loop has booked
    stage,        \* each decision: new, proposed, sent
    turn,         \* decision_timestamp: when a decision was proposed, 0 if it was not
    cand,         \* the decision in the gates
    step,         \* where the tick is
    snap,         \* the positions this pass works on
    calls,        \* outcome calls the tick thread is in
    queue,        \* the audit write queue
    experiences,  \* audit_experiences
    signals,      \* audit_signals rows of a gate rejection
    orders,       \* audit_orders rows with a ticket
    ledger,       \* audit_ledger: NONE, OPENED, CLOSED
    opener,       \* order_id of the OPENED row
    outcomes,     \* audit_experience_outcomes
    copy,         \* audit_broker_orders/deals: orders synced after they were over
    backlog,      \* orphans of before, that no sweep will ever classify
    sweepDue,     \* the start-up recovery sweep has not read its candidates
    orphans,      \* candidates the sweep has still to look at
    beyond,       \* history: orphans the last scan had no room for
    evident,      \* candidates with a gate rejection among the signals
    restarts      \* engine restarts so far

brokerVars == <<order, cut>>
engineVars == <<view, tracked, bound, stamp, family, seen>>
entryVars  == <<stage, turn, cand>>
passVars   == <<step, snap, calls>>
dbVars     == <<experiences, signals, orders, ledger, opener, outcomes>>
sweepVars  == <<copy, backlog, sweepDue, orphans, beyond, evident>>
vars == <<brokerVars, engineVars, entryVars, passVars, queue, dbVars, sweepVars, restarts>>

Fault(k) == k \in Faults

-----------------------------------------------------------------------------
(* Rows *)

Kinds == {"trade", "canceled", "expired", "rejected", "unsent"}

Outcome   == [d : Decision, kind : Kinds, exec : Decision \cup {Nobody}, by : {"live", "sweep"}]
NoOutcome == [kind |-> "none"]

\* An outcome of decision d; exec is the ticket it names, if any.
Ended(d, kind, exec, by) == [d |-> d, kind |-> kind, exec |-> exec, by |-> by]

\* What each table's writer queues.
OutcomeRow(o)   == [table |-> "outcomes", outcome |-> o]
Row(table, d)   == [table |-> table, d |-> d]
OpenedRow(t, d) == [table |-> "opened", d |-> t, by |-> d]

Rows == {OutcomeRow(o) : o \in Outcome}
        \cup {Row(table, d) : table \in {"experiences", "signals", "orders", "closed"},
                               d \in Decision}
        \cup {OpenedRow(t, d) : t \in Decision, d \in Decision \cup {Nobody}}

-----------------------------------------------------------------------------
(* The broker *)

PositionsOf(o) == {d \in Decision : o[d] \in {"partial", "position", "reduced"}}
PendingsOf(o)  == {d \in Decision : o[d] \in {"pending", "partial"}}
ClosingDeals   == {d \in Decision : order[d] \in {"reduced", "closed"}}

\* Cancelling what is still pending of the orders D: a partly filled order keeps
\* the position it has.
WithoutRest(D) == [d \in Decision |->
    IF d \in D /\ order[d] = "pending" THEN "gone"
    ELSE IF d \in D /\ order[d] = "partial" THEN "position" ELSE order[d]]
CutBy(D) == cut \cup {d \in D : order[d] = "partial"}

Moves == [none     |-> {}, gone |-> {}, closed |-> {},
          pending  |-> {"position", "gone"} \cup (IF Fault("partial") THEN {"partial"} ELSE {}),
          partial  |-> {"position"},
          position |-> {"closed"} \cup (IF Fault("partial") THEN {"reduced"} ELSE {}),
          reduced  |-> {"closed"}]

\* A fill, an expiry, a close: between any two steps of the engine.
BrokerMoves(d) ==
    /\ \E s \in Moves[order[d]] : order' = [order EXCEPT ![d] = s]
    /\ cut' \in {cut, CutBy({d})}
    /\ UNCHANGED <<engineVars, entryVars, passVars, queue, dbVars, sweepVars, restarts>>

-----------------------------------------------------------------------------
(* The tick thread: pending orders and the view of the broker *)

ViewOf(ps, os) == [d \in Decision |-> IF d \in os THEN "PENDING"
                                      ELSE IF d \in ps THEN "POSITION" ELSE "absent"]
Shown == {d \in Decision : view[d] # "absent"}

Init ==
    /\ order = [d \in Decision |-> "none"] /\ cut = {}
    /\ view = [d \in Decision |-> "absent"]
    /\ tracked = {} /\ bound = [d \in Decision |-> Nobody]
    /\ stamp = [d \in Decision |-> 0] /\ family = [d \in Decision |-> {}] /\ seen = {}
    /\ stage = [d \in Decision |-> "new"] /\ turn = [d \in Decision |-> 0] /\ cand = Nobody
    /\ step = "begin" /\ snap = {} /\ calls = {}
    /\ queue = <<>>
    /\ experiences = {} /\ signals = {} /\ orders = {}
    /\ ledger = [d \in Decision |-> "NONE"] /\ opener = [d \in Decision |-> Nobody]
    /\ outcomes = [d \in Decision |-> NoOutcome]
    /\ copy = {} /\ backlog \in 0..SweepLimit
    /\ sweepDue = FALSE /\ orphans = {} /\ beyond = {} /\ evident = {}
    /\ restarts = 0

\* The tick thread is at s, and in no outcome call.
At(s) == step = s /\ calls = {}

\* emit_terminal_for_pending: nothing for a ticket that is attributed to nobody.
EndOfPendings(T, kind) ==
    {Ended(bound[t], kind, t, "live") : t \in {u \in T : bound[u] # Nobody}}

\* refresh_live_tickets_cache on the broker's book o: the pending tickets that the
\* new view lacks have ended; the result is their outcome calls.
Vanished(o) ==
    EndOfPendings({d \in Decision : view[d] = "PENDING"} \ (PositionsOf(o) \cup PendingsOf(o)),
                  "expired")

\* Between two passes; an entry ends the tick, so it is decided once.
Idle == At("begin") \/ At("decide")

\* manage_pending_orders finds an order stale, or too old, and cancels it verified:
\* the broker has it no more, so its end is reported and the view refreshed.  An
\* order the view still shows as pending may have been listed before it filled.
CancelStale(d) ==
    /\ Idle
    /\ d \in PendingsOf(order) \/ view[d] = "PENDING"
    /\ order' = WithoutRest({d}) /\ cut' = CutBy({d})
    /\ \E kind \in {"expired", "canceled"} :
          calls' = EndOfPendings({d}, kind) \cup Vanished(order')
    /\ view' = ViewOf(PositionsOf(order'), PendingsOf(order'))
    /\ step' = "begin"
    /\ UNCHANGED <<tracked, bound, stamp, family, seen, entryVars, snap, queue, dbVars,
                   sweepVars, restarts>>

ReadPositions ==
    /\ Idle
    /\ snap' = PositionsOf(order)
    /\ step' = "view"
    /\ UNCHANGED <<brokerVars, engineVars, entryVars, calls, queue, dbVars, sweepVars, restarts>>

\* The view of this pass: the positions read before, the pending orders of now.
Rebuild ==
    /\ At("view")
    /\ view' = ViewOf(snap, PendingsOf(order))
    /\ step' = "compare"
    /\ UNCHANGED <<brokerVars, tracked, bound, stamp, family, seen, entryVars, snap,
                   calls, queue, dbVars, sweepVars, restarts>>

\* reconcile_pending_state: as many pending orders on both sides, or a refresh.
Compare ==
    /\ At("compare")
    /\ IF Cardinality({d \in Decision : view[d] = "PENDING"}) = Cardinality(PendingsOf(order))
       THEN UNCHANGED <<view, calls>>
       ELSE /\ view' = ViewOf(PositionsOf(order), PendingsOf(order))
            /\ calls' = Vanished(order)
    /\ step' = "missed"
    /\ UNCHANGED <<brokerVars, tracked, bound, stamp, family, seen, entryVars, snap,
                   queue, dbVars, sweepVars, restarts>>

-----------------------------------------------------------------------------
(* The tick thread: closed positions *)

\* Mutant of TradeOf: the ticket is cleaned up before its outcome is attributed.
TradeOfForgotten(t, d) == {}

\* _record_experience_outcome of ticket t, attributed to decision d.
TradeOf(t, d) == IF d = Nobody THEN {} ELSE {Ended(d, "trade", t, "live")}

\* Mutant of Booked: the lesson is taken and the ledger row is not written.
BookedNot(t) == queue

\* log_ledger_closed.
Booked(t) == Append(queue, Row("closed", t))

\* Mutant of Missed: the closing deals are not looked at.
MissedAny(t) == t \notin tracked \cup seen /\ ledger[t] = "OPENED"

\* A closing deal and an OPENED row, and the ticket neither tracked nor booked here.
Missed(t) ==
    /\ t \in ClosingDeals
    /\ t \notin tracked \cup seen /\ ledger[t] = "OPENED"

\* reconcile_missed_closes: such a ticket is booked, for the decision its row names.
BookMissed(t) ==
    /\ At("missed") /\ Missed(t)
    /\ bound' = [bound EXCEPT ![t] = IF opener[t] = Nobody THEN @ ELSE opener[t]]
    /\ queue' = Booked(t)
    /\ calls' = TradeOf(t, bound'[t])
    /\ seen' = seen \cup {t}
    /\ UNCHANGED <<brokerVars, view, tracked, stamp, family, entryVars, step, snap,
                   dbVars, sweepVars, restarts>>

\* The loop runs once a minute, and ends early when the history or a row fails.
EndMissed ==
    /\ At("missed")
    /\ step' = "settle"
    /\ UNCHANGED <<brokerVars, engineVars, entryVars, snap, calls, queue, dbVars,
                   sweepVars, restarts>>

\* prune_bound_context: a decision none of whose tickets is in the view v any more.
Pruned(d, v) == d # Nobody /\ \A t \in family[d] : v[t] = "absent"

\* _sweep_dead_tickets: the autopsy of a tracked ticket that is no position now.
Autopsy(t) ==
    /\ At("settle") /\ t \in tracked \ snap
    /\ queue' = Booked(t)
    /\ calls' = TradeOf(t, bound[t])
    /\ tracked' = tracked \ {t}
    /\ bound' = [bound EXCEPT ![t] = Nobody]
    /\ view' = [view EXCEPT ![t] = "absent"]
    /\ IF Pruned(bound[t], view')
       THEN /\ stamp' = [stamp EXCEPT ![bound[t]] = 0]
            /\ family' = [family EXCEPT ![bound[t]] = {}]
       ELSE UNCHANGED <<stamp, family>>
    /\ UNCHANGED <<brokerVars, seen, entryVars, step, snap, dbVars, sweepVars, restarts>>

Staged == {d \in Decision : stamp[d] # 0}

\* bind_pending_entry_context: the newest staged decision that has a ticket in the
\* view, else the newest staged one, else what the ticket had.
Source(t) ==
    LET open == {d \in Staged : family[d] \cap Shown # {}}
        newest(D) == {d \in D : \A e \in D : stamp[e] <= stamp[d]}
    IN  IF Staged = {} THEN {bound[t]}
        ELSE IF open # {} THEN newest(open) ELSE newest(Staged)

\* A position seen for the first time is tracked, attributed and opened.
Track(t) ==
    /\ At("settle") /\ tracked \subseteq snap /\ t \in snap \ tracked
    /\ tracked' = tracked \cup {t}
    /\ \E d \in Source(t) :
          /\ bound' = [bound EXCEPT ![t] = d]
          /\ family' = IF Staged = {} THEN family ELSE [family EXCEPT ![d] = @ \cup {t}]
          /\ queue' = Append(queue, OpenedRow(t, d))
    /\ UNCHANGED <<brokerVars, view, stamp, seen, entryVars, step, snap, calls, dbVars,
                   sweepVars, restarts>>

EndPass ==
    /\ At("settle") /\ tracked = snap
    /\ step' = "decide" /\ snap' = {}
    /\ UNCHANGED <<brokerVars, engineVars, entryVars, calls, queue, dbVars, sweepVars,
                   restarts>>

-----------------------------------------------------------------------------
(* The tick thread: the entry *)

\* Intelligence evaluates a proposal: its decision row is queued before any verdict.
Propose(d) ==
    /\ At("decide") /\ stage[d] = "new"
    /\ stage' = [stage EXCEPT ![d] = "proposed"] /\ cand' = d
    /\ turn' = [turn EXCEPT ![d] = Cardinality({e \in Decision : stage[e] # "new"}) + 1]
    /\ queue' = Append(queue, Row("experiences", d))
    /\ step' = "gate"
    /\ UNCHANGED <<brokerVars, engineVars, snap, calls, dbVars, sweepVars, restarts>>

\* Mutant of Unsent: no terminal outcome of a decision that is not sent (BUG-169).
UnsentUnsaid(d) == {}

\* NOT_DISPATCHED.
Unsent(d) == {Ended(d, "unsent", Nobody, "live")}

\* An intelligence gate turns the entry into NO_TRADE: its signal row is queued, and
\* the terminal outcome.
GateRejects ==
    /\ At("gate")
    /\ queue' = Append(queue, Row("signals", cand))
    /\ calls' = Unsent(cand)
    /\ step' = "begin" /\ cand' = Nobody
    /\ UNCHANGED <<brokerVars, engineVars, stage, turn, snap, dbVars, sweepVars, restarts>>

\* The freshness gate or the risk engine refuses the entry: nothing is recorded.
RefusedInSilence ==
    /\ At("gate")
    /\ step' = "begin" /\ cand' = Nobody
    /\ UNCHANGED <<brokerVars, engineVars, stage, turn, snap, calls, queue, dbVars, sweepVars,
                   restarts>>

\* dispatch_order returns; the AI reversal calls it a second time.
Return ==
    \/ step = "gate" /\ step' = "again" /\ UNCHANGED cand
    \/ step' = "begin" /\ cand' = Nobody

\* dispatch_order refuses before the broker: halt, SAFE_MODE, maintenance window,
\* exposure, zero volume.  The first three come before the guard on duplicates.
RefuseDispatch ==
    /\ At("gate") \/ At("again")
    /\ calls' = Unsent(cand)
    /\ Return
    /\ UNCHANGED <<brokerVars, engineVars, stage, turn, snap, queue, dbVars, sweepVars, restarts>>

\* The guard on duplicates.
BlockDuplicate ==
    /\ At("again") /\ stage[cand] = "sent"
    /\ step' = "begin" /\ cand' = Nobody
    /\ UNCHANGED <<brokerVars, engineVars, stage, turn, snap, calls, queue, dbVars, sweepVars,
                   restarts>>

\* Mutant of Passes: the primary path has no guard on duplicates.
PassesTwice ==
    /\ At("gate") \/ At("again")
    /\ Cardinality(Shown) < MaxExposure

\* The gates of dispatch_order let the decision through.
Passes ==
    /\ At("gate") \/ At("again")
    /\ stage[cand] = "proposed"
    /\ Cardinality(Shown) < MaxExposure

\* The context is staged, the order requested on the book o, and its answer handled.
Send(o, placed) ==
    /\ Passes
    /\ stage' = [stage EXCEPT ![cand] = "sent"]
    /\ stamp' = [stamp EXCEPT ![cand] = Cardinality({d \in Decision : stage[d] = "sent"}) + 1]
    /\ \/ /\ order' = [o EXCEPT ![cand] = placed]
          /\ queue' = Append(queue, Row("orders", cand))
          /\ UNCHANGED calls
       \/ /\ \/ order' = o
             \/ Fault("reply") /\ order' = [o EXCEPT ![cand] = placed]
          /\ calls' = {Ended(cand, "rejected", Nobody, "live")}
          /\ UNCHANGED queue
    /\ Return
    /\ UNCHANGED <<view, tracked, bound, family, seen, turn, snap, dbVars, sweepVars, restarts>>

SendMarket == Send(order, "position") /\ UNCHANGED cut

\* place_pending_order first cancels the pending orders it finds.
SendPending == Send(WithoutRest(PendingsOf(order)), "pending")
               /\ cut' = CutBy(PendingsOf(order))

-----------------------------------------------------------------------------
(* Recording an outcome *)

\* owner_of_execution: another decision's outcome names the ticket.
Owned(c) ==
    \E e \in Decision \ {c.d} : outcomes[e] # NoOutcome /\ outcomes[e].exec = c.exec

\* What record_terminal_outcome and record_trade_outcome require: a decision row, no
\* outcome of the decision and, for a trade, none of its ticket.
Accepted(c) ==
    /\ c.d \in experiences
    /\ outcomes[c.d] = NoOutcome
    /\ c.kind = "trade" => ~Owned(c)

\* An outcome call ends.  While the decision row is not readable the call waits for
\* the queue to drain; then the outcome is queued, or refused.
Record(c) ==
    /\ c \in calls
    /\ c.d \in experiences \/ queue = <<>>
    /\ IF Accepted(c) THEN queue' = Append(queue, OutcomeRow(c)) ELSE UNCHANGED queue
    /\ calls' = calls \ {c}
    /\ UNCHANGED <<brokerVars, engineVars, entryVars, step, snap, dbVars, sweepVars,
                   restarts>>

\* Mutant of Stored: the outcome insert replaces what is there.
StoredOver(r) ==
    IF r.table = "outcomes" THEN [outcomes EXCEPT ![r.outcome.d] = r.outcome] ELSE outcomes

\* INSERT ... ON CONFLICT(idempotency_key) DO NOTHING.
Stored(r) ==
    IF r.table = "outcomes" /\ outcomes[r.outcome.d] = NoOutcome
    THEN [outcomes EXCEPT ![r.outcome.d] = r.outcome] ELSE outcomes

\* The writer commits the row at the head of the queue.
Drain ==
    /\ queue # <<>>
    /\ LET r == Head(queue)
           opens == r.table = "opened" /\ ledger[r.d] = "NONE"
       IN  /\ experiences' = experiences \cup (IF r.table = "experiences" THEN {r.d} ELSE {})
           /\ signals' = signals \cup (IF r.table = "signals" THEN {r.d} ELSE {})
           /\ orders' = orders \cup (IF r.table = "orders" THEN {r.d} ELSE {})
           /\ ledger' = IF opens THEN [ledger EXCEPT ![r.d] = "OPENED"]
                        ELSE IF r.table = "closed" THEN [ledger EXCEPT ![r.d] = "CLOSED"]
                        ELSE ledger
           /\ opener' = IF opens THEN [opener EXCEPT ![r.d] = r.by] ELSE opener
           /\ outcomes' = Stored(r)
    /\ queue' = Tail(queue)
    /\ UNCHANGED <<brokerVars, engineVars, entryVars, passVars, sweepVars, restarts>>

-----------------------------------------------------------------------------
(* The start-up recovery sweep, in a thread of its own *)

Sweeping == sweepDue \/ orphans # {}

Over == {d \in Decision : order[d] \in {"closed", "gone"}}

\* BrokerHistorySyncWorker.  Only the sweep reads the copy, so a sync at another
\* time is one that happens while the sweep is due.
Sync ==
    /\ Sweeping /\ copy # Over
    /\ copy' = Over
    /\ UNCHANGED <<brokerVars, engineVars, entryVars, passVars, queue, dbVars, backlog,
                   sweepDue, orphans, beyond, evident, restarts>>

Missing == {d \in experiences : outcomes[d] = NoOutcome}
NotAfter(d) == {e \in Missing : turn[e] <= turn[d]}

\* Mutant of Scanned: one row less than the limit.
ScannedLess == {d \in Missing : backlog + Cardinality(NotAfter(d)) < SweepLimit}

\* The oldest orphans, as many as the limit says; those of the backlog come first.
Scanned == {d \in Missing : backlog + Cardinality(NotAfter(d)) <= SweepLimit}

\* _missing_outcome_decisions, with the evidence found for each.
SweepStart ==
    /\ sweepDue
    /\ sweepDue' = FALSE
    /\ orphans' = Scanned /\ beyond' = Missing \ Scanned
    /\ evident' = signals \cap orphans'
    /\ UNCHANGED <<brokerVars, engineVars, entryVars, passVars, queue, dbVars, copy, backlog,
                   restarts>>

Found(d, kind) == OutcomeRow(Ended(d, kind, IF kind = "trade" THEN d ELSE Nobody, "sweep"))

\* Mutant of Evidence: a cancelled order is unfilled, whatever position it left.
EvidenceOfCancel(d) ==
    IF d \notin orders THEN IF d \in evident THEN {"unsent"} ELSE {}
    ELSE IF d \in cut THEN {"canceled"}
    ELSE IF d \notin copy THEN {}
    ELSE IF order[d] = "closed" THEN {"trade"} ELSE {"canceled", "expired"}

\* _recover_one: without a dispatch row, a gate rejection or nothing; with one, a
\* trade whose closing volume balances or an order that never filled, and nothing of
\* an order that was not over when it was synced.
Evidence(d) ==
    IF d \notin orders THEN IF d \in evident THEN {"unsent"} ELSE {}
    ELSE IF d \notin copy THEN {}
    ELSE IF order[d] = "closed" THEN {"trade"} ELSE {"canceled", "expired"}

\* A non-trade outcome goes through record_terminal_outcome and its check, a trade
\* straight to record_outcome.
SweepOne(d) ==
    /\ ~sweepDue /\ d \in orphans
    /\ orphans' = orphans \ {d}
    /\ \/ /\ \E kind \in Evidence(d) :
                /\ kind = "trade" \/ outcomes[d] = NoOutcome
                /\ queue' = Append(queue, Found(d, kind))
       \/ /\ \A kind \in Evidence(d) : kind # "trade" /\ outcomes[d] # NoOutcome
          /\ UNCHANGED queue
    /\ UNCHANGED <<brokerVars, engineVars, entryVars, passVars, dbVars, copy, backlog,
                   sweepDue, beyond, evident, restarts>>

-----------------------------------------------------------------------------
\* The process ends, cleanly if its queue is empty, and a new one starts: the memory
\* and the queue are gone, the view is rebuilt if the broker has pending orders.
Restart ==
    /\ restarts < MaxRestarts
    /\ restarts' = restarts + 1
    /\ view' = IF PendingsOf(order) = {} THEN [d \in Decision |-> "absent"]
               ELSE ViewOf(PositionsOf(order), PendingsOf(order))
    /\ tracked' = {} /\ bound' = [d \in Decision |-> Nobody]
    /\ stamp' = [d \in Decision |-> 0] /\ family' = [d \in Decision |-> {}] /\ seen' = {}
    /\ cand' = Nobody
    /\ step' = "begin" /\ snap' = {} /\ calls' = {}
    /\ queue' = <<>>
    /\ sweepDue' = TRUE /\ orphans' = {} /\ beyond' = {} /\ evident' = {}
    /\ UNCHANGED <<brokerVars, stage, turn, dbVars, copy, backlog>>

Tick ==
    \/ ReadPositions \/ Rebuild \/ Compare
    \/ \E t \in Decision : CancelStale(t) \/ BookMissed(t) \/ Autopsy(t) \/ Track(t)
    \/ EndMissed \/ EndPass
    \/ \E d \in Decision : Propose(d)
    \/ GateRejects \/ RefusedInSilence \/ RefuseDispatch \/ BlockDuplicate
    \/ SendMarket \/ SendPending
    \/ \E c \in calls : Record(c)

Sweep == SweepStart \/ \E d \in Decision : SweepOne(d)

Next == (\E d \in Decision : BrokerMoves(d)) \/ Tick \/ Drain \/ Sync \/ Sweep \/ Restart

Spec == Init /\ [][Next]_vars

\* Ticks keep coming, the writer and the sweep's thread keep running.
Fairness == WF_vars(Tick) /\ WF_vars(Drain) /\ WF_vars(Sweep)

FairSpec == Spec /\ Fairness

-----------------------------------------------------------------------------
(* Properties *)

\* Types; no more registrations than decisions: each is dispatched once (the guard on
\* duplicates).
TypeOK ==
    /\ order \in [Decision -> {"none", "pending", "partial", "position", "reduced", "closed",
                               "gone"}]
    /\ cut \subseteq Decision
    /\ view \in [Decision -> {"absent", "PENDING", "POSITION"}]
    /\ tracked \subseteq Decision /\ seen \subseteq Decision
    /\ bound \in [Decision -> Decision \cup {Nobody}]
    /\ stamp \in [Decision -> 0..Cardinality(Decision)]
    /\ family \in [Decision -> SUBSET Decision]
    /\ stage \in [Decision -> {"new", "proposed", "sent"}]
    /\ turn \in [Decision -> 0..Cardinality(Decision)] /\ cand \in Decision \cup {Nobody}
    /\ step \in {"begin", "view", "compare", "missed", "settle", "decide", "gate", "again"}
    /\ snap \subseteq Decision /\ calls \subseteq Outcome
    /\ queue \in Seq(Rows)
    /\ experiences \subseteq Decision /\ signals \subseteq Decision /\ orders \subseteq Decision
    /\ ledger \in [Decision -> {"NONE", "OPENED", "CLOSED"}]
    /\ opener \in [Decision -> Decision \cup {Nobody}]
    /\ outcomes \in [Decision -> Outcome \cup {NoOutcome}]
    /\ copy \subseteq Decision /\ backlog \in 0..SweepLimit /\ sweepDue \in BOOLEAN
    /\ orphans \subseteq Decision /\ beyond \subseteq Decision /\ evident \subseteq Decision
    /\ restarts \in 0..MaxRestarts

\* A trade outcome written by the live engine names a ticket the broker has closing
\* deals for: no open position is learned from as a finished trade.
LiveTradesClosing ==
    \A d \in Decision :
        outcomes[d] # NoOutcome /\ outcomes[d].kind = "trade" /\ outcomes[d].by = "live"
            => outcomes[d].exec \in ClosingDeals

\* The autopsy comes first: a trade the live engine has learned from is booked as
\* closed in the ledger, so no crash leaves a lesson without its account.
BookedBeforeLearned ==
    \A d \in Decision :
        outcomes[d] # NoOutcome /\ outcomes[d].kind = "trade" /\ outcomes[d].by = "live"
            => ledger[outcomes[d].exec] = "CLOSED"

\* What the recovery sweep writes of a decision is what became of it: a trade is of
\* its own ticket and over, an unfilled order never filled, an unsent one was never sent.
SweepTellsTheTruth ==
    \A d \in Decision : outcomes[d] # NoOutcome /\ outcomes[d].by = "sweep" =>
        order[d] = CASE outcomes[d].kind = "trade" -> "closed"
                     [] outcomes[d].kind \in {"canceled", "expired"} -> "gone"
                     [] OTHER -> "none"

\* The first outcome of a decision stands, though two threads may both have found
\* none before they queued theirs.
FirstOutcomeStands ==
    [][\A d \in Decision : outcomes[d] # NoOutcome => outcomes'[d] = outcomes[d]]_vars

\* A decision a gate rejected gets its outcome, from the gate or from a start-up
\* sweep when a crash took it (BUG-169, BUG-174), unless older orphans fill the scan.
RefusedIsClassified ==
    \A d \in Decision : (d \in signals) ~> (outcomes[d] # NoOutcome \/ d \in beyond)

\* A sent decision whose order is over in the synced history when a start-up sweep
\* is due gets its outcome, if fewer orphans than the limit are older.
RecoveredAtStartup ==
    \A d \in Decision :
        (/\ sweepDue /\ d \in experiences \cap orders \cap copy
         /\ backlog + Cardinality({e \in Missing : turn[e] < turn[d]}) < SweepLimit)
            ~> (outcomes[d] # NoOutcome)

\* In a process that is not restarted, the close of a tracked, attributed ticket is
\* learned: its decision gets an outcome, or another one has claimed the ticket.
ClosedIsLearned ==
    \A t, d \in Decision :
        (restarts = MaxRestarts /\ t \in tracked /\ bound[t] = d /\ order[t] = "closed")
            ~> (\/ outcomes[d] # NoOutcome
                \/ \E e \in Decision : outcomes[e] # NoOutcome /\ outcomes[e].exec = t)
=============================================================================
