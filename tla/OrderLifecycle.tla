--------------------------- MODULE OrderLifecycle ---------------------------
(***************************************************************************)
(* The engine's view of its orders against the broker's: one management    *)
(* pass per tick (OrderManager.manage_active_positions), then at most one   *)
(* entry (DispatchRouter.dispatch_order), while the broker fills, closes    *)
(* and expires orders between any two of the engine's calls.  A decision   *)
(* and the broker ticket its order gets are one value.                     *)
(*                                                                         *)
(* Left to the audit plane's module: how a ledger row reaches the disk.    *)
(* Left out: protective stop moves, entry context and experience outcomes. *)
(***************************************************************************)
EXTENDS Naturals, FiniteSets

CONSTANTS
    Decision,      \* entry decisions; each is also its order's ticket
    MaxExposure,   \* MAX_TOTAL_EXPOSURE
    FailureLimit,  \* consecutive refusals that open the SAFE_MODE circuit
    MaxRestarts,   \* bound: engine restarts explored
    Faults         \* which environment faults may happen

\* positions: positions_get answers None, read as "no positions"
\* pendings:  orders_get fails
\* cancel:    a cancel request is refused by the broker
\* reply:     an order is placed and the adapter reports ticket 0
\* history:   the deal history is unavailable or not there yet
\* partial:   a position is partly closed
FaultKinds == {"positions", "pendings", "cancel", "reply", "history", "partial"}

ASSUME ConstantsAssumption ==
    /\ IsFiniteSet(Decision)
    /\ MaxExposure \in Nat \ {0}
    /\ FailureLimit \in Nat \ {0}
    /\ MaxRestarts \in Nat
    /\ Faults \subseteq FaultKinds

VARIABLES
    order,      \* broker: none, pending, position, closed, gone (never filled)
    reduced,    \* broker: tickets with a closing deal for part of their volume
    aged,       \* broker: tickets whose closing deals are all older than hours_back
    view,       \* _live_tickets_cache: absent, PENDING, POSITION
    tracked,    \* _entry_timestamps: tickets seen open and not autopsied yet
    ledger,     \* audit_ledger row of each ticket: NONE, OPENED, CLOSED
    processed,  \* _processed_orders: decisions that were sent
    failures,   \* _consecutive_failures
    safe,       \* global_state = SAFE_MODE
    step,       \* where the tick is
    listed,     \* pending orders manage_pending_orders still has to look at
    snap,       \* the positions this pass works on
    reread,     \* the positions the repair of the view works on
    due,        \* 60 s since the last deal-history reconciliation
    restarts    \* engine restarts so far

brokerVars == <<order, reduced, aged>>
passVars   == <<step, listed, snap, reread>>
entryVars  == <<processed, failures, safe>>
vars == <<brokerVars, view, tracked, ledger, passVars, entryVars, due, restarts>>

Fault(k) == k \in Faults

-----------------------------------------------------------------------------
(* What the broker holds, and what the adapter says of it *)

Positions == {d \in Decision : order[d] = "position"}
Pendings  == {d \in Decision : order[d] = "pending"}
Live      == Positions \cup Pendings

Dealt == {d \in Decision : order[d] = "closed"} \cup reduced

\* Tickets with a DEAL_ENTRY_OUT deal in the 24 hours of history that are asked for.
ClosingDeals == Dealt \ aged

\* get_positions: a failed query reads as no positions.
PositionAnswers == {Positions} \cup (IF Fault("positions") THEN {{}} ELSE {})

\* A pending list a failed query has emptied.
PendingAnswers == {Pendings} \cup (IF Fault("pendings") THEN {{}} ELSE {})

\* Mutant of ViewOf: a pending ticket of the old view is never dropped.
ViewOfKeeping(ps, os) ==
    [d \in Decision |-> IF d \in os \/ view[d] = "PENDING" THEN "PENDING"
                        ELSE IF d \in ps THEN "POSITION" ELSE "absent"]

\* The cache built from positions ps and pending orders os; a ticket in both is
\* overwritten by its pending entry.
ViewOf(ps, os) ==
    [d \in Decision |-> IF d \in os THEN "PENDING"
                        ELSE IF d \in ps THEN "POSITION" ELSE "absent"]

\* Mutant of Exposed: positions held elsewhere are not counted (BUG-240).
ExposedInPart == {d \in Decision : view[d] = "PENDING"}

\* count_total_exposure: positions and pendings in the cache.
Exposed == {d \in Decision : view[d] # "absent"}

Absent == [d \in Decision |-> "absent"]

Init ==
    /\ order = [d \in Decision |-> "none"] /\ reduced = {} /\ aged = {}
    /\ view = Absent /\ tracked = {}
    /\ ledger = [d \in Decision |-> "NONE"]
    /\ processed = {} /\ failures = 0 /\ safe = FALSE
    /\ step = "list" /\ listed = {} /\ snap = {} /\ reread = {}
    /\ due = TRUE /\ restarts = 0

-----------------------------------------------------------------------------
(* The broker moves on its own between any two calls of the engine *)

Fill(d) ==
    /\ order[d] = "pending"
    /\ order' = [order EXCEPT ![d] = "position"]
    /\ UNCHANGED <<reduced, aged, view, tracked, ledger, passVars, entryVars, due, restarts>>

\* A stop, a target, the trader's terminal, or a close the engine requested.
Close(d) ==
    /\ order[d] = "position"
    /\ order' = [order EXCEPT ![d] = "closed"]
    /\ aged' = aged \ {d}
    /\ UNCHANGED <<reduced, view, tracked, ledger, passVars, entryVars, due, restarts>>

\* Part of the volume is closed (PARTIAL_CLOSE at the first target).
PartialClose(d) ==
    /\ Fault("partial") /\ order[d] = "position" /\ d \notin reduced
    /\ reduced' = reduced \cup {d}
    /\ UNCHANGED <<order, aged, view, tracked, ledger, passVars, entryVars, due, restarts>>

\* An expiry, or a removal from the trader's terminal.
Expire(d) ==
    /\ order[d] = "pending"
    /\ order' = [order EXCEPT ![d] = "gone"]
    /\ UNCHANGED <<reduced, aged, view, tracked, ledger, passVars, entryVars, due, restarts>>

\* close_position_manual, on a web thread: the slot is freed at once.
ManualClose(d) ==
    /\ order[d] = "position"
    /\ order' = [order EXCEPT ![d] = "closed"]
    /\ view' = [view EXCEPT ![d] = "absent"]
    /\ aged' = aged \ {d}
    /\ UNCHANGED <<reduced, tracked, ledger, passVars, entryVars, due, restarts>>

-----------------------------------------------------------------------------
(* The management pass *)

\* manage_pending_orders lists the pending orders; no list, no work.
ListPendings ==
    /\ step = "list"
    /\ listed' \in PendingAnswers
    /\ step' = "manage"
    /\ UNCHANGED <<brokerVars, view, tracked, ledger, snap, reread, entryVars, due, restarts>>

\* cancel_pending_order_verified: request, then ask the broker.  The slot is
\* released, through a refresh of the view, only when the order is pending no more.
CancelVerified(d) ==
    /\ \/ order[d] = "pending" /\ order' = [order EXCEPT ![d] = "gone"]
       \/ /\ order[d] # "pending" \/ Fault("cancel")
          /\ UNCHANGED order
    /\ IF order'[d] = "pending"
       THEN UNCHANGED view
       ELSE view' \in {ViewOf(ps, os) : ps \in PositionAnswers, os \in PendingAnswers'}

\* A listed order past its 30 s lock that has drifted too far, or is too old.
CancelStale(d) ==
    /\ step = "manage" /\ d \in listed
    /\ CancelVerified(d)
    /\ listed' = listed \ {d}
    /\ UNCHANGED <<reduced, aged, tracked, ledger, step, snap, reread, entryVars, due, restarts>>

\* The other listed orders are kept; get_positions opens the pass.
ReadPositions ==
    /\ step = "manage"
    /\ snap' \in PositionAnswers
    /\ step' = "rebuild" /\ listed' = {}
    /\ UNCHANGED <<brokerVars, view, tracked, ledger, reread, entryVars, due, restarts>>

\* evaluate_falling_knife_protection: an opposite limit of a winning position.
FallingKnife(d) ==
    /\ step = "rebuild" /\ snap # {} /\ order[d] = "pending"
    /\ CancelVerified(d)
    /\ UNCHANGED <<reduced, aged, tracked, ledger, passVars, entryVars, due, restarts>>

\* TicketsCache.rebuild: the positions read before, the pending orders read now.
Rebuild ==
    /\ step = "rebuild"
    /\ \E os \in PendingAnswers : view' = ViewOf(snap, os)
    /\ step' = "reconcile"
    /\ UNCHANGED <<brokerVars, tracked, ledger, listed, snap, reread, entryVars, due, restarts>>

\* reconcile_pending_state compares how many pending orders each side has, and
\* starts a repair when the numbers differ.  A failed query compares nothing.
Reconcile ==
    /\ step = "reconcile"
    /\ IF Cardinality({d \in Decision : view[d] = "PENDING"}) # Cardinality(Pendings)
       THEN \/ step' = "repair" /\ reread' \in PositionAnswers
            \/ Fault("pendings") /\ step' = "missed" /\ UNCHANGED reread
       ELSE step' = "missed" /\ UNCHANGED reread
    /\ UNCHANGED <<brokerVars, view, tracked, ledger, listed, snap, entryVars, due, restarts>>

\* refresh_live_tickets_cache: again positions first, pending orders second.
Repair ==
    /\ step = "repair"
    /\ \E os \in PendingAnswers : view' = ViewOf(reread, os)
    /\ step' = "missed" /\ reread' = {}
    /\ UNCHANGED <<brokerVars, tracked, ledger, listed, snap, entryVars, due, restarts>>

\* Mutant of MissedCloses: tracked tickets are not skipped.
MissedClosesTracked ==
    /\ step = "missed"
    /\ \/ /\ due
          /\ ledger' = [d \in Decision |->
                IF d \in ClosingDeals /\ ledger[d] = "OPENED" THEN "CLOSED" ELSE ledger[d]]
       \/ /\ ~due \/ Fault("history")
          /\ UNCHANGED ledger
    /\ due' = FALSE
    /\ step' = "sweep"
    /\ UNCHANGED <<brokerVars, view, tracked, listed, snap, reread, entryVars, restarts>>

\* reconcile_missed_closes: every ticket with a closing deal and an OPENED row
\* that is not tracked is recorded as closed; it asks for 24 hours of deals.
MissedCloses ==
    /\ step = "missed"
    /\ \/ /\ due
          /\ ledger' = [d \in Decision |->
                IF d \in ClosingDeals \ tracked /\ ledger[d] = "OPENED" THEN "CLOSED"
                                                                        ELSE ledger[d]]
       \/ /\ ~due \/ Fault("history")
          /\ UNCHANGED ledger
    /\ due' = FALSE
    /\ step' = "sweep"
    /\ UNCHANGED <<brokerVars, view, tracked, listed, snap, reread, entryVars, restarts>>

Dead == tracked \ snap

\* Mutant of Sweep: it runs after the early return of a pass without positions.
SweepAfterReturn ==
    /\ step = "sweep"
    /\ IF snap = {} THEN UNCHANGED <<ledger, tracked, view>>
       ELSE /\ ledger' = [d \in Decision |-> IF d \in Dead THEN "CLOSED" ELSE ledger[d]]
            /\ tracked' = tracked \ Dead
            /\ view' = [d \in Decision |-> IF d \in Dead THEN "absent" ELSE view[d]]
    /\ step' = "track"
    /\ UNCHANGED <<brokerVars, listed, snap, reread, entryVars, due, restarts>>

\* _sweep_dead_tickets: a tracked ticket missing from this pass's positions is
\* autopsied, with the broker's deal or a price estimate, and forgotten.
Sweep ==
    /\ step = "sweep"
    /\ ledger' = [d \in Decision |-> IF d \in Dead THEN "CLOSED" ELSE ledger[d]]
    /\ tracked' = tracked \ Dead
    /\ view' = [d \in Decision |-> IF d \in Dead THEN "absent" ELSE view[d]]
    /\ step' = "track"
    /\ UNCHANGED <<brokerVars, listed, snap, reread, entryVars, due, restarts>>

\* The per-position loop: a new ticket is tracked and its OPENED row written.
Track ==
    /\ step = "track"
    /\ tracked' = tracked \cup snap
    /\ ledger' = [d \in Decision |->
          IF d \in snap \ tracked /\ ledger[d] = "NONE" THEN "OPENED" ELSE ledger[d]]
    /\ step' = "decide"
    /\ UNCHANGED <<brokerVars, view, listed, snap, reread, entryVars, due, restarts>>

CadenceElapses ==
    /\ ~due
    /\ due' = TRUE
    /\ UNCHANGED <<brokerVars, view, tracked, ledger, passVars, entryVars, restarts>>

-----------------------------------------------------------------------------
(* The entry *)

\* The policy proposes nothing, or dispatch_order turns the decision away: kill
\* switch, SAFE_MODE, maintenance window, duplicate, exposure, zero volume.
NoEntry ==
    /\ step = "decide"
    /\ step' = "list" /\ snap' = {}
    /\ UNCHANGED <<brokerVars, view, tracked, ledger, listed, reread, entryVars, due, restarts>>

\* Mutant of Passes: dispatch_order does not read SAFE_MODE (BUG-241).
PassesInSafeMode(d) ==
    /\ step = "decide"
    /\ d \notin processed /\ order[d] = "none"
    /\ Cardinality(Exposed) < MaxExposure

\* Mutant of Passes: the exposure bound is off by one.
PassesOffByOne(d) ==
    /\ step = "decide" /\ ~safe
    /\ d \notin processed /\ order[d] = "none"
    /\ Cardinality(Exposed) <= MaxExposure

\* The gates of dispatch_order.  Request ids are new in every process.
Passes(d) ==
    /\ step = "decide" /\ ~safe
    /\ d \notin processed /\ order[d] = "none"
    /\ Cardinality(Exposed) < MaxExposure

\* The broker's answer to one order request, on a book of orders o.
Answer(d, o, placed) ==
    /\ \/ order' = [o EXCEPT ![d] = placed] /\ failures' = 0 /\ UNCHANGED safe
       \/ /\ \/ order' = o
             \/ Fault("reply") /\ order' = [o EXCEPT ![d] = placed]
          /\ failures' = failures + 1
          /\ safe' = (failures + 1 >= FailureLimit)
    /\ processed' = processed \cup {d}
    /\ step' = "list" /\ snap' = {}
    /\ UNCHANGED <<reduced, aged, view, tracked, ledger, listed, reread, due, restarts>>

SendMarket(d) == Passes(d) /\ Answer(d, order, "position")

\* place_pending_order first cancels the pending orders it finds.
SendPending(d) ==
    /\ Passes(d)
    /\ \E K \in SUBSET Pendings :
          /\ K = {} \/ Fault("cancel") \/ Fault("pendings")
          /\ Answer(d, [e \in Decision |-> IF e \in Pendings \ K THEN "gone" ELSE order[e]],
                    "pending")

-----------------------------------------------------------------------------
\* The engine's memory is gone, the broker and the ledger are not, and the engine
\* may have been down for longer than the deal history reaches back.  Start-up
\* reconciliation repairs the empty view when the broker lists pending orders.
Restart ==
    /\ restarts < MaxRestarts
    /\ restarts' = restarts + 1
    /\ \/ (Pendings = {} \/ Fault("pendings")) /\ view' = Absent
       \/ /\ Pendings # {}
          /\ view' \in {ViewOf(ps, os) : ps \in PositionAnswers, os \in PendingAnswers}
    /\ tracked' = {}
    /\ processed' = {} /\ failures' = 0 /\ safe' = FALSE
    /\ step' = "list" /\ listed' = {} /\ snap' = {} /\ reread' = {}
    /\ due' = TRUE
    /\ \E A \in SUBSET Dealt : aged' = aged \cup A
    /\ UNCHANGED <<order, reduced, ledger>>

Broker == \E d \in Decision :
    Fill(d) \/ Close(d) \/ PartialClose(d) \/ Expire(d) \/ ManualClose(d)

\* Steps a tick cannot avoid.
Pass ==
    \/ ListPendings \/ ReadPositions \/ Rebuild \/ Reconcile \/ Repair
    \/ MissedCloses \/ Sweep \/ Track \/ NoEntry

Choice == \E d \in Decision :
    CancelStale(d) \/ FallingKnife(d) \/ SendMarket(d) \/ SendPending(d)

Next == Broker \/ Pass \/ Choice \/ CadenceElapses \/ Restart

Spec == Init /\ [][Next]_vars

\* Ticks keep coming and the clock advances.
Fairness == WF_vars(Pass) /\ WF_vars(CadenceElapses)

FairSpec == Spec /\ Fairness

-----------------------------------------------------------------------------
(* Properties *)

\* Types; the refusal counter never passes the limit that opens the circuit.
TypeOK ==
    /\ order \in [Decision -> {"none", "pending", "position", "closed", "gone"}]
    /\ reduced \subseteq Decision /\ aged \subseteq Decision
    /\ view \in [Decision -> {"absent", "PENDING", "POSITION"}]
    /\ tracked \subseteq Decision
    /\ ledger \in [Decision -> {"NONE", "OPENED", "CLOSED"}]
    /\ processed \subseteq Decision
    /\ failures \in 0..FailureLimit /\ safe \in BOOLEAN
    /\ step \in {"list", "manage", "rebuild", "reconcile", "repair", "missed", "sweep",
                 "track", "decide"}
    /\ listed \subseteq Decision /\ snap \subseteq Decision /\ reread \subseteq Decision
    /\ due \in BOOLEAN /\ restarts \in 0..MaxRestarts

\* A ledger row says CLOSED only of a position the broker has closed: neither the
\* vanished-ticket sweep nor the missed-close loop books a trade that still runs.
ClosedMeansClosed == \A d \in Decision : ledger[d] = "CLOSED" => order[d] = "closed"

\* The contract of _is_exposure_available: one position or one pending order
\* across the entire engine.
AtMostMaxExposure == Cardinality(Live) <= MaxExposure

\* What holds of the code, with its limit of one, while its broker queries answer:
\* an order that fills between the two reads of one rebuild is missed, and only one
\* order can be; the broker never holds more than one order beyond the limit.
OvershootByOne == Cardinality(Live) <= MaxExposure + 1

\* No entry is sent to the broker while the engine manages as many open
\* positions as it may hold: what the view misses was never tracked.
EntersBesideManaged ==
    /\ \E e \in Decision : order[e] = "none" /\ order'[e] # "none"
    /\ Cardinality(tracked \cap Positions) >= MaxExposure
NeverBesideManaged == [][~EntersBesideManaged]_vars

\* The slot of an order the broker no longer holds is freed: a stale entry of the
\* view does not block entries for ever (BUG-072).
SlotFreed == (Live = {}) ~> (Exposed = {} \/ Live # {})

\* Every trade the ledger opened and the broker closed is recorded as closed,
\* by the sweep or, after a restart, by the missed-close loop (BUG-045), unless
\* the engine was down until its deals were too old to be asked for.
OpenedIsClosed ==
    \A d \in Decision :
        (ledger[d] = "OPENED" /\ order[d] = "closed" /\ d \notin aged)
            ~> (ledger[d] = "CLOSED" \/ d \in aged)
=============================================================================
