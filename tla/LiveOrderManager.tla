-------------------------- MODULE LiveOrderManager --------------------------
(***************************************************************************)
(* LiveOrderManager of oms.py with the tasks of service.py that call it:   *)
(* the signal loop, the private-stream task, the periodic reconcile and    *)
(* the startup sequence.                                                   *)
(*                                                                         *)
(* Every handler runs under one asyncio lock, but awaits the exchange many *)
(* times, so the account, the other tasks' snapshots and a crash interleave*)
(* with it.  A handler is therefore an agenda: the segments between two    *)
(* awaits that it has still to run, the first one next.  `owner' is the    *)
(* task that holds the lock and runs the agenda.                           *)
(*                                                                         *)
(* Orders, positions, halts, intents and the cursor are written to sqlite  *)
(* in the segment that changes them, so one variable stands for memory and *)
(* ledger; CrashBetweenCommits is the crash between two commits of one     *)
(* segment.  The execution policy is "market", as in config/settings.json. *)
(***************************************************************************)
EXTENDS BinanceAccount, SequencesExt

CONSTANTS
    Signals,     \* the outbox: a sequence of [trade, action], in order
    Background,  \* which of the tasks "periodic" and "private" run
    MaxCrashes,  \* bound: process crashes
    NoTrade

ASSUME SignalAssumption ==
    /\ Signals \in Seq([trade : Trades, action : {"open", "close"}])
    /\ Background \subseteq {"periodic", "private"}
    /\ MaxCrashes \in Nat

VARIABLES
    book,        \* oms.orders / live_orders: state, quantity, filled, applied
    loaded,      \* ids in oms.orders: after a restart only the pending ones
    pos,         \* oms.positions / live_positions, by position_id
    halts,       \* the reasons joined in safe_halt_reason
    intents,     \* live_intents: ids whose intent was ever saved
    cursor,      \* the next signal of the outbox
    configured,  \* _configured_symbols
    agenda,      \* what the task that holds the lock has still to do
    owner,       \* the task that holds _oms_lock, or "none"
    snap,        \* the reconcile snapshot each task is fetching or applying
    up,          \* the process: "down", "recovering", "supervising", "running"
    crashes      \* crashes so far

ledger == <<book, pos, halts, intents, cursor>>
volatile == <<loaded, configured, agenda, owner, snap, up>>
vars == <<account, ledger, volatile, crashes>>

Reconcilers == {"periodic", "private", "startup"}
Owners == {"none", "signal", "guard"} \cup Reconcilers

BookStatus == {"none", "sent", "unknown", "live", "filled", "dead", "rejected",
               "closed"}
Terminal == {"filled", "dead", "rejected", "closed"}
NoEntry == [st |-> "none", qty |-> 0, filled |-> 0, applied |-> 0]
NoPosition == [st |-> "none", qty |-> 0, stop |-> NoAlgo, prot |-> FALSE,
               trail |-> NoAlgo]
Idle == [phase |-> "idle", short |-> [s \in Symbols |-> 0], orders |-> {},
         algos |-> {}]

(***************************************************************************)
(* Halt reasons, by what may clear them.  "manual" stands for every reason *)
(* no reconcile clears (unknown executions, orphans, emergency closes...). *)
(***************************************************************************)
Manual == <<"manual", "">>
StreamFailed == <<"stream", "">>
CancelUnresolved(x) == <<"cancel", x>>
TrailUnresolved(s) == <<"trail", s>>
QuantityMismatch(s) == <<"quantity", s>>
StopMismatch(s) == <<"stop", s>>
Reasons ==
    {Manual, StreamFailed} \cup ({"cancel"} \X (AlgoIds \cup OrderIds))
    \cup ({"trail", "quantity", "stop"} \X Symbols)

Halted == halts # {}

-----------------------------------------------------------------------------
(***************************************************************************)
(* Positions and orders as the handlers look them up.                      *)
(***************************************************************************)
Held == {t \in Trades : pos[t].st \in {"open", "closing"}}
HeldAt(s) == {t \in Held : SymbolOf[t] = s}

\* positions.get(position_id) or positions_by_symbol.get(symbol)
PositionFor(t) == IF t \in Held THEN {t} ELSE HeldAt(SymbolOf[t])

Unapplied(o) == book[o].filled - book[o].applied
Pending(o) ==
    book[o].st # "none" /\ (book[o].st \notin Terminal \/ Unapplied(o) > 0)

\* (mutant: takes an accepted order as filled)
HeardAsFilled(o) ==
    [book EXCEPT ![o].st = orders[o].st, ![o].filled = orders[o].qty]
\* _apply_order_result with what the exchange answers about o now.
Heard(o) ==
    [book EXCEPT ![o].st = orders[o].st, ![o].filled = orders[o].filled]

NewOrder(o, q) == [book EXCEPT ![o] = [NoEntry EXCEPT !.st = "sent", !.qty = q]]
Marked(o, st) == [book EXCEPT ![o].st = st]

\* The next client order id of a role: its time makes it new.
Fresh(t, role) ==
    LET used == {o \in TimedIds : o.trade = t /\ o.role = role /\ book[o].st # "none"}
    IN {o \in TimedIds : o.trade = t /\ o.role = role /\ o.n = Cardinality(used) + 1}

StopFor(t) == [trade |-> t, n |-> 0, qty |-> pos[t].qty]

-----------------------------------------------------------------------------
(***************************************************************************)
(* The agenda.  A step names a segment and the objects its code has in     *)
(* local variables: the position, the order, a second order, an algo id,   *)
(* the one it replaces, force_replace, old_protected and a set of ids read *)
(* earlier.                                                                *)
(***************************************************************************)

Step(op) ==
    [op |-> op, trade |-> NoTrade, order |-> NoOrder, other |-> NoOrder,
     algo |-> NoAlgo, old |-> NoAlgo, force |-> FALSE, kept |-> FALSE, known |-> {}]
OrderStep(op, o, p) == [Step(op) EXCEPT !.order = o, !.trade = p]
TradeStep(op, p) == [Step(op) EXCEPT !.trade = p]
Protect(p, force) == [TradeStep("protect", p) EXCEPT !.force = force]
Retrail(p) == [TradeStep("trail", p) EXCEPT !.force = TRUE]
CancelAlgos(as) ==
    LET step(a) == [Step("cancel_algo") EXCEPT !.algo = a]
    IN [i \in 1..Len(as) |-> step(as[i])]
\* Trailing stop first, then the structure stop, as _cancel_position_algos.
CancelPositionAlgos(p, among) ==
    CancelAlgos((IF pos[p].trail \in among THEN <<pos[p].trail>> ELSE <<>>)
                \o (IF pos[p].stop \in among THEN <<pos[p].stop>> ELSE <<>>))

now == Head(agenda)
Due(op) == agenda # <<>> /\ now.op = op
Then(steps) == agenda' = steps \o Tail(agenda)
Return(steps) == agenda' = steps

\* Groups of variables a segment under the lock leaves alone.
keepTask == <<owner, snap, up, crashes, cursor, intents, loaded, configured>>
keepMarket == <<orders, short, algos, seen, transit, triggers>>
keepStream == <<stream, link>>

Take(task) == owner = "none" /\ owner' = task

\* Segments without an await: asyncio runs nothing else before they are done.
Immediate == {"entry_fill", "exit_fill", "protect", "pending_check", "exit_check",
              "emergency", "alarm", "raise", "reconcile", "flat", "positions",
              "position", "iterate", "strays", "clear"}
Interruptible ==
    owner # "none" => agenda # <<>> /\ now.op \notin Immediate

-----------------------------------------------------------------------------
(***************************************************************************)
(* The signal loop: _poll_signals_once and handle_intent.                  *)
(***************************************************************************)
NextSignal == Signals[cursor]
Polling == up = "running" /\ owner = "none" /\ cursor \in DOMAIN Signals

\* (mutant: no deduplication)
NeverDuplicate(o) == FALSE
\* save_intent finds the id already there.
Duplicate(o) == o \in intents

\* An entry is skipped (stale, source unhealthy, halted) or recorded as
\* rejected (halted, symbol held, risk); an id saved before is a duplicate.
DeclineEntry ==
    /\ Polling /\ NextSignal.action = "open"
    /\ \/ intents' = intents
       \/ intents' = intents \cup {Entry(NextSignal.trade)}
    /\ cursor' = cursor + 1
    /\ UNCHANGED <<account, book, pos, halts, volatile, crashes>>

\* _open_short up to its first await.
OpenShort ==
    LET t == NextSignal.trade
        o == Entry(t)
        s == SymbolOf[t]
    IN /\ Polling /\ NextSignal.action = "open"
       /\ ~Duplicate(o)
       /\ ~Halted /\ HeldAt(s) = {}
       /\ Take("signal")
       /\ intents' = intents \cup {o}
       /\ book' = NewOrder(o, Lot)
       /\ loaded' = loaded \cup {o}
       /\ Return(IF s \in configured THEN <<OrderStep("submit", o, t)>>
                 ELSE <<OrderStep("configure", o, t), OrderStep("submit", o, t)>>)
       /\ UNCHANGED <<account, pos, halts, cursor, configured, snap, up, crashes>>

\* _configure_symbol: the leverage call succeeds, or fails and ends the entry.
Configure ==
    LET o == now.order
        s == SymbolOf[now.trade]
    IN /\ Due("configure")
       /\ \/ /\ configured' = configured \cup {s}
             /\ Then(<<>>)
             /\ UNCHANGED <<book, halts, faults>>
          \/ /\ Fault
             /\ book' = Marked(o, "rejected")
             /\ halts' = halts \cup {Manual}
             /\ Return(<<>>)
             /\ UNCHANGED configured
       /\ UNCHANGED <<keepMarket, keepStream, pos, intents, cursor, loaded,
                      owner, snap, up, crashes>>

\* Begin an exit of position p under the client id o (_close_short).
BeginExit(o, p) ==
    /\ intents' = intents \cup {o}
    /\ book' = NewOrder(o, pos[p].qty)
    /\ loaded' = loaded \cup {o}
    /\ pos' = [pos EXCEPT ![p].st = "closing"]
    /\ Return(<<OrderStep("submit", o, p)>>)
    /\ UNCHANGED <<account, halts, cursor, configured, snap, up, crashes>>

CloseShort ==
    LET o == SignalExit(NextSignal.trade)
    IN /\ Polling /\ NextSignal.action = "close"
       /\ ~Duplicate(o)
       /\ \E p \in PositionFor(o.trade) :
            pos[p].st = "open" /\ BeginExit(o, p)
       /\ Take("signal")

\* (mutant: an exit with nothing to close is dropped before it is saved)
CloseNothingUnsaved ==
    LET o == SignalExit(NextSignal.trade)
    IN /\ Polling /\ NextSignal.action = "close"
       /\ \/ Duplicate(o)
          \/ \A p \in PositionFor(o.trade) : pos[p].st = "closing"
       /\ cursor' = cursor + 1
       /\ UNCHANGED <<account, book, pos, halts, intents, volatile, crashes>>

\* duplicate_intent, no_live_position, already_closing: the cursor moves on.
CloseNothing ==
    LET o == SignalExit(NextSignal.trade)
    IN /\ Polling /\ NextSignal.action = "close"
       /\ \/ Duplicate(o)
          \/ \A p \in PositionFor(o.trade) : pos[p].st = "closing"
       /\ intents' = intents \cup {o}
       /\ cursor' = cursor + 1
       /\ UNCHANGED <<account, book, pos, halts, volatile, crashes>>

\* The protection sync finds the trailing price crossed, or its failsafe
\* fires, and sends an exit intent of its own.
ProtectiveExit(p) ==
    /\ up = "running" /\ Take("guard")
    /\ MaxTrails > 0
    /\ p \in Held /\ pos[p].st = "open"
    /\ \E o \in Fresh(p, "px") : BeginExit(o, p)

\* _sync_shared_protection_once calls update_trail.
SyncTrail(p) ==
    /\ up = "running" /\ Take("guard")
    /\ MaxTrails > 0
    /\ p \in Held
    /\ Return(<<TradeStep("trail", p)>>)
    /\ UNCHANGED <<account, ledger, loaded, configured, snap, up, crashes>>

\* A handler of the loop or the stream task has returned: the lock is free,
\* and the loop saves its cursor.
Release ==
    /\ agenda = <<>>
    /\ owner \in {"signal", "guard", "private"}
    /\ owner' = "none"
    /\ cursor' = IF owner = "signal" THEN cursor + 1 ELSE cursor
    /\ UNCHANGED <<account, book, pos, halts, intents, loaded, configured,
                   agenda, snap, up, crashes>>

-----------------------------------------------------------------------------
(***************************************************************************)
(* Placing an order and learning what became of it.                        *)
(***************************************************************************)

\* The exchange may refuse: a working order has the id, a BUY exceeds the
\* short, or any other reason (a fault).
Refusable(o) ==
    \/ Working(o) \/ book[o].qty = 0
    \/ ~IsEntry(o) /\ short[SymbolOfId(o)] < book[o].qty

SubmitAccepted ==
    LET o == now.order
    IN /\ Due("submit") /\ ~Working(o) /\ book[o].qty > 0
       /\ orders' = Accepted(o, book[o].qty)
       /\ book' = Marked(o, "live")
       /\ Then(<<[now EXCEPT !.op = "settle"]>>)
       /\ UNCHANGED <<short, algos, seen, transit, triggers, faults, keepStream,
                      pos, halts, keepTask>>

\* GatewayError of place_order, by the handler that placed it.  The handler
\* of a flattening order swallows it and leaves the order as it was saved.
SubmitRefused ==
    LET o == now.order
        p == now.trade
    IN /\ Due("submit")
       /\ IF Refusable(o) THEN UNCHANGED faults ELSE Fault
       /\ book' = IF o.role = "uf" THEN book ELSE Marked(o, "rejected")
       /\ pos' = IF (IsExit(o) \/ o.role = "em") /\ pos[p].qty > 0
                 THEN [pos EXCEPT ![p].st = "open"] ELSE pos
       /\ halts' = IF IsExit(o) THEN halts \cup {Manual} ELSE halts
       /\ Then(<<>>)
       /\ UNCHANGED <<keepMarket, keepStream, keepTask>>

\* UnknownExecutionStatus: the request arrived, will arrive, or is lost.
SubmitTimedOut ==
    LET o == now.order
    IN /\ Due("submit") /\ Fault
       /\ \/ /\ ~Working(o) /\ book[o].qty > 0
             /\ orders' = Accepted(o, book[o].qty) /\ UNCHANGED transit
          \/ /\ book[o].qty > 0
             /\ transit' = [transit EXCEPT !.orders = @ \cup {<<o, book[o].qty>>}]
             /\ UNCHANGED orders
          \/ UNCHANGED <<orders, transit>>
       /\ IF o.role = "uf"
          THEN UNCHANGED book /\ Then(<<>>)
          ELSE /\ book' = Marked(o, "unknown")
               /\ Then(<<[now EXCEPT !.op = "resolve"]>>)
       /\ UNCHANGED <<short, algos, seen, triggers, keepStream, pos, halts, keepTask>>

\* What follows a settled market order.
Settled(s) ==
    IF s.order.role = "uf" THEN <<>>
    ELSE <<[s EXCEPT !.op = IF IsEntry(s.order) THEN "entry_fill" ELSE "exit_fill"]>>

\* _abort_unsettled_entry: cancel, look for an untracked short, flatten it.
Abort(o) ==
    <<OrderStep("abort_cancel", o, o.trade), OrderStep("abort_query", o, o.trade)>>

\* _settle_market_order returns True: a fill with a price, or a final state.
SettleKnown ==
    LET o == now.order
    IN /\ Due("settle")
       /\ orders[o].filled > 0 \/ orders[o].st = "dead"
       /\ book' = Heard(o)
       /\ Then(Settled(now))
       /\ UNCHANGED <<account, pos, halts, keepTask>>

\* It returns False: five polls saw no fill or failed, or a fill had no price.
SettleTimedOut ==
    LET o == now.order
        p == now.trade
    IN /\ Due("settle") /\ Fault
       /\ book' \in {book, Heard(o)}
       /\ CASE IsEntry(o) -> Return(Abort(o)) /\ halts' = halts \cup {Manual}
                             /\ UNCHANGED pos
            [] IsExit(o) -> Then(<<>>) /\ halts' = halts \cup {Manual}
                                /\ pos' = [pos EXCEPT ![p].st = "open"]
            [] OTHER -> Then(Settled(now)) /\ UNCHANGED <<pos, halts>>
       /\ UNCHANGED <<keepMarket, keepStream, keepTask>>

\* _resolve_unknown_order and _resolve_unknown_exit_order: the query answers.
ResolveFound ==
    LET o == now.order
    IN /\ Due("resolve") /\ orders[o].st # "none"
       /\ book' = Heard(o)
       /\ Then(IF IsEntry(o)
               THEN <<[now EXCEPT !.op = "settle"], [now EXCEPT !.op = "pending_check"]>>
               ELSE <<[now EXCEPT !.op = "exit_fill"], [now EXCEPT !.op = "exit_check"]>>)
       /\ UNCHANGED <<account, pos, halts, keepTask>>

\* The exchange does not know the id, or the query fails.
ResolveFailed ==
    LET o == now.order
    IN /\ Due("resolve")
       /\ IF orders[o].st = "none" THEN UNCHANGED faults ELSE Fault
       /\ halts' = halts \cup {Manual}
       /\ IF IsEntry(o) THEN Return(Abort(o)) ELSE Then(<<>>)
       /\ UNCHANGED <<keepMarket, keepStream, book, pos, keepTask>>

PendingCheck ==
    LET st == book[now.order].st
    IN /\ Due("pending_check")
       /\ halts' = IF st \in {"filled", "dead", "rejected"} THEN halts
                   ELSE halts \cup {Manual}
       /\ Then(<<>>)
       /\ UNCHANGED <<account, book, pos, keepTask>>

ExitCheck ==
    LET st == book[now.order].st
        p == now.trade
    IN /\ Due("exit_check")
       /\ pos' = IF st \in {"dead", "rejected"} /\ pos[p].qty > 0
                 THEN [pos EXCEPT ![p].st = "open"] ELSE pos
       /\ halts' = IF st \in {"dead", "rejected", "filled"} THEN halts
                   ELSE halts \cup {Manual}
       /\ Then(<<>>)
       /\ UNCHANGED <<account, book, keepTask>>

-----------------------------------------------------------------------------
(***************************************************************************)
(* _abort_unsettled_entry: halted already, it cancels the entry, asks for  *)
(* the symbol's whole short and buys it back.                              *)
(***************************************************************************)
AbortCancel ==
    LET o == now.order
    IN /\ Due("abort_cancel")
       /\ \/ /\ book[o].st \in {"filled", "dead"}
             /\ UNCHANGED <<book, account>>
          \/ /\ book[o].st \notin {"filled", "dead"} /\ CancelWorking(o)
             /\ book' = [book EXCEPT ![o].st = "dead", ![o].filled = orders[o].filled]
             /\ UNCHANGED <<short, algos, seen, transit, triggers, link, faults>>
          \/ /\ book[o].st \notin {"filled", "dead"} /\ ~Working(o)
             /\ book' = IF orders[o].st = "none" THEN book ELSE Heard(o)
             /\ UNCHANGED account
          \/ /\ book[o].st \notin {"filled", "dead"} /\ Fault
             /\ CancelWorking(o) \/ UNCHANGED <<orders, stream>>
             /\ book' \in IF orders[o].st = "none" THEN {book} ELSE {book, Heard(o)}
             /\ UNCHANGED <<short, algos, seen, transit, triggers, link>>
       /\ Then(<<>>)
       /\ UNCHANGED <<pos, halts, keepTask>>

AbortQuery ==
    LET o == now.order
        q == short[SymbolOfId(o)]
    IN /\ Due("abort_query")
       /\ \/ /\ q > 0
             /\ \E u \in Fresh(o.trade, "uf") :
                  /\ book' = NewOrder(u, q)
                  /\ loaded' = loaded \cup {u}
                  /\ Then(<<OrderStep("submit", u, o.trade),
                            [OrderStep("flatten_check", o, o.trade) EXCEPT !.other = u]>>)
             /\ UNCHANGED faults
          \/ /\ IF q = 0 THEN UNCHANGED faults ELSE Fault
             /\ Then(<<>>)
             /\ UNCHANGED <<book, loaded>>
       /\ UNCHANGED <<keepMarket, keepStream, pos, halts, intents, cursor,
                      configured, owner, snap, up, crashes>>

\* Flat again: both orders count as applied.  This query is not guarded, so
\* its failure propagates.
FlattenCheck ==
    LET done(x) == [x EXCEPT !.st = "closed", !.applied = x.filled]
    IN /\ Due("flatten_check")
       /\ \/ /\ book' = IF short[SymbolOfId(now.order)] > 0 THEN book
                        ELSE [book EXCEPT ![now.order] = done(@), ![now.other] = done(@)]
             /\ Then(<<>>) /\ UNCHANGED faults
          \/ /\ Fault /\ Return(<<Step("raise")>>) /\ UNCHANGED book
       /\ UNCHANGED <<keepMarket, keepStream, pos, halts, keepTask>>

\* An exception leaves the handler: the signal loop halts, the stream task
\* reconnects, the periodic task waits for its next turn, startup exits or
\* tries again.
StreamLost ==
    /\ link' = "lost" /\ stream' = <<>>
    /\ halts' = halts \cup {StreamFailed}

Raise ==
    /\ Due("raise") /\ Return(<<>>)
    /\ CASE owner \in {"signal", "guard"} ->
              halts' = halts \cup {Manual} /\ UNCHANGED <<keepStream, owner, snap, up>>
         [] owner = "private" ->
              /\ owner' = "none" /\ snap' = [snap EXCEPT !["private"] = Idle]
              /\ IF link = "proving" THEN link' = "live" /\ UNCHANGED <<stream, halts>>
                 ELSE StreamLost
              /\ UNCHANGED up
         [] owner = "periodic" ->
              owner' = "none" /\ snap' = [snap EXCEPT !["periodic"] = Idle]
              /\ UNCHANGED <<keepStream, halts, up>>
         [] OTHER ->
              /\ owner' = "none" /\ snap' = [snap EXCEPT !["startup"] = Idle]
              /\ up' = IF up = "recovering" THEN "down" ELSE up
              /\ link' = "lost" /\ stream' = <<>> /\ UNCHANGED halts
    /\ UNCHANGED <<keepMarket, faults, book, pos, intents, cursor, loaded,
                   configured, crashes>>

-----------------------------------------------------------------------------
(***************************************************************************)
(* _apply_entry_fill and the protection of the position it creates.        *)
(***************************************************************************)
Applied(o, d) == [book EXCEPT ![o].applied = @ + d]

\* idx_live_positions_open_symbol: a second open row of a symbol is refused,
\* and memory and table part; what follows is not modelled, a branch ends there.
OnlyHeld(t) == \A x \in Held \ {t} : SymbolOf[x] # SymbolOf[t]

EntryFillApplied ==
    LET o == now.order
        t == o.trade
        grown == [pos[t] EXCEPT !.qty = @ + Unapplied(o)]
        created == [NoPosition EXCEPT !.st = "open", !.qty = Unapplied(o)]
    IN /\ Due("entry_fill") /\ Unapplied(o) > 0 /\ OnlyHeld(t)
       /\ pos' = [pos EXCEPT ![t] = IF t \in Held THEN grown ELSE created]
       /\ book' = Applied(o, Unapplied(o))
       /\ Then(IF Halted THEN <<TradeStep("emergency", t)>>
               ELSE <<Protect(t, t \in Held /\ pos[t].prot), TradeStep("review", t)>>)
       /\ UNCHANGED <<account, halts, keepTask>>

\* No confirmed price: abort, then raise.
EntryFillUnpriced ==
    LET o == now.order
    IN /\ Due("entry_fill") /\ Unapplied(o) > 0 /\ Fault
       /\ halts' = halts \cup {Manual}
       /\ Return(Abort(o) \o <<Step("raise")>>)
       /\ UNCHANGED <<keepMarket, keepStream, book, pos, keepTask>>

EntryFillNothing ==
    /\ Due("entry_fill") /\ Unapplied(now.order) <= 0
    /\ Then(<<>>)
    /\ UNCHANGED <<account, book, pos, halts, keepTask>>

\* The slippage limit and _refresh_liquidation: either may close the position.
Review ==
    /\ Due("review")
    /\ \/ Then(<<>>) /\ UNCHANGED faults
       \/ Fault /\ Then(<<TradeStep("emergency", now.trade)>>)
    /\ UNCHANGED <<keepMarket, keepStream, book, pos, halts, keepTask>>

\* ensure_structure_protection up to the placement: the new id is saved first.
ProtectBegin ==
    LET p == now.trade
        needed == ~pos[p].prot \/ pos[p].stop = NoAlgo \/ now.force
    IN /\ Due("protect")
       /\ IF needed
          THEN /\ pos' = [pos EXCEPT ![p].stop = StopFor(p), ![p].prot = FALSE]
               /\ Then(<<[now EXCEPT !.op = "place_stop", !.algo = StopFor(p),
                                     !.old = pos[p].stop, !.kept = pos[p].prot]>>)
          ELSE Then(<<>>) /\ UNCHANGED pos
       /\ UNCHANGED <<account, book, halts, keepTask>>

\* (mutant: cancels the stop it has just placed again under the same id)
AlwaysSuperseded(old, new) == old # NoAlgo
\* The old stop is cancelled once the new one works, unless it is the same.
Superseded(old, new) == old \notin {NoAlgo, new}

PlaceStopAccepted ==
    LET a == now.algo
    IN /\ Due("place_stop") /\ a \notin algos
       /\ AcceptStop(a)
       /\ pos' = [pos EXCEPT ![now.trade].prot = TRUE]
       /\ Then(IF Superseded(now.old, a) THEN CancelAlgos(<<now.old>>) ELSE <<>>)
       /\ UNCHANGED <<orders, short, transit, triggers, faults, link, book,
                      halts, keepTask>>

\* A stop id that is working is refused as a duplicate; any other refusal is
\* a fault, and so is an answer that never comes: the stop may be working,
\* or arrive later.
PlaceUnconfirmed(a) ==
    \/ /\ IF a \in algos THEN UNCHANGED faults ELSE Fault
       /\ UNCHANGED <<algos, seen, stream, transit>>
    \/ /\ Fault
       /\ AcceptStop(a) /\ UNCHANGED transit
    \/ /\ Fault
       /\ transit' = [transit EXCEPT !.algos = @ \cup {a}]
       /\ UNCHANGED <<algos, seen, stream>>

\* (mutant: whether there is an old stop is not asked)
KeptUnforced(restore, force) == ~force
\* The old stop stays the position's stop if it was active, but a forced
\* replacement (its quantity is wrong) closes the position; so does having
\* no stop at all.
KeptOpen(restore, force) == restore /\ ~force

PlaceStopFailed ==
    LET p == now.trade
        restore == now.old # NoAlgo /\ now.kept
    IN /\ Due("place_stop") /\ PlaceUnconfirmed(now.algo)
       /\ pos' = IF restore THEN [pos EXCEPT ![p].stop = now.old, ![p].prot = TRUE]
                 ELSE pos
       /\ Then(IF KeptOpen(restore, now.force) THEN <<>> ELSE <<TradeStep("emergency", p)>>)
       /\ UNCHANGED <<orders, short, triggers, link, book, halts, keepTask>>

\* _cancel_algo_confirmed: an id the exchange never saw, or a request without
\* an answer, stays unresolved.
CancelAlgo ==
    LET a == now.algo
    IN /\ Due("cancel_algo")
       /\ \/ /\ a \in seen
             /\ DropStop(a)
             /\ UNCHANGED <<halts, faults>>
          \/ /\ IF a \in seen THEN Fault ELSE UNCHANGED faults
             /\ DropStop(a) \/ UNCHANGED <<algos, stream>>
             /\ halts' = halts \cup {CancelUnresolved(a)}
       /\ Then(<<>>)
       /\ UNCHANGED <<orders, short, seen, transit, triggers, link, book, pos, keepTask>>

\* emergency_close: the alarm is raised when the close is over.
Emergency ==
    LET p == now.trade
    IN /\ Due("emergency")
       /\ \E o \in Fresh(p, "em") :
            /\ book' = NewOrder(o, pos[p].qty)
            /\ loaded' = loaded \cup {o}
            /\ Then(<<OrderStep("submit", o, p), Step("alarm")>>)
       /\ UNCHANGED <<account, pos, halts, intents, cursor, configured, owner,
                      snap, up, crashes>>

Alarm ==
    /\ Due("alarm")
    /\ halts' = halts \cup {Manual}
    /\ Then(<<>>)
    /\ UNCHANGED <<account, book, pos, keepTask>>

-----------------------------------------------------------------------------
(***************************************************************************)
(* _apply_exit_fill and update_trail.                                      *)
(***************************************************************************)
\* (mutant: takes off the cumulative quantity)
CumulativeDelta(o, p) == IF Unapplied(o) > 0 THEN book[o].filled ELSE 0
ExitDelta(o, p) == IF pos[p].qty < Unapplied(o) THEN pos[p].qty ELSE Unapplied(o)

ExitFillApplied ==
    LET o == now.order
        p == now.trade
        d == ExitDelta(o, p)
        left == pos[p].qty - d
    IN /\ Due("exit_fill") /\ d > 0
       /\ book' = Applied(o, d)
       /\ pos' = [pos EXCEPT ![p].qty = left,
                             ![p].st = IF left > 0 THEN "open" ELSE "closed"]
       /\ Then(IF left > 0 THEN <<Protect(p, TRUE), Retrail(p)>>
               ELSE CancelPositionAlgos(p, AlgoIds))
       /\ UNCHANGED <<account, halts, keepTask>>

ExitFillUnpriced ==
    /\ Due("exit_fill") /\ Unapplied(now.order) > 0 /\ Fault
    /\ halts' = halts \cup {Manual}
    /\ Then(<<>>)
    /\ UNCHANGED <<keepMarket, keepStream, book, pos, keepTask>>

ExitFillNothing ==
    /\ Due("exit_fill") /\ ExitDelta(now.order, now.trade) <= 0
    /\ Then(<<>>)
    /\ UNCHANGED <<account, book, pos, halts, keepTask>>

\* update_trail has nothing to do: no such position, no structure stop, no
\* trailing stop to replace, or the price is unchanged.
TrailSkipped ==
    LET p == now.trade
    IN /\ Due("trail")
       /\ now.force => p \notin Held \/ ~pos[p].prot \/ pos[p].trail = NoAlgo
       /\ Then(<<>>)
       /\ UNCHANGED <<account, book, pos, halts, keepTask>>

Trailable(p) == p \in Held /\ pos[p].prot /\ (now.force => pos[p].trail # NoAlgo)

\* Trail ids carry the decision time: every placement uses a new one.
NewTrails(p) ==
    LET used == {a.n : a \in {b \in seen \cup transit.algos : b.trade = p}} \ {0}
    IN {[trade |-> p, n |-> i, qty |-> pos[p].qty] :
          i \in {Cardinality(used) + 1} \cap 1..MaxTrails}

TrailPlaced ==
    LET p == now.trade
        old == pos[p].trail
    IN /\ Due("trail") /\ Trailable(p)
       /\ \E a \in NewTrails(p) :
            /\ AcceptStop(a)
            /\ pos' = [pos EXCEPT ![p].trail = a]
            /\ Then(IF Superseded(old, a) THEN CancelAlgos(<<old>>) ELSE <<>>)
       /\ UNCHANGED <<orders, short, transit, triggers, faults, link, book, halts,
                      keepTask>>

TrailFailed ==
    LET p == now.trade
    IN /\ Due("trail") /\ Trailable(p)
       /\ \E a \in NewTrails(p) : PlaceUnconfirmed(a)
       /\ halts' = halts \cup {TrailUnresolved(SymbolOf[p])}
       /\ Then(<<>>)
       /\ UNCHANGED <<orders, short, triggers, link, book, pos, keepTask>>

\* The source no longer arms the trail.  An unconfirmed cancel keeps it.
TrailDisarmed ==
    LET p == now.trade
        old == pos[p].trail
    IN /\ Due("trail") /\ Trailable(p) /\ ~now.force
       /\ \/ /\ DropStop(old)
             /\ pos' = [pos EXCEPT ![p].trail = NoAlgo]
             /\ UNCHANGED <<halts, faults>>
          \/ /\ old # NoAlgo /\ Fault
             /\ DropStop(old) \/ UNCHANGED <<algos, stream>>
             /\ halts' = halts \cup {CancelUnresolved(old)}
             /\ UNCHANGED pos
       /\ Then(<<>>)
       /\ UNCHANGED <<orders, short, seen, transit, triggers, link, book, keepTask>>

-----------------------------------------------------------------------------
(***************************************************************************)
(* _private_events: events in stream order, each under the lock; a fill is *)
(* followed by a reconcile before the next event is taken.                 *)
(***************************************************************************)
PrivateIdle ==
    up = "running" /\ "private" \in Background /\ snap["private"].phase = "idle"

\* (mutant: a triggered stop is nobody's fill)
OfOwnFill(e) == e.fill /\ e.order # NoOrder
\* The event says that something was executed, or a stop came or went.
WantsReconcile(e) == e.fill

HandleEvent ==
    LET e == Head(stream)
        o == e.order
    IN /\ PrivateIdle /\ link # "lost" /\ stream # <<>>
       /\ Take("private")
       /\ stream' = Tail(stream)
       /\ IF WantsReconcile(e) THEN snap' = [snap EXCEPT !["private"].phase = "wanted"]
          ELSE UNCHANGED snap
       /\ IF o \notin loaded
          THEN Return(<<>>) /\ UNCHANGED book
          ELSE /\ book' = [book EXCEPT ![o].st = e.st, ![o].filled = e.filled]
               /\ IF e.filled <= book[o].applied THEN Return(<<>>)
                  ELSE IF IsEntry(o) THEN Return(<<OrderStep("entry_fill", o, o.trade)>>)
                  ELSE IF PositionFor(o.trade) = {} THEN Return(<<>>)
                  ELSE \E p \in PositionFor(o.trade) :
                         Return(<<OrderStep("exit_fill", o, p)>>)
       /\ UNCHANGED <<keepMarket, link, faults, pos, halts, intents, cursor, loaded,
                      configured, up, crashes>>

\* The stream fails: events not yet handled are gone, the halt is immediate.
DropStream ==
    /\ PrivateIdle /\ owner # "private" /\ link = "live"
    /\ Interruptible /\ Fault
    /\ StreamLost
    /\ UNCHANGED <<keepMarket, book, pos, intents, cursor, volatile, crashes>>

\* connect(): events queue from here on, and a reconcile must prove the state.
Reconnect ==
    \E task \in {"private", "startup"} :
       /\ IF task = "private" THEN PrivateIdle
          ELSE up = "supervising" /\ snap["startup"].phase = "idle"
       /\ link = "lost" /\ Interruptible
       /\ link' = "proving"
       /\ snap' = [snap EXCEPT ![task].phase = "wanted"]
       /\ UNCHANGED <<keepMarket, stream, faults, ledger, loaded, configured,
                      agenda, owner, up, crashes>>

-----------------------------------------------------------------------------
(***************************************************************************)
(* _reconcile_once: the snapshot is read outside the lock, the positions   *)
(* before the orders and stops, and applied under the lock.                *)
(***************************************************************************)
Wanted(task) ==
    \/ snap[task].phase = "wanted"
    \/ task = "periodic" /\ task \in Background /\ up = "running"
       /\ snap[task].phase = "idle"

FetchPositions(task) ==
    /\ Wanted(task) /\ owner # task /\ Interruptible
    /\ snap' = [snap EXCEPT ![task] = [Idle EXCEPT !.phase = "half", !.short = short]]
    /\ UNCHANGED <<account, ledger, loaded, configured, agenda, owner, up, crashes>>

FetchOrders(task) ==
    /\ snap[task].phase = "half" /\ Interruptible
    /\ snap' = [snap EXCEPT ![task].phase = "ready", ![task].orders = LiveOrders,
                            ![task].algos = algos]
    /\ UNCHANGED <<account, ledger, loaded, configured, agenda, owner, up, crashes>>

\* A critical read fails.  A stream just reconnected stays connected, its
\* halt in place.
FetchFails(task) ==
    /\ snap[task].phase \in {"wanted", "half"} /\ owner # task
    /\ Interruptible /\ Fault
    /\ snap' = [snap EXCEPT ![task] = Idle]
    /\ CASE task = "periodic" -> UNCHANGED <<link, stream, halts, up>>
         [] task = "private" /\ link = "proving" ->
              link' = "live" /\ UNCHANGED <<stream, halts, up>>
         [] task = "private" /\ link # "proving" -> StreamLost /\ UNCHANGED up
         [] OTHER ->
              /\ up' = IF up = "recovering" THEN "down" ELSE up
              /\ link' = "lost" /\ stream' = <<>> /\ UNCHANGED halts
    /\ UNCHANGED <<keepMarket, book, pos, intents, cursor, loaded, configured,
                   agenda, owner, crashes>>

\* recover_inflight_orders runs between build_runtime's snapshot and its use.
RecoverSteps ==
    LET step(o) == OrderStep("recover", o, o.trade)
        inOrder == SetToSeq({o \in loaded : IsEntry(o)})
                   \o SetToSeq({o \in loaded : ~IsEntry(o)})
    IN [i \in 1..Len(inOrder) |-> step(inOrder[i])]

BeginReconcile(task) ==
    /\ snap[task].phase = "ready" /\ Take(task)
    /\ snap' = [snap EXCEPT ![task].phase = "applying"]
    /\ Return((IF up = "recovering" THEN RecoverSteps ELSE <<>>)
              \o <<Step("reconcile")>>)
    /\ UNCHANGED <<account, ledger, loaded, configured, up, crashes>>

Recover ==
    LET o == now.order
        owed == orders[o].filled > book[o].applied
    IN /\ Due("recover")
       /\ \/ /\ orders[o].st # "none"
             /\ book' = Heard(o)
             /\ CASE ~owed -> Then(<<>>) /\ UNCHANGED halts
                  [] owed /\ IsEntry(o) ->
                       Then(<<[now EXCEPT !.op = "entry_fill"]>>) /\ UNCHANGED halts
                  [] OTHER ->
                       IF PositionFor(o.trade) = {}
                       THEN Then(<<>>) /\ halts' = halts \cup {Manual}
                       ELSE \E p \in PositionFor(o.trade) :
                              Then(<<OrderStep("exit_fill", o, p)>>) /\ UNCHANGED halts
             /\ UNCHANGED faults
          \/ /\ IF orders[o].st = "none" THEN UNCHANGED faults ELSE Fault
             /\ halts' = halts \cup {Manual}
             /\ Then(<<>>)
             /\ UNCHANGED book
       /\ UNCHANGED <<keepMarket, keepStream, pos, keepTask>>

taken == snap[owner]   \* the snapshot being applied

\* (mutant: every symbol the strategy trades counts as its own)
UnknownSymbols == {s \in Symbols : taken.short[s] > 0} \ {SymbolOf[t] : t \in Trades}
\* Symbols short on the exchange and not held here.
Orphans == {s \in Symbols : taken.short[s] > 0} \ {SymbolOf[t] : t \in Held}

\* reconcile(): orphan positions, positions the exchange no longer has, own
\* orders nobody remembers, then the positions one by one.
Reconcile ==
    LET gone == SetToSeq({t \in Held : taken.short[SymbolOf[t]] = 0})
        lost == SetToSeq(taken.orders \ loaded)
        flat(t) == TradeStep("flat", t)
        cancel(o) == OrderStep("cancel_order", o, NoTrade)
    IN /\ Due("reconcile")
       /\ halts' = IF Orphans = {} THEN halts ELSE halts \cup {Manual}
       /\ Then([i \in 1..Len(gone) |-> flat(gone[i])]
               \o [i \in 1..Len(lost) |-> cancel(lost[i])]
               \o <<Step("positions")>>)
       /\ UNCHANGED <<account, book, pos, keepTask>>

\* Closed by the exchange; a halt if its exit fills cannot be found.
CloseFlat ==
    LET p == now.trade
    IN /\ Due("flat")
       /\ pos' = [pos EXCEPT ![p].st = "closed"]
       /\ \/ UNCHANGED <<halts, faults>>
          \/ Fault /\ halts' = halts \cup {Manual}
       /\ Then(CancelPositionAlgos(p, taken.algos))
       /\ UNCHANGED <<keepMarket, keepStream, book, keepTask>>

CancelOrphanOrder ==
    LET o == now.order
    IN /\ Due("cancel_order")
       /\ \/ CancelWorking(o) /\ UNCHANGED <<halts, faults>>
          \/ /\ IF Working(o) THEN Fault ELSE UNCHANGED faults
             /\ CancelWorking(o) \/ UNCHANGED <<orders, stream>>
             /\ halts' = halts \cup {CancelUnresolved(o)}
       /\ Then(<<>>)
       /\ UNCHANGED <<short, algos, seen, transit, triggers, link, book, pos, keepTask>>

\* (mutant: closed positions keep their stops)
AlgosEverUsed == {pos[t].stop : t \in Trades} \cup {pos[t].trail : t \in Trades}
\* (mutant: the stops of a position that is being closed are not in use)
AlgosOfOpen ==
    LET open == {t \in Held : pos[t].st = "open"}
    IN {pos[t].stop : t \in open} \cup {pos[t].trail : t \in open}
AlgosInUse == {pos[t].stop : t \in Held} \cup {pos[t].trail : t \in Held}

ReconcilePositions ==
    LET ps == SetToSeq(Held)
        turn(i) == IF i % 2 = 1 THEN TradeStep("position", ps[(i + 1) \div 2])
                   ELSE [Step("iterate") EXCEPT !.known = Held]
        strays == [Step("strays") EXCEPT !.known = AlgosInUse]
    IN /\ Due("positions")
       /\ Then([i \in 1..(2 * Len(ps)) |-> turn(i)] \o <<strays>>)
       /\ UNCHANGED <<account, book, pos, halts, keepTask>>

\* (mutant: asks the own book, which may never hear of the end of an order)
PendingInBook(s) ==
    \E o \in OrderIds : ~IsEntry(o) /\ SymbolOfId(o) = s /\ book[o].st # "none"
\* The snapshot shows a BUY of the symbol at work.
PendingReduce(s) == \E o \in taken.orders : ~IsEntry(o) /\ SymbolOfId(o) = s

\* One position against its row: the exchange quantity wins, a closing
\* position without a working BUY is open again, and a stop that is missing
\* from the snapshot or has another quantity is placed anew.
ReconcilePosition ==
    LET p == now.trade
        s == SymbolOf[p]
        q == taken.short[s]
        changed == q # pos[p].qty
        listed == pos[p].stop \in taken.algos
        resized == listed /\ pos[p].stop.qty # q
        replace == changed \/ resized
    IN /\ Due("position")
       /\ pos' = [pos EXCEPT
            ![p].qty = q,
            ![p].st = IF @ = "closing" /\ ~PendingReduce(s) THEN "open" ELSE @,
            ![p].prot = @ /\ listed /\ ~replace]
       /\ halts' = halts \cup (IF changed THEN {QuantityMismatch(s)} ELSE {})
                         \cup (IF resized THEN {StopMismatch(s)} ELSE {})
       /\ Then((IF listed /\ ~replace THEN <<>> ELSE <<Protect(p, replace)>>)
               \o (IF changed /\ pos[p].trail # NoAlgo THEN <<Retrail(p)>> ELSE <<>>))
       /\ UNCHANGED <<account, book, keepTask>>

\* The loop over self.positions fails when an emergency close removed one.
ReconcileIterate ==
    /\ Due("iterate")
    /\ IF Cardinality(Held) = Cardinality(now.known) THEN Then(<<>>)
       ELSE Return(<<Step("raise")>>)
    /\ UNCHANGED <<account, book, pos, halts, keepTask>>

ReconcileStrays ==
    LET orphans == SetToSeq(taken.algos \ (now.known \cup AlgosInUse))
    IN /\ Due("strays")
       /\ Then(CancelAlgos(orphans) \o <<Step("clear")>>)
       /\ UNCHANGED <<account, book, pos, halts, keepTask>>

\* recoverable_halts_after_reconcile
StopConfirmed(s) ==
    /\ HeldAt(s) = {} => taken.short[s] = 0
    /\ \A p \in HeldAt(s) : /\ pos[p].prot /\ pos[p].stop \in taken.algos
                            /\ pos[p].stop.qty = pos[p].qty

Recoverable ==
    {h \in halts :
       \/ h[1] = "cancel" /\ h[2] \notin taken.algos /\ h[2] \notin taken.orders
       \/ h[1] = "stop" /\ StopConfirmed(h[2])
       \/ /\ h[1] = "quantity" /\ StopConfirmed(h[2])
          /\ \A p \in HeldAt(h[2]) : pos[p].qty = taken.short[h[2]]
       \/ /\ h[1] = "trail"
          /\ \A p \in HeldAt(h[2]) : pos[p].trail \in taken.algos}

\* The lock is released and the recoverable halts cleared without another
\* await; after a reconnect, the connectivity halts as well.
ReconcileDone ==
    LET proved == \/ owner = "private" /\ link = "proving"
                  \/ owner = "startup" /\ up = "supervising"
    IN /\ Due("clear") /\ Return(<<>>)
       /\ halts' = halts \ ((IF up = "recovering" THEN {} ELSE Recoverable)
                            \cup (IF proved THEN {StreamFailed} ELSE {}))
       /\ link' = CASE ~proved -> link
                    [] proved /\ "private" \in Background -> "live"
                    [] OTHER -> "lost"
       /\ up' = CASE up = "recovering" -> "supervising"
                  [] up = "supervising" -> "running"
                  [] OTHER -> up
       /\ snap' = [snap EXCEPT ![owner] = Idle]
       /\ owner' = "none"
       /\ UNCHANGED <<keepMarket, stream, faults, book, pos, intents, cursor, loaded,
                      configured, crashes>>

-----------------------------------------------------------------------------
(***************************************************************************)
(* The process dies and starts again from the ledger.                      *)
(***************************************************************************)
Die ==
    /\ up # "down" /\ crashes < MaxCrashes
    /\ crashes' = crashes + 1
    /\ up' = "down" /\ owner' = "none" /\ agenda' = <<>>
    /\ loaded' = {} /\ configured' = {}
    /\ snap' = [t \in Reconcilers |-> Idle]
    /\ stream' = <<>> /\ link' = "lost"

Crash ==
    /\ Die
    /\ UNCHANGED <<keepMarket, faults, ledger>>

\* The request had left the process: its order or stop arrives.
CrashAfterSend ==
    /\ Die
    /\ \/ /\ Due("submit") /\ ~Working(now.order)
          /\ orders' = Accepted(now.order, book[now.order].qty)
          /\ UNCHANGED <<algos, seen>>
       \/ /\ Due("place_stop")
          /\ algos' = algos \cup {now.algo}
          /\ seen' = seen \cup {now.algo}
          /\ UNCHANGED orders
    /\ UNCHANGED <<short, transit, triggers, faults, ledger>>

\* save_order has committed the applied fill and save_position has not, or
\* save_intent has committed the intent and save_order has not.
CrashBetweenCommits ==
    LET o == now.order
        d == IF Due("entry_fill") THEN Unapplied(o) ELSE ExitDelta(o, now.trade)
        id == IF NextSignal.action = "open" THEN Entry(NextSignal.trade)
              ELSE SignalExit(NextSignal.trade)
    IN /\ Die
       /\ \/ /\ Due("entry_fill") \/ Due("exit_fill")
             /\ d > 0
             /\ book' = Applied(o, d) /\ UNCHANGED intents
          \/ /\ Polling
             /\ intents' = intents \cup {id} /\ UNCHANGED book
       /\ UNCHANGED <<keepMarket, faults, pos, halts, cursor>>

\* build_runtime: load_ledger_state and the first snapshot.
Boot ==
    /\ up = "down"
    /\ up' = "recovering"
    /\ loaded' = {o \in OrderIds : Pending(o)}
    /\ snap' = [snap EXCEPT !["startup"].phase = "wanted"]
    /\ UNCHANGED <<account, ledger, configured, agenda, owner, crashes>>

-----------------------------------------------------------------------------
Init ==
    /\ AccountInit
    /\ link = IF "private" \in Background THEN "live" ELSE "lost"
    /\ book = [o \in OrderIds |-> NoEntry]
    /\ pos = [t \in Trades |-> NoPosition]
    /\ halts = {} /\ intents = {} /\ cursor = 1
    /\ loaded = {} /\ configured = {}
    /\ agenda = <<>> /\ owner = "none"
    /\ snap = [t \in Reconcilers |-> Idle]
    /\ up = "running" /\ crashes = 0

ExchangeStep ==
    Interruptible /\ AccountNext /\ UNCHANGED <<ledger, volatile, crashes>>

SignalStep ==
    \/ DeclineEntry \/ OpenShort \/ Configure \/ CloseShort \/ CloseNothing
    \/ Release
    \/ \E p \in Trades : ProtectiveExit(p) \/ SyncTrail(p)

PlacementStep ==
    \/ SubmitAccepted \/ SubmitRefused \/ SubmitTimedOut
    \/ SettleKnown \/ SettleTimedOut \/ ResolveFound \/ ResolveFailed
    \/ PendingCheck \/ ExitCheck
    \/ AbortCancel \/ AbortQuery \/ FlattenCheck \/ Raise

PositionStep ==
    \/ EntryFillApplied \/ EntryFillUnpriced \/ EntryFillNothing \/ Review
    \/ ProtectBegin \/ PlaceStopAccepted \/ PlaceStopFailed \/ CancelAlgo
    \/ Emergency \/ Alarm
    \/ ExitFillApplied \/ ExitFillUnpriced \/ ExitFillNothing
    \/ TrailSkipped \/ TrailPlaced \/ TrailFailed \/ TrailDisarmed

ReconcileStep ==
    \/ \E task \in Reconcilers :
         FetchPositions(task) \/ FetchOrders(task) \/ FetchFails(task)
         \/ BeginReconcile(task)
    \/ Recover \/ Reconcile \/ CloseFlat \/ CancelOrphanOrder
    \/ ReconcilePositions \/ ReconcilePosition \/ ReconcileIterate
    \/ ReconcileStrays \/ ReconcileDone

StreamStep == HandleEvent \/ DropStream \/ Reconnect

CrashStep == Crash \/ CrashAfterSend \/ CrashBetweenCommits \/ Boot

Next ==
    \/ ExchangeStep \/ SignalStep \/ PlacementStep \/ PositionStep
    \/ StreamStep \/ ReconcileStep \/ CrashStep

Spec == Init /\ [][Next]_vars

-----------------------------------------------------------------------------
\* The segments, and which of their objects the code has at hand.
OrderOps == {"abort_cancel", "abort_query", "flatten_check", "entry_fill",
             "recover", "cancel_order"}
TradeOps == {"review", "protect", "place_stop", "emergency", "trail", "flat",
             "position"}
PlacementOps == {"configure", "submit", "settle", "resolve", "pending_check",
                 "exit_fill", "exit_check"}
AlgoOps == {"place_stop", "cancel_algo"}
SnapshotOps == {"reconcile", "flat", "positions", "position", "iterate",
                "strays", "clear"}
Ops == OrderOps \cup TradeOps \cup PlacementOps \cup AlgoOps \cup SnapshotOps
       \cup {"raise", "alarm"}

StepType ==
    [op : Ops, trade : Trades \cup {NoTrade}, order : OrderIds \cup {NoOrder},
     other : OrderIds \cup {NoOrder}, algo : AlgoIds \cup {NoAlgo},
     old : AlgoIds \cup {NoAlgo}, force : BOOLEAN, kept : BOOLEAN,
     known : SUBSET (AlgoIds \cup {NoAlgo} \cup Trades)]

\* The steps a task may have to run: a segment finds its objects set, and
\* only a reconcile applies a snapshot.
StepsOf(task) ==
    {x \in StepType :
       /\ x.op \in OrderOps \cup PlacementOps => x.order \in OrderIds
       /\ x.op \in TradeOps \cup PlacementOps => x.trade \in Trades
       /\ x.op \in AlgoOps => x.algo \in AlgoIds
       /\ x.op \in SnapshotOps => task \in Reconcilers}

BookRow == [st : BookStatus, qty : Nat, filled : Nat, applied : Nat]
PositionRow ==
    [st : {"none", "open", "closing", "closed"}, qty : Nat, prot : BOOLEAN,
     stop : AlgoIds \cup {NoAlgo}, trail : AlgoIds \cup {NoAlgo}]
Snapshot ==
    [phase : {"idle", "wanted", "half", "ready", "applying"},
     short : [Symbols -> Nat], orders : SUBSET OrderIds, algos : SUBSET AlgoIds]

LedgerTypeOK ==
    /\ book \in [OrderIds -> BookRow]
    /\ pos \in [Trades -> PositionRow]
    /\ halts \subseteq Reasons
    /\ intents \subseteq OrderIds
    /\ cursor \in 1..(Len(Signals) + 1)

TaskTypeOK ==
    /\ owner \in Owners
    /\ owner = "signal" => cursor \in 1..Len(Signals)
    /\ agenda \in Seq(StepsOf(owner))
    /\ loaded \subseteq OrderIds /\ configured \subseteq Symbols
    /\ snap \in [Reconcilers -> Snapshot]
    /\ \A task \in Reconcilers : IsFiniteSet(snap[task].algos)
    /\ up \in {"down", "recovering", "supervising", "running"}
    /\ crashes \in 0..MaxCrashes

\* Type invariant: every variable keeps the shape the handlers rely on.
TypeOK == AccountTypeOK /\ LedgerTypeOK /\ TaskTypeOK

-----------------------------------------------------------------------------
(***************************************************************************)
(* Fairness.  asyncio runs every task whose await is answered, the lock is *)
(* first come first served, systemd restarts the process (Restart=always), *)
(* and the exchange executes or ends every market order.                   *)
(***************************************************************************)
ExchangeExecutes == ExchangeStep /\ triggers' = triggers

Fairness ==
    /\ WF_vars(Release) /\ WF_vars(PlacementStep) /\ WF_vars(PositionStep)
    /\ WF_vars(ReconcileStep) /\ WF_vars(HandleEvent) /\ WF_vars(Reconnect)
    /\ WF_vars(Boot) /\ SF_vars(ExchangeExecutes)

LiveSpec == Spec /\ Fairness

-----------------------------------------------------------------------------
(***************************************************************************)
(* The abstract queue this process consumes: the cursor is its place, and  *)
(* the saved intents are what it has taken.  No alarm excuses a lost exit. *)
(***************************************************************************)
SignalRow == [trade : Trades, action : {"open", "close"}]
IdOf(x) == IF x.action = "open" THEN Entry(x.trade) ELSE SignalExit(x.trade)
TakenSignals == {x \in SignalRow : IdOf(x) \in intents}

Queue == INSTANCE SignalQueue WITH
    Rows <- SignalRow, Exits <- {x \in SignalRow : x.action = "close"},
    History <- 0, outbox <- Signals, next <- cursor, taken <- TakenSignals,
    alarm <- FALSE

-----------------------------------------------------------------------------
(***************************************************************************)
(* Properties.                                                             *)
(***************************************************************************)

\* No handler has anything left to do, no order is at work, no event waits,
\* and no snapshot is being read or applied.
AtRest ==
    /\ up = "running" /\ agenda = <<>> /\ stream = <<>> /\ LiveOrders = {}
    /\ \A task \in Reconcilers : snap[task] = Idle

\* Besides, the lock is free, the stream is connected and no request that
\* timed out is still on its way.
Quiet ==
    /\ AtRest /\ owner = "none"
    /\ "private" \in Background => link = "live"
    /\ transit.orders = {} /\ transit.algos = {}

StopsAt(s) == {a \in algos : SymbolOfId(a) = s}
Recorded == {pos[t].stop : t \in Held} \cup {pos[t].trail : t \in Held}

\* The symbol is short and no single stop covers all of it.
Naked(s) == short[s] > 0 /\ \A a \in StopsAt(s) : a.qty < short[s]

(* What every fill, partial fill, stop and reconcile adds up to: when nothing
   is in flight and nothing is halted, the quantity of the open positions is
   the exchange's (_apply_entry_fill, _apply_exit_fill, reconcile). *)
BooksAgree ==
    Quiet /\ ~Halted =>
      \A s \in Symbols : short[s] = MapThenSumSet(LAMBDA t : pos[t].qty, HeldAt(s))

(* ensure_structure_protection and reconcile: when nothing is in flight and
   nothing is halted, every position has a working stop of its own quantity,
   and is marked as protected unless a crash lost the answer that said so. *)
HeldIsProtected ==
    Quiet /\ ~Halted =>
      \A t \in Held :
        /\ pos[t].stop \in algos /\ pos[t].stop.qty = pos[t].qty
        /\ crashes = 0 => pos[t].prot

(* _cancel_position_algos and the orphan sweep of reconcile: a stop that
   outlived its position would buy back the next one. *)
NoStrayStops == Quiet /\ ~Halted => algos \subseteq Recorded

(* The promise behind every failure path: once the program is at rest, a short
   that no stop covers has halted it. *)
NakedRaisesAlarm ==
    AtRest => \A s \in Symbols : Naked(s) => Halted

(* The deterministic client id, saved before it is sent, is sent once whatever
   is replayed after a timeout, a reconnect or a crash: the exchange never
   gets more than the quantity the row of that id was approved for. *)
SentAtMostOnce == \A o \in OrderIds : orders[o].qty <= book[o].qty

(* Whatever a REST answer, a late event or a crash between commits says, the
   row of an order never holds, and a position never counts, a fill the
   exchange has not made; nor does an event still waiting in the stream. *)
LedgerNeverAhead ==
    /\ \A o \in OrderIds :
         book[o].filled <= orders[o].filled /\ book[o].applied <= orders[o].filled
    /\ \A i \in 1..Len(stream) :
         stream[i].order \in OrderIds => stream[i].filled <= orders[stream[i].order].filled

\* The step takes the last stop of no position it goes on holding, unless the
\* market triggers it.
KeepsCover ==
    \A t \in Held :
      LET s == SymbolOf[t]
      IN t \in Held' /\ short[s] > 0 /\ StopsAt(s) # {} /\ triggers' = triggers
           => StopsAt(s)' # {}

(* "Replace new-before-old so the residual short is never naked" (oms.py 1243):
   no step of the program takes the last stop of a position it goes on
   holding; only the market (a trigger) does. *)
NewBeforeOld == [][KeepsCover]_vars

(* The same however many requests fail, for as long as nothing has crashed or
   triggered and no halt calls for an operator. *)
Undisturbed == crashes = 0 /\ triggers = MaxTriggers /\ Manual \notin halts
CoverUntilAlarm == [][Undisturbed => KeepsCover]_vars

(* A position does not stay "closing", where every later exit is dropped as
   already_closing: the exit is applied or reconcile opens it again. *)
ClosingResolves ==
    \A t \in Trades : pos[t].st = "closing" ~> pos[t].st # "closing"

(* Whatever fails, is replayed or crashes between saving an intent, sending it
   and saving the cursor, the signals of the outbox are taken once each, in
   order, and no exit is passed over (_poll_signals_once, handle_intent). *)
QueueSpec == Queue!Spec

(* Even if a stale snapshot made the program forget a position, a short without
   a stop is closed, covered or halted in the end. *)
NakedNoticed == \A s \in Symbols : Naked(s) ~> (~Naked(s) \/ Halted)

(* A stop left behind by a closed position is swept in the end. *)
LeftoverCancelled ==
    \A s \in Symbols :
      (HeldAt(s) = {} /\ StopsAt(s) # {})
        ~> (HeldAt(s) # {} \/ StopsAt(s) = {} \/ Halted)
=============================================================================
