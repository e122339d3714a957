# Binance Hunter: TLA+ models of the paper and live trading processes

Binance Hunter watches Binance USDT perpetuals for pump-and-dump boards, opens short
positions on them in paper accounts, and (in production) repeats those decisions with real
money on a portfolio-margin account. Three asyncio processes share sqlite databases: the
**pump watch** raises alerts, the **paper monitor** runs the strategy and publishes its
signals in an outbox, and the **live service** follows that outbox with real orders, over an
exchange that answers late, twice or not at all, in a process that may die at any line. This
directory models what those processes do over time, checks it with TLC on small instances and
proves what can be proved with TLAPS.

Paths below are relative to `src/backend/pump_dump_hunter/` unless they start otherwise;
`docs/` is `src/docs/`.

## 1. Inventory

### Parts and how they interact

```
 candles --> pump watch (live.py, SignalEngine) --> alerts
    |             | pump_events
    |             v
    |        strategy store (sqlite: positions, outbox, protection rows, pump events)
    v             ^                                         | polled, in order
 paper monitor ---+  (board_waterfall, paper_accounts)      v
                                                       signal_source
   signal loop --+                                          |
   protection ---+-- _oms_lock --> LiveOrderManager --> gateway --> Binance (orders, stops, short)
   reconcile  ---+                     |   ^                            |
   stream task --+<--------------------|---+------- user stream <-------+
                                       v
                                    ledger (sqlite)
```

| component | state | operations | hard behaviour | correct when |
|---|---|---|---|---|
| **LiveOrderManager** (`live_trading/oms.py`) | orders, positions, halt reasons, configured symbols | `handle_intent`, `_open_short`, `_close_short`, settle / resolve / abort, `_apply_entry_fill`, `_apply_exit_fill`, `ensure_structure_protection`, `update_trail`, `emergency_close`, `reconcile`, `recover_inflight_orders`, `handle_user_event` | each handler awaits the exchange many times; every request may be refused, lost, late or half done; late events; crashes between two commits | books and exchange agree at rest; every position has one stop of its own quantity; no stop outlives its position; no order is sent twice; a naked short halts the program |
| **Live service** (`live_trading/service.py`) | `_oms_lock`, cursor, batch, stream state, reconcile counter, protection cache, source health | signal loop, protection sync, periodic reconcile, private-stream task, `build_runtime`, startup supervision | snapshots are read outside the lock and applied under it; the stream drops with events in it; reads fail; tasks die | the halt is immediate and only proof clears it; no signal is skipped or handled twice; nothing holds the outbox up |
| **Ledger** (`live_trading/ledger.py`) | intents, orders, positions, meta, fills, nonce | `save_*`, `load_*` | one transaction per row, so a crash falls between two of them | a restart finds every order that is still owed something |
| **Gateway** (`live_trading/gateway.py`) | rate limiter, trade-WebSocket table of pending futures | REST requests, trade WebSocket, user stream | timeout against late answer; `UnknownExecutionStatus` | an unknown outcome is never taken for a known one |
| **Binance** (external) | orders, short per symbol, conditional orders, user stream | accept, fill in parts, cancel, expire, trigger | everything above happens at its pace | not ours to verify; modelled from how `gateway.py` and `oms.py` use it |
| **Signal source** (`live_trading/signal_source.py`, outbox of `data/store.py`) | batch, backoff | read the next batch | database failures, a blocked exit | exactly once, in order |
| **Board strategy** (`board_waterfall.py`) | open positions, cool-downs, daily counts | per-minute update, exits, protection decision, restore | restart from rows that may be incomplete | one position per symbol, cap and cool-down respected |
| **Paper monitor** (`waterfall.py` `waterfall_monitor`) | the event in progress, the store | commits rows, protection, signals, outbox, accounts | a commit fails, or the process dies, between two of them | what the live process reads is consistent with the strategy |
| **Paper accounts** (`paper_accounts.py`) | realized equity, peak, open margins | `apply_signal`, `rebuild` | incremental against rebuilt state | the 20% account is the strategy's, margin stays within equity |
| **Pump watch** (`live.py`, `engine/signal_engine.py`) | events, candle buffers, source, `pump_events` | discovery, candle, prewarm, alert, restart | missed candles are replayed; marks stored before the alert | alerts not repeated, marks not forgotten |
| **Risk, sizing** (`live_trading/risk.py`, `oms.py` 135-272) | NAV, high-water mark, day baselines | `refresh_sizing_state`, risk verdict | deposits, zero equity, day change | limits never exceeded |
| **Execution policy, exchange rules** | none | plan an order, round to tick and step | rounding to zero | quantities the exchange accepts |
| **Legacy waterfall engine** (`waterfall.py`), long line, legacy and v2 modes | as the board strategy and the pump watch | | switched off in the shipped settings | |
| **Market data and depth** (`depth_cache.py`, `micro_collector.py`) | windows of book imbalance | publish, reload, decide | annotates only (`bookdepth_filter_mode` is off) | |
| **Notifications, smoke test, configuration, credentials, dashboard, CLI** | | output, scripts, validation | | |
| **Backtests, `ml_experiments`, trained models** | | offline numeric research | none over time | |

The configuration shipped in `src/backend/config/settings.json` decides the variant modelled:
portfolio margin, orders over REST, hedge mode SHORT, execution policy `market`, signals from
the shared paper database, a reconcile every 30 s; the pump watch in `ml` mode with the
lifecycle router and no long line.

The hazards of this code, each at its line, and the properties aimed at them are in
`PROJECT.json` under `hazards`; those without a property say why.

## 2. Modules

| module | what it is |
|---|---|
| `BinanceAccount` | the exchange as the program meets it (external): orders, short positions, conditional orders, user stream, late requests, fills, expiries, triggers |
| `LiveOrderManager` | `oms.py` with the calls `service.py` makes to it and the ledger rows it commits; extends `BinanceAccount` |
| `LiveService` | the tasks of `service.py` around it: startup, signal loop with batches and cursor, quotes, source health, private stream, periodic reconcile, dying tasks, restarts; the order manager is seen from outside |
| `SignalQueue` | the **abstract specification** of what paper and live process promise each other: signals are passed in order, taken at most once, and no exit is passed over silently |
| `TrailProtection` | `_sync_shared_protection_once`, `_recover_failed_trail_update` and `update_trail` for one position: decisions, cache, quotes, first arming, failsafe, reconcile sweep |
| `PaperAccounts` | margin, drawdown ladder, entry, exit and rebuild of `paper_accounts.py`, as operators over money |
| `PaperMonitor` | the paper process: board engine, its commits one by one, failed commits, crashes, the start; extends `PaperAccounts` |
| `PumpMonitor` | the pump watch: `monitor` of `live.py` with the signal engine and the rows it restarts from |
| `MC...` | the instances TLC checks: outboxes, symbols, prices, ladders |
| `LiveOrderManagerTypes`, `LiveOrderManagerLedger`, `LiveOrderManagerSettled`, `LiveOrderManagerCover`, `LiveServiceProofs`, `TrailProtectionProofs`, `PaperMonitorProofs`, `PumpMonitorProofs` | proofs (section 5) |

The composition: `PaperMonitor` writes an outbox and protection rows, `LiveService` follows
any outbox, `TrailProtection` any protection rows, `LiveOrderManager` any list of signals. The
seam between the processes is `SignalQueue`, and both `LiveService` and `LiveOrderManager` are
shown to implement it, the first with batches, missing quotes and failing reads, the second
with what happens inside a handler. What the outbox may hold is what `PaperMonitor` shows of it
(`ExitedStaysOut`, `EntriesSpaced`).

### LiveOrderManager: state and agenda

| variable | code |
|---|---|
| `orders`, `short`, `algos`, `seen`, `transit`, `stream`, `link` | the exchange: orders by client id, short positions, working and ever accepted conditional orders, requests that timed out and may still arrive, the user stream and whether it is connected |
| `book` | `self.orders` and table `live_orders`: status, quantity, `filled_quantity`, `applied_quantity` |
| `loaded` | which of those rows are in memory: all of them until a restart, then the pending ones |
| `pos` | `self.positions` and `live_positions`: status, quantity, structure stop id, `protected`, trailing stop id |
| `halts` | the reasons joined in `safe_halt_reason`, grouped by what may clear them; `Manual` stands for all that no reconcile clears |
| `intents`, `cursor` | rows of `live_intents`; the signal cursor |
| `owner`, `agenda` | the task that holds `_oms_lock`; what is left of the handler that runs under it |
| `snap` | the reconcile snapshot each task is fetching, has fetched, or is applying |
| `up` | the process: down, `build_runtime`, startup supervision, running |

A handler is one coroutine under one lock, so no two handlers interleave; but between two of
its awaits the exchange, the fetching of snapshots by other tasks, the loss of the stream and a
crash all happen. So a handler is an **agenda**: the sequence of segments it has still to run,
each with the objects the code keeps in local variables. A segment is one action. `Then`
prepends what a segment calls, `Return` drops the rest of the handler (an early `return` or an
exception). Nothing runs between two segments without an await (`Interruptible`). Whether a
segment's writes reach sqlite in one commit or two matters only to a crash, and
`CrashBetweenCommits` is that crash; this is why one variable stands for memory and table.

Abstractions: prices, PnL, commissions and messages are left out (a missing price or an
exceeded slippage limit is a fault that takes the branch the code takes); quantities are whole
exchange steps; a client id is what its digest is computed from (trade, role, and a number when
the code puts a time in it); the risk verdict is a choice of `DeclineEntry`.

### The other modules: state and steps

- `LiveService`: `main` is where `run()` stands (startup, reading, at a row, in the order
  manager, saving the cursor, protection sync, supervision of the tasks), `private` and
  `periodic` where those tasks stand, `stream` what is known of the user stream ("proven" by a
  reconcile since it connected, or "lost" and not yet noticed). A handler takes the signal,
  refuses it, or raises; a reconcile succeeds or fails. Each await of `run()` is a step of its
  own, so the tasks act in between.
- `TrailProtection`: `main` is where the sync stands, `job` the decision it read, `cache` the
  decision it takes for settled; `working` and `transit` are the trailing stops at the exchange
  and the placements that may still arrive. `update_trail` holds the lock and is one step.
- `PaperMonitor`: `pc` and `job` are the commits of the current event that are still to come
  (`StoreRow`, `Protect`, `Publish`, `Account`); `Error` drops the rest of the event as the
  `except` does, `Restart` drops the memory and loads what the tables hold. What a candle says
  (label, flow, stop, profit) is a choice; time counts in candles.
- `PaperAccounts`: whole money with exact division, so that rebuilt and incremental books can
  be compared with `=`.
- `PumpMonitor`: one symbol, since symbols do not meet in the engine. `event` is
  `events_by_symbol`, `seen` the candle buffer, `rows` the table; `pc` and `job` say what
  `monitor` does next (store, emit, prewarm, open a source). Candles close at even times and
  are lost when no source is there to receive them; prewarm reads them afterwards. The models'
  scores are a choice among the alerts the marks allow.

`PROJECT.json` (`map`) gives the source lines of each definition.

## 3. What the runs check

`Quiet` means that the program is at rest (no handler, order, event or snapshot under way), the
lock free, the stream connected and nothing lost in transit.

| run | instance | shows |
|---|---|---|
| `private_stream` | one trade of 2 units, stream task, a stop may trigger, no fault | `TypeOK`; `BooksAgree`: at rest and not halted, the open quantity is the exchange's; `HeldIsProtected`: every position has a working stop of its own quantity, and is marked so; `NewBeforeOld`: no step of the program takes away the last stop of a position it goes on holding |
| `faults` | two trades on one symbol, stream task, a trailing stop, one fault anywhere | the first two, and `NoStrayStops`: no stop outlives its position, whatever single request is refused, lost, late, expired or unanswered, while late events and stops of the first trade meet the second; `CoverUntilAlarm`: `NewBeforeOld` for as long as nothing has crashed or triggered and no halt calls for an operator |
| `crash_recovery` | an entry of 2 units, one crash, one fault, stream task | `SentAtMostOnce`: an id never puts more on the exchange than its row was approved for; `LedgerNeverAhead`: no row and no waiting event holds a fill the exchange has not made; `NakedRaisesAlarm`: at rest an uncovered short has halted the program; `NewBeforeOld` |
| `liveness` | one unit, entry and exit, periodic reconcile, one crash, one fault, one trigger | `QueueSpec`: the order manager implements `SignalQueue`; `ClosingResolves`: no position stays "closing"; `NakedNoticed`: an uncovered short is closed, covered or halted; `LeftoverCancelled`: a stop left behind is swept; `SentAtMostOnce` for exits too |
| `live_service` | history of 1 and 2 signals, batches of 2, one crash | `QueueSpec`: the service implements `SignalQueue`; `HaltUntilProven`: without a stream halt the loop trades on a stream a reconcile confirmed since it connected |
| `service_liveness` | an entry and its exit | `OutboxDrains`: no lost quote, failing read, halt or dead task holds the outbox up for ever; `ReconcileHaltClears` |
| `trail_protection` | two decisions of two prices, two faults or crashes | `FirstArmFailsClosed`: once an armed decision that does not return is taken for settled, the position has a trailing stop or a halt that stays; `ArmResolves`; `OrphansSwept` |
| `paper` | two symbols, two accounts, four candles each, one failed commit, one crash | `ExitedStaysOut`: what the live process was told to leave is never held or left again; `EntriesSpaced`: cool-down and daily cap hold between published entries; `MasterIsTheStrategy`; `ProtectionNamesHeld`; `WithinEquity` |
| `pump_watch` | three confirm candles and the times between, two heights, one crash | `AlertsSpaced`: of two alerts of one event and level the later stands at a higher high, a cooldown after the earlier; `HighPumpOnce`; `RowIsMemory`: between events the row is the event, so a restart goes on where the process stopped; `OneLiveRow`; `CompletedIsFinal` |

Three runs refute a sentence of the repository by a behaviour of the code (quoted in
`PROJECT.json`, `findings`):

| run | refuted | what happens |
|---|---|---|
| `torn_snapshot` | "every real position has a structure stop hosted by the exchange" (`NakedRaisesAlarm` with the periodic reconcile) | the reconcile reads positions before an entry fills and orders after its stop is placed; it closes the new position as flat, cancels its stop, and nothing halts until the next reconcile. `NakedNoticed` shows that the gap ends |
| `stuck_halt` | "a lost private stream pauses entries, which resume by themselves" (`StreamHaltClears`) | the reconcile that follows the reconnect fails once; the stream is up, later reconciles are not stream-confirmed, and the halt stays |
| `half_open` | "position + signal writes stay atomic per symbol" (`NothingHalfOpen`) | a commit fails between the row of a closed position and its exit signal: the live process was told to enter and is never told to exit |

The first row is why `crash_recovery` checks `NakedRaisesAlarm` with the stream task only: a
reconcile that follows an event can be torn only by a fill that is itself followed by an event
and another reconcile, and the run shows that this repairs it before the program is at rest.

### Other behaviours the models allow

Met while modelling, worth a reviewer's attention, and without a run of their own:

- a reconcile takes over the exchange's quantity without marking the fill applied; the event
  that follows adds it again, until the reconcile after that event (`oms.py` 1598-1611, 1402);
- the halt is checked before the leverage call is awaited and not after it, so an entry may
  leave while a halt stands (`oms.py` 399-443);
- a crash after `save_order` and before `save_position`: recovery finds nothing to apply, and
  the short becomes an orphan with a halt (`oms.py` 861-862);
- a partly filled entry is booked and its exit executed; the rest fills later and makes a
  position whose exit signal is spent;
- if that late fill comes while the next trade of the symbol is held, the ledger refuses its
  row (`idx_live_positions_open_symbol`), memory and table part, and the models stop
  (`OnlyHeld`);
- an added fill resizes the structure stop and not the trailing stop;
- the halt `trail_replace_unresolved` is cleared by a reconcile because the *old* stop works;
- a crash after a structure stop was sent and before the answer is saved: the reconcile finds
  the stop listed and leaves `protected` false, so `update_trail` refuses to arm, and a
  quantity halt of the symbol does not clear (`oms.py` 1283, 1643-1650). This is why
  `HeldIsProtected` asks for the mark only as long as nothing has crashed;
- a new structure stop is refused, the emergency close is refused as well, and the same happens
  once more in the next reconcile: there the stop of the earlier quantity, the only one that
  works, is recorded nowhere and swept as an orphan (`oms.py` 1585-1592, 1657-1681). The halt
  stands, but the rest of the short is naked. Four faults, beyond the bounds of `NewBeforeOld`;
  the halt of the first emergency close came before, so `CoverUntilAlarm` is not contradicted;
- a decision of the paper engine that returns: the protection cache compares price and arming
  and not the time of the decision, and an update during which a halt came or went leaves it as
  it was. Arm, a disarm of that kind, and arm at the same price before the next sync: the sync
  sees no difference, and the stop the disarm cancelled is not placed again, without a halt
  (`service.py` 1388-1391, 1438-1457; the arming can change at one price because it also depends
  on the flow, `board_waterfall.py` 414-443). The window is one poll: a backoff of the source
  database, or a long wait for the lock, opens it. `Returned` excepts it from `FirstArmFailsClosed` and
  `ArmResolves`; with `MaxDecisions = 3`, `MaxFaults = 1` TLC finds both true with the exception
  (495,968 states, three minutes) and the first one false without it, in 2 seconds;
- a row that stayed open because its last write failed comes back at a restart and replaces the
  newer position of its symbol in the board engine's memory (`data/store.py` 1105);
- a discovery refreshes a completed pump event and does not look at its status, so a symbol
  that rises again is not followed until that event expires or the process restarts
  (`engine/signal_engine.py` 195), although `docs/lifecycle_experiments.md:10` wants every coin
  that has risen in the shadow watch; and an alert whose marks are stored when the process dies
  is never handed out (`live.py` 65-70).

### Bounds

- `Lot` = 2 where partial fills matter: one fill that settles and one that comes late is the
  shape of every partial-fill hazard here. `Lot` = 1 elsewhere.
- `MaxIds` (numbered ids per trade and role) is 3 in `private_stream` and 2 in the others,
  where no reachable state without a crash needs a third emergency close or flattening order;
  in `crash_recovery` a branch ends at its third emergency close.
- `crash_recovery` has no exit signal, so that a partly filled entry, its flattening, a crash
  and the orders recovery does not load fit; exits meet crashes in `liveness`.
- A stop may trigger in `private_stream` and `liveness`. In `crash_recovery` it would end
  `NewBeforeOld`: if the new, smaller stop triggers before the old one is cancelled, the cancel
  takes the last stop of a short that a torn snapshot made too small in the books.
- One fault, trigger and crash each: the code claims to survive any single failure. The
  properties about the program at rest do not depend on it: they are proved for every number of
  faults, triggers and crashes (section 5). Two faults in `trail_protection`, where the failsafe
  is itself the answer to a first fault.
- `live_service` has one signal of history and two after it, so that a batch ends before, at
  and after the cursor's start; `service_liveness` has the shortest outbox whose exit needs a
  quote.
- `paper` has four candles: an entry, an exit, a cool-down and a second entry, with day breaks
  in between; two accounts, the one that copies the strategy and one that sizes by itself.
- `pump_watch` has three confirm candles and six instants: a route of two bars, an alert, a new
  high, a cooldown of two candles that ends or not, an event that expires after four instants,
  and a discovery every second instant. The gain a signal needs is that of the lowest height,
  so that both model families may speak of every event.
- `CHECK_DEADLOCK FALSE` wherever it is set: outboxes, candles and time are finite, and a
  process that has handled them is idle, as it should be.

### Fairness

- `LiveOrderManager!LiveSpec`: asyncio resumes a coroutine whose await is answered, and
  `asyncio.Lock` is first come first served: weak fairness of handler steps, `Release`,
  `HandleEvent`, `Reconnect` and the reconcile. systemd restarts the process
  (`Restart=always`): weak fairness of `Boot`. The exchange executes or ends every market order
  and a request in transit arrives: strong fairness of `ExchangeExecutes`, strong because
  segments without an await disable it time and again. Nothing obliges the exchange to trigger
  a stop, the source to send a signal, the stream to fail or the process to crash.
- `LiveService!LiveSpec`: the loop goes on and is restarted (weak); a read, a reconcile or the
  quote of a position to close that is tried for ever succeeds some time (strong). Quotes of
  entries need not come: an entry gets too old instead.
- `LiveService!StreamSpec` adds the same for the private-stream task, so that `stuck_halt` is
  not a run in which nothing ever works.
- `TrailProtection!LiveSpec`: sync and reconcile go on, quotes come some time.

## 4. The abstract specification and its refinements

`SignalQueue` has four variables: the outbox, the signal the live process is at, the signals
taken, an alarm. `Take` hands a signal to the order manager, `Pass` moves on (only if the
signal was taken, is no exit, or an alarm stands), `TakeAndPass` does both where the code has
no await in between, `Deploy` starts behind the history, `Publish` appends.

| implementation | `next` | `taken` | `alarm` |
|---|---|---|---|
| `LiveService` | `cursor + 1`, or 0 until the first cursor is saved | rows whose intent is saved | the manual halt |
| `LiveOrderManager` | `cursor` | signals whose client id is in `live_intents` | never: inside the handlers no exit is passed over at all |

## 5. What is proved

Every theorem holds for every value of the constants (any finite set of trades, any
quantities, outbox, batch size, number of faults, triggers and crashes); the assumptions are
the named `ASSUME`s of the modules, which say no more than the types of the constants.

- `TypeCorrect` (`LiveOrderManagerTypes`): inductive because of one conjunct,
  `agenda \in Seq(StepsOf(owner))`. A segment run later finds the order, position or stop it
  reads because the segment that left it on the agenda put it there, and only a task that
  reconciles has segments that read a snapshot.
- `LedgerNeverAheadHolds` (`LiveOrderManagerLedger`): from the types and itself. Rows are
  written from REST answers (the exchange's row of that moment), from events (its row of an
  earlier moment, hence the conjunct on waiting events) and by applying fills the row holds;
  the exchange never takes a fill back.
- `SentAtMostOnceHolds` (`LiveOrderManagerLedger`): the agenda submits an id once and first (only
  `configure` may come before, `SubmitsFirst`), and only while neither the exchange nor a
  request under way knows the id (`Unsent`). A saved row never counts as unused again, because
  rows are rewritten from answers and events that know the order (`RowsSound`, `EventsSound`);
  an id has one request under way, and then nothing on the exchange (`RequestsSound`). A new id
  is unused: that of a signal because saved rows have saved intents, a timed one because the
  ids of a trade and role are used in order (`IdsSound`), so that counting them names a fresh
  one (`FreshIsNew`).
- `BooksAgreeAtRest` (`BooksAgree`), `HeldProtected` (`HeldIsProtected`), `StrayStopsSwept`
  (`NoStrayStops`) and `NakedHasHalted` (`NakedRaisesAlarm`), all from `SettledInvariant`
  (`LiveOrderManagerSettled`): what the order manager promises once it is at rest, for any
  number of trades, faults, triggers and crashes. They assume `StreamOnly`, that the stream task
  runs and the periodic reconcile does not (`Background = {"private"}`): with it the last one is
  false, as `torn_snapshot` shows. Nothing is assumed of the exchange. The argument:
  - whatever changes a short or a stop puts an event into the stream that makes the program
    read the account again (`Hint`), so as long as no such event waits, the snapshot being read
    or applied *is* the account (`SnapshotFresh`);
  - `Calm` is a state in which nothing is promised any more: the stream is up, no such event
    waits, no snapshot is wanted, no halt stands that a reconcile cannot lift, and no step left
    on the agenda will halt. `CalmSound` says what then holds: outside a reconcile `IdleSound`,
    every position is covered by its stop or about to be, the quantities agree or a stop is
    about to move, and a stop nobody records is being replaced or cancelled; inside one
    `ApplySound`, which says for each stage of the reconcile what is done already (flat
    positions closed, positions compared in turn, strays cancelled);
  - a segment can only begin a calm by beginning to apply a fresh snapshot. Every other one
    keeps its part of `CalmSound`, or emits an event, halts, or leaves the step that will
    (one lemma per action);
  - for that, the agenda needs a shape (`ShapeSound`: which steps come last, in front, once per
    position), the steps on it speak of positions that are held (`HeldSound`), and a position
    that is not marked as protected is being protected, closed, or has halted the program
    (`ProtSound`, `ClosingSound`); `LockSound` says who may hold the lock and who reads the
    account while the process starts, loses the stream and recovers it.

  At rest nothing waits and nothing is left on the agenda, so the calm has come. A symbol has at
  most one position (`OneHeld`), which makes the sum in `BooksAgree` one over no element or one.
- `CoveredUntilAlarm` (`CoverUntilAlarm`, in `LiveOrderManagerCover`): what is true of
  `NewBeforeOld` for any number of refused, lost and late requests, also under `StreamOnly`. On
  top of `SettledInv` it needs `CoverInv`: a position marked as protected has a stop that works
  (`Protected`); a stop is cancelled only where every position of its symbol is protected by
  another one (`Spared`); nothing comes between the decision to cancel and the cancel, since
  cancels are at the front of the agenda (`CancelsFirst`); a placement that fails falls back on
  a stop that still works (`OldKept`). The orphan sweep spares because by then every position is
  marked as protected, or is being closed with a halt (`ProtSound`); `_cancel_position_algos`,
  because the position that ends was the only one of its symbol (`OneHeld`, `FlatAlone`). The
  three exceptions are those of the code: a trigger takes a stop by itself, a crash leaves a
  position whose stop is not recorded as working, and after a halt of kind `Manual` the operator
  has been called (the four faults of section 3).
- `ImplementsQueue` (`LiveOrderManagerLedger`): the refinement above. Besides the types it needs
  that a signal a handler works on has been saved (`SignalSaved`); every step but those of the
  signal loop leaves the queue alone.
- `TypesHold`, `HaltsUntilProven`, `ServiceImplementsQueue` (`LiveServiceProofs`): the
  inductive invariants are `Follows` (the batch is the piece of the outbox behind the cursor),
  `Supervised` (the tasks run in the loop only, and a stream being reconnected has its halt)
  and `Handled` (a signal whose cursor is about to be saved may be passed).
- `TrailTypes`, `FirstArmCloses` (`TrailProtectionProofs`): the property speaks of the moment
  the cache equals the decision that counts; the invariant of what the cache alone tells
  (`Guarded`): an armed decision was settled with a stop, an exit or a halt that stays, and the
  only step that takes the stop away works on a later, different decision (`Behind`). A spent
  exit closed the position or halted (`Spent`), and the old stop is kept only where there is
  one (`Keeps`). `NoneAssumption` says that no decision and no stop is `None`.

- `PumpMonitorProofs`: `WatchTypes`, `RearmedOnlyByNewHigh` (`AlertsSpaced`),
  `HighPumpOncePerEvent` (`HighPumpOnce`), `NothingToForget` (`RowIsMemory`), `OneRowToFollow`
  (`OneLiveRow`) and `CompletedStaysOut` (`CompletedIsFinal`). One invariant carries them all:
  the row and the event in memory carry the mark of every alert that was sent (`MarksTell`);
  the alert at hand is that of the event, already marked, and may follow all that went out
  (`JobFits`, `OneAfterAnother`); outside the storing step the row is the event, and a step
  never takes back what is stored (`Stored`); a row a restart would follow is that of the event
  in memory (`LiveIsEvent`). The first statement of `AlertsSpaced` compared the *times* of the highs,
  and the attempt to prove it showed why it is not inductive: a discovery dates the high with
  the close of the last candle it read, and a replay of that very candle with a higher wick
  dates the new high with the same instant. The highs themselves do rise, and that is what is
  now stated, checked and proved.
- `PaperMonitorProofs`, first part: `MonitorTypes`, `ExitedIsOut` (`ExitedStaysOut`),
  `PublishedEntriesSpaced` (`EntriesSpaced`) and `ProtectionOfHeld` (`ProtectionNamesHeld`), from
  the invariant `IInv`. Its conjuncts follow a position through the five commits: what the
  engine holds is open wherever it is stored (`Held`, `StoredRows`); a job is the row of an exit
  first, then of the position now held (`JobRows`); a signal's row is stored, or waits in front
  of it (`JobSignals`), so what is in the outbox is in the rows (`Outboxed`), which is what a
  restart reads; an open row is that of the position held as long as no commit failed
  (`OneOpenRow`). That no two exits of a symbol carry one minute (in `StoredRows`) is needed
  because the rebuild orders events by time.
- `PaperMonitorProofs`, second part: `MasterCopiesStrategy` (`MasterIsTheStrategy`) and
  `CommittedWithinEquity` (`WithinEquity`). `CopyInv` says that the 20% account is behind the
  strategy by the signals of the event at hand and by nothing else (`MasterFollows`), and that
  what the strategy has just entered it can pay (`SizedWithin`). Two arguments go by induction
  over finite sets. `Total`, a fold in an order the definition leaves open, gets its laws
  (`TotalPut`, `TotalWithout`, `TotalRenamed`). `Replay`, a function over sets of events, is
  shown to bring the 20% account to the open rows and the profits of the closed ones
  (`ReplayCopies`), because events of tidy rows are totally ordered and an entry comes before
  its exit. The library's induction theorems take a predicate, which the provers here cannot
  instantiate; well-founded induction is instead stated once about *sets* (`LeastNumber`,
  `EverySubset`: a set of subsets of a finite set that contains each subset whose smaller
  neighbours it contains has them all), and a predicate becomes the set of subsets it holds for.

Assumptions the proofs made explicit: the last tier of a drawdown ladder exists and its figures
are numbers (`AccountAssumption`), there is at least one minute (`MonitorAssumption`), `None` is
no event (`NoneAssumption` of `PumpMonitor`), and an order the exchange made itself carries no
id of the program, nor does a position without a stop record one (`NoOrderAssumption`,
`NoAlgoAssumption` of `BinanceAccount`). TLC evaluates all of them.

Only model-checked: `NewBeforeOld`, which is no theorem, and the liveness properties (liveness
under fairness and `ENABLED` are out of the prover's reach). `NewBeforeOld` holds within the
bounds of its runs and not beyond: with four faults TLC refutes it in 44 steps (section 3,
other behaviours). Its runs add what `CoverUntilAlarm` leaves out: one trigger, one crash. No module declares a recursive operator; the recursive functions are
bounded.

## 6. What is not modelled, and why

- In the order manager: the `maker_first` and `ioc` policies (not configured), prices,
  realised PnL, income, NAV and sizing (decimal arithmetic on balances the exchange reports,
  which decides only whether an entry is declined), and what a process does after the ledger
  refused a second open row of a symbol.
- In the gateway: the trade WebSocket's table of futures (orders go over REST), the rate
  limiter and the retries of idempotent reads, which an answer that comes or does not covers.
- In the ledger: fills, income and outcomes, which carry figures only; the authorisation nonce,
  one `UPDATE` in one transaction used by an operator before anything runs.
- In the service: the base class's own signal source, an in-process engine that is not
  configured.
- In the paper process: what prices decide within a candle, the candle window, watch rows,
  heartbeats; the legacy engine, the long line and the legacy and v2 modes of the signal
  engine, which the shipped settings switch off.
- Backtests, `ml_experiments`, training, dashboard, command line, smoke test, configuration,
  notifications: offline numeric scripts, rendering or validation without behaviour over time.
  They are most of the repository's lines.

## 7. What remains

1. What is true of `NewBeforeOld` after a crash or a trigger, for every number of faults; and
   the promises at rest with the periodic reconcile, up to the torn snapshot.
2. The state after a refused position row in `LiveOrderManager`, and two-symbol instances.
3. `maker_first` and `ioc`, should they be configured.
