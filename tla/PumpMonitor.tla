----------------------------- MODULE PumpMonitor -----------------------------
(***************************************************************************)
(* The pump watch: monitor of live.py with SignalEngine of                 *)
(* engine/signal_engine.py, in the configuration of settings.json (ml mode,*)
(* lifecycle router, no long line), and the tables it restarts from.       *)
(*                                                                         *)
(* A symbol that qualifies gets an event; its closed candles move the      *)
(* event's high and may raise alerts, each level once per high and not     *)
(* within the cooldown.  Symbols do not meet in the engine, so there is    *)
(* one.  What the models say of a candle is a choice.                      *)
(*                                                                         *)
(* Candle k of the confirm interval closes at time 2k; the odd times are   *)
(* those of the faster interval, which moves the high and no more.  The    *)
(* process waits for candles, and now and then closes its source, runs a   *)
(* discovery, reads the candles it missed, and opens another source.       *)
(***************************************************************************)
EXTENDS Integers, Sequences, FiniteSets

CONSTANTS
    Heights,     \* prices, in steps of new_high_reset_pct
    Mature,      \* lifecycle_pump_signal_min_gain_pct, as a height
    HighPump,    \* lifecycle_high_pump_min_gain_pct, as a height
    Families,    \* what the router may call a symbol, when it is not in doubt
    ConfirmBars, \* lifecycle_route_confirm_bars
    Cooldown,    \* multi_signal_cooldown_hours
    ActiveFor,   \* active_hours
    DiscoverEvery, \* discover_every
    MaxTime,     \* bound: time
    MaxCrashes,  \* bound: crashes
    None

ASSUME PumpAssumption ==
    /\ Heights \subseteq Nat \ {0} /\ Heights # {}
    /\ Families \subseteq {"fast_dump", "slow_distribution", "second_distribution",
                        "continuation"}
    /\ {Mature, HighPump, MaxCrashes} \subseteq Nat
    /\ {ConfirmBars, Cooldown, ActiveFor, DiscoverEvery, MaxTime} \subseteq Nat \ {0}

VARIABLES
    clock,
    candles,  \* highs of the closed candles, by number
    forming,  \* high so far of the candle that is not closed
    event,    \* events_by_symbol, or None
    seen,     \* buffer_times: candles the engine has
    watched,  \* the source subscribes to the symbol
    next,     \* next_discovery
    arriving, \* the source holds the candle that has just closed
    pc, job,  \* what the process does next, and with what
    rows,     \* pump_events by event id
    sent,     \* alerts handed to AlertSink
    crashes

market == <<clock, candles, forming>>
engine == <<event, seen>>
source == <<watched, arriving, next>>
vars == <<market, engine, source, pc, job, rows, sent, crashes>>

Times == 0..MaxTime
Levels == {"early_alert", "short_signal"}
Candidates == Families \cup {"unknown"}
Larger(x, y) == IF x > y THEN x ELSE y
Put(f, k, v) == [i \in DOMAIN f \cup {k} |-> IF i = k THEN v ELSE f[i]]
NoJob == [alerts |-> <<>>, then |-> "idle"]

-----------------------------------------------------------------------------
(***************************************************************************)
(* A PumpEvent.  Time 0 stands for no time.                                *)
(***************************************************************************)
PumpEvent ==
    [id : Times, st : {"active", "closed"}, expires : Nat, high : Heights,
     highTime : Times, alerted : [Levels -> Times], last : [Levels -> Times],
     candidate : Candidates, streak : 0..ConfirmBars, emitted : SUBSET Levels]
ASSUME NoneAssumption == None \notin PumpEvent

NewEvent(high) ==
    [id |-> clock, st |-> "active", expires |-> clock + ActiveFor,
     high |-> high, highTime |-> clock,
     alerted |-> [l \in Levels |-> 0],  \* alerted_after_high_time
     last |-> [l \in Levels |-> 0],     \* last_alert_time
     candidate |-> "unknown", streak |-> 0,
     emitted |-> {}]                    \* high_pump_..._emitted

\* Followed at time t: active, and not expired.
Followed(e, t) == e # None /\ e.st = "active" /\ e.expires >= t

\* A candle (or a discovery) at time t that reached height h.
Observed(e, h, t) ==
    IF h <= e.high THEN e
    ELSE [e EXCEPT !.high = h, !.highTime = t, !.alerted = [l \in Levels |-> 0],
                   !.expires = Larger(@, t + ActiveFor)]

\* (mutant: a new high is enough)
OncePerHigh(e, l, t) == e.alerted[l] # e.highTime
\* _can_emit_pump_signal
CanEmit(e, l, t) ==
    /\ e.alerted[l] # e.highTime
    /\ e.last[l] = 0 \/ t - e.last[l] >= Cooldown

\* (mutant: the streak is not bounded)
RoutedOn(e, candidate) ==
    [e EXCEPT !.candidate = candidate,
              !.streak = IF candidate # e.candidate THEN 1 ELSE @ + 1]
\* _update_lifecycle_route; a streak beyond ConfirmBars tells nothing more, and
\* one the code leaves while the candidate is unknown is not read.
Routed(e, candidate) ==
    LET streak == IF candidate = "unknown" THEN 0
                  ELSE IF candidate # e.candidate THEN 1
                  ELSE IF e.streak < ConfirmBars THEN e.streak + 1 ELSE e.streak
    IN [e EXCEPT !.candidate = candidate, !.streak = streak]
RouteMode(e) == IF e.streak >= ConfirmBars THEN e.candidate ELSE "unknown"

-----------------------------------------------------------------------------
(***************************************************************************)
(* _lifecycle_signals: the outcomes of a candle of the confirm interval.   *)
(***************************************************************************)
Outcome(e, alerts) == [event |-> e, alerts |-> alerts]
Alert(e, l, model, t) ==
    [id |-> e.id, level |-> l, model |-> model, time |-> t, high |-> e.high]

\* _make_lifecycle_alert and _mark_pump_signal
Alerted(e, l, model, t) ==
    Outcome([e EXCEPT !.alerted[l] = e.highTime, !.last[l] = t],
            <<Alert(e, l, model, t)>>)

\* (mutant: only the level's own flag is looked at)
EachLevelOnce(e, t) ==
    IF e.high < HighPump THEN {}
    ELSE {l \in Levels \ e.emitted : CanEmit(e, l, t)}
\* _high_pump_lifecycle_signals: each level once, and nothing after a short.
HighPumpLevels(e, t) ==
    IF e.high < HighPump \/ "short_signal" \in e.emitted THEN {}
    ELSE {l \in Levels \ e.emitted : CanEmit(e, l, t)}
HighPumpAlerts(e, t) ==
    {Alerted([e EXCEPT !.emitted = @ \cup {l}], l, "high_pump", t) :
       l \in HighPumpLevels(e, t)}

RouterAlerts(e, t) ==
    LET levels == CASE RouteMode(e) = "fast_dump" -> Levels
                    [] RouteMode(e) = "slow_distribution" -> {"short_signal"}
                    [] OTHER -> {}
    IN {Alerted(e, l, "router", t) : l \in {x \in levels : CanEmit(e, x, t)}}

Outcomes(e, t) ==
    LET routed == {Routed(e, c) : c \in Candidates}
        completed == {[r EXCEPT !.st = "closed"] : r \in routed}
    IN {Outcome(x, <<>>) : x \in {e} \cup routed \cup completed}
       \cup UNION {HighPumpAlerts(r, t) \cup RouterAlerts(r, t) :
                     r \in {x \in routed : x.high >= Mature}}

\* (mutant: an event is stored when something shows)
OnSignal(confirm, newHigh, alerts) == newHigh \/ alerts # <<>>
\* Whether on_kline returns the event as changed.
Changed(confirm, newHigh, alerts) == confirm \/ newHigh \/ alerts # <<>>

\* on_kline with a candle of high h, closed now.
OnKline(h, confirm) ==
    IF ~Followed(event, clock)
    THEN UNCHANGED <<event, pc, job>>
    ELSE LET e == Observed(event, h, clock)
         IN \E o \in IF confirm THEN Outcomes(e, clock) ELSE {Outcome(e, <<>>)} :
              LET changed == Changed(confirm, h > event.high, o.alerts)
                  then == IF o.alerts = <<>> THEN "idle" ELSE "emit"
              IN /\ event' = o.event
                 /\ pc' = IF changed THEN "store" ELSE then
                 /\ job' = [alerts |-> o.alerts, then |-> then]

Number == clock \div 2
Closes == clock % 2 = 0

Kline ==
    /\ pc = "idle" /\ arriving
    /\ arriving' = FALSE
    /\ IF Number \in seen THEN UNCHANGED <<event, pc, job, seen>>
       ELSE seen' = seen \cup {Number} /\ OnKline(candles[Number], TRUE)
    /\ UNCHANGED <<market, watched, next, rows, sent, crashes>>

FastKline ==
    /\ pc = "idle" /\ watched /\ ~Closes
    /\ \E h \in Heights :
         /\ forming' = Larger(forming, h)
         /\ OnKline(h, FALSE)
    /\ UNCHANGED <<clock, candles, seen, source, rows, sent, crashes>>

\* upsert_pump_events
Store ==
    /\ pc = "store"
    /\ rows' = Put(rows, event.id, event)
    /\ pc' = job.then
    /\ UNCHANGED <<market, engine, source, job, sent, crashes>>

\* emit_alerts
Emit ==
    /\ pc = "emit"
    /\ sent' = sent \o job.alerts
    /\ pc' = "idle" /\ job' = NoJob
    /\ UNCHANGED <<market, engine, source, rows, crashes>>

-----------------------------------------------------------------------------
(***************************************************************************)
(* The discovery cycle.                                                    *)
(***************************************************************************)

\* (mutant: every discovery makes an event)
AlwaysNew(price) == NewEvent(price)
\* (mutant: an event that is over is opened again)
Reopened(price) ==
    IF event # None /\ event.expires >= clock
    THEN [Observed(event, price, clock) EXCEPT !.st = "active",
                                               !.expires = Larger(@, clock + ActiveFor)]
    ELSE NewEvent(price)
\* on_discovery, for a record that qualifies: whether the event is closed is
\* not looked at.
Discovered(price) ==
    IF event # None /\ event.expires >= clock
    THEN [Observed(event, price, clock) EXCEPT !.expires = Larger(@, clock + ActiveFor)]
    ELSE NewEvent(price)

DiscoveryDue == pc = "start" \/ (pc = "idle" /\ clock >= next)
CloseSource == watched' = FALSE /\ arriving' = FALSE

Qualifies ==
    /\ DiscoveryDue /\ CloseSource
    /\ \E price \in Heights :
         /\ forming' = Larger(forming, price)
         /\ event' = Discovered(price)
    /\ pc' = "store" /\ job' = [NoJob EXCEPT !.then = "prewarm"]
    /\ UNCHANGED <<clock, candles, seen, next, rows, sent, crashes>>

DoesNotQualify ==
    /\ DiscoveryDue /\ CloseSource
    /\ pc' = "prewarm"
    /\ UNCHANGED <<market, engine, next, job, rows, sent, crashes>>

\* prime_candles: of the candles the engine does not have, the first of the
\* highest leaves its mark; the event is followed throughout the replay.
Missed == 1..Number \ seen
Peaks == {k \in Missed : \A i \in Missed :
            candles[i] <= candles[k] /\ (candles[i] = candles[k] => k <= i)}
Primed == IF Missed = {} THEN {event}
          ELSE {Observed(event, candles[k], 2 * k) : k \in Peaks}

\* prewarm_active_events: the faster interval shows the candle that forms.
Prewarm ==
    /\ pc = "prewarm"
    /\ \/ /\ Followed(event, clock)
          /\ \E e \in Primed :
               event' = IF Closes THEN e ELSE Observed(e, forming, clock)
          /\ seen' = seen \cup 1..Number
          /\ pc' = "store" /\ job' = [NoJob EXCEPT !.then = "watch"]
       \/ \* Nothing to follow, or no candles to be had.
          /\ pc' = "watch"
          /\ UNCHANGED <<engine, job>>
    /\ UNCHANGED <<market, source, rows, sent, crashes>>

\* build_watch_symbols: what the discovery selected and what is followed.
Watch ==
    /\ pc = "watch"
    /\ \E selected \in BOOLEAN : watched' = (selected \/ Followed(event, clock))
    /\ next' = clock + DiscoverEvery
    /\ pc' = "idle" /\ job' = NoJob
    /\ UNCHANGED <<market, engine, arriving, rows, sent, crashes>>

-----------------------------------------------------------------------------
\* Time passes; a candle the source does not hand over before the next is lost
\* with its connection.
Tick ==
    /\ clock < MaxTime /\ pc \in {"idle", "prewarm", "watch"}
    /\ clock' = clock + 1
    /\ IF Closes
       THEN arriving' = FALSE /\ UNCHANGED <<candles, forming>>
       ELSE \E h \in {x \in Heights : x >= forming} :
              /\ candles' = Append(candles, h)
              /\ forming' = 0
              /\ arriving' = watched
    /\ UNCHANGED <<engine, watched, next, pc, job, rows, sent, crashes>>

\* active_pump_events
LiveRows == {r \in {rows[id] : id \in DOMAIN rows} : r.st = "active" /\ r.expires >= clock}
Loaded ==
    IF LiveRows = {} THEN None
    ELSE CHOOSE r \in LiveRows : \A x \in LiveRows : x.id <= r.id

\* A crash, or an exception that ends monitor, and the start that follows.
Restart ==
    /\ crashes < MaxCrashes
    /\ crashes' = crashes + 1
    /\ event' = Loaded /\ seen' = {}
    /\ CloseSource
    /\ pc' = "start" /\ job' = NoJob /\ next' = 0
    /\ UNCHANGED <<market, rows, sent>>

Init ==
    /\ clock = 1 /\ candles = <<>> /\ forming = 0
    /\ event = None /\ seen = {}
    /\ watched = FALSE /\ arriving = FALSE /\ next = 0
    /\ pc = "start" /\ job = NoJob
    /\ rows = << >> /\ sent = <<>> /\ crashes = 0

Next ==
    \/ Kline \/ FastKline \/ Store \/ Emit
    \/ Qualifies \/ DoesNotQualify \/ Prewarm \/ Watch
    \/ Tick \/ Restart

Spec == Init /\ [][Next]_vars

-----------------------------------------------------------------------------
(***************************************************************************)
(* Properties.                                                             *)
(***************************************************************************)
(* Type invariant of the pump watch. *)
TypeOK ==
    /\ clock \in Times /\ candles \in Seq(Heights) /\ Len(candles) = Number
    /\ forming \in Heights \cup {0}
    /\ event = None \/ event \in PumpEvent
    /\ seen \subseteq 1..Number /\ {watched, arriving} \subseteq BOOLEAN
    /\ pc \in {"start", "idle", "store", "emit", "prewarm", "watch"}
    /\ job.then \in {"idle", "emit", "prewarm", "watch"}
    /\ \A id \in DOMAIN rows : rows[id] \in PumpEvent /\ rows[id].id = id
    /\ next \in Nat /\ crashes \in 0..MaxCrashes

(* "rearms only after new high and cooldown": of two alerts of one event and
   level the later stands at a higher high, a cooldown after the earlier,
   whatever discoveries, replays of missed candles and restarts lie between
   them.  The engine compares the times of the highs, which a replay sets back. *)
AlertsSpaced ==
    \A i, j \in DOMAIN sent :
      i < j /\ sent[i].id = sent[j].id /\ sent[i].level = sent[j].level =>
        /\ sent[i].high < sent[j].high
        /\ sent[j].time - sent[i].time >= Cooldown

(* The high pump models warn once and call a short once for an event, and do
   not warn after the short, across restarts: the flags are stored with it. *)
HighPumpOnce ==
    \A i, j \in DOMAIN sent :
      i < j /\ sent[i].id = sent[j].id
      /\ sent[i].model = "high_pump" /\ sent[j].model = "high_pump" =>
        sent[i].level = "early_alert" /\ sent[j].level = "short_signal"

(* Between events the stored row is the event the engine works with, its marks
   and its route included: a restart goes on where the process stopped. *)
RowIsMemory ==
    pc = "idle" /\ event # None => rows[event.id] = event

(* A symbol has at most one row a restart would follow, so none is followed
   twice and no older one shadows it. *)
OneLiveRow == Cardinality(LiveRows) <= 1

(* An event whose completion is stored raises no alert any more and is not
   followed again, although discoveries go on refreshing it. *)
CompletedIsFinal ==
    [][\A id \in DOMAIN rows :
         rows[id].st = "closed" =>
           /\ rows'[id].st = "closed"
           /\ \A i \in DOMAIN sent' \ DOMAIN sent : sent'[i].id # id]_vars
==============================================================================
