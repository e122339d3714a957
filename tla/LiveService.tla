----------------------------- MODULE LiveService -----------------------------
(***************************************************************************)
(* SharedPaperSignalLiveTradingService of service.py: the loop that follows*)
(* the paper monitor's outbox, the task that listens to the private stream,*)
(* the periodic reconcile, and the startup that puts them to work.         *)
(*                                                                         *)
(* The order manager is seen from here only: handle_intent saves the intent*)
(* and opens, closes or leaves a position, or raises; a reconcile succeeds *)
(* or fails.  LiveOrderManager has the inside of those calls.              *)
(***************************************************************************)
EXTENDS Integers, Sequences, FiniteSets

CONSTANTS
    Symbols,
    History,     \* signals in the outbox before the first deployment
    MaxRows,     \* bound: signals published in all
    BatchSize,   \* limit of one read of the outbox
    MaxCrashes   \* bound: process crashes

ASSUME ServiceAssumption ==
    /\ BatchSize \in Nat \ {0}
    /\ History \in Nat /\ MaxRows \in Nat /\ MaxCrashes \in Nat

VARIABLES
    outbox,      \* waterfall_signal_outbox: what the paper monitor published
    aged,        \* signals up to this one are older than max_entry_signal_age
    cursor,      \* ledger: shared_signal_cursor, the last signal passed
    ready,       \* ledger: shared_signal_cursor_initialized
    intents,     \* ledger: signals whose intent was saved
    halts,       \* ledger and memory: reasons in safe_halt_reason
    held,        \* symbols with a live position
    main,        \* where run() is; "down" when there is no process
    batch,       \* signals read and not yet passed
    healthy,     \* _source_healthy
    dbFailed,    \* _source_db_error is set
    private,     \* where the private-stream task is
    periodic,    \* the periodic-reconcile task: "off", "on", "dead"
    fails,       \* _consecutive_reconcile_failures, up to 3
    stream,      \* user stream: "off", "up", "proven" by a reconcile since it
                 \* connected, or "lost" and not yet noticed
    crashes

source == <<outbox, aged>>
ledger == <<cursor, ready, intents, halts>>
loop == <<main, batch, healthy, dbFailed>>
tasks == <<private, periodic, fails>>
vars == <<source, ledger, held, loop, tasks, stream, crashes>>

Row == [seq : 1..MaxRows, sym : Symbols, act : {"open", "close"}]
Halts == {"stream", "reconcile", "manual"}
Running == main \in {"loop", "poll", "row", "oms", "save", "sync", "tasks"}
Up == main # "down"

-----------------------------------------------------------------------------
(***************************************************************************)
(* The paper monitor, seen through its database.  Its health file and the  *)
(* candles it names are as old or as new as they happen to be.             *)
(***************************************************************************)
RowsOf(s) == {i \in DOMAIN outbox : outbox[i].sym = s}
OpenOnPaper(s) ==
    \E i \in RowsOf(s) :
        outbox[i].act = "open" /\ \A j \in RowsOf(s) : j <= i

Publish(s) ==
    /\ Len(outbox) < MaxRows
    /\ outbox' = Append(outbox,
                        [seq |-> Len(outbox) + 1, sym |-> s,
                         act |-> IF OpenOnPaper(s) THEN "close" ELSE "open"])
    /\ UNCHANGED <<aged, ledger, held, loop, tasks, stream, crashes>>

Age ==
    /\ aged < Len(outbox)
    /\ aged' = aged + 1
    /\ UNCHANGED <<outbox, ledger, held, loop, tasks, stream, crashes>>

-----------------------------------------------------------------------------
(***************************************************************************)
(* Reconciles and the halts they clear (recoverable_connectivity_halts).   *)
(***************************************************************************)
\* Mutants: every reconcile proves the stream; only a reconnect clears.
RecoverableAlways(streamConfirmed) == {"reconcile", "stream"}
RecoverableStream(streamConfirmed) == IF streamConfirmed THEN {"stream"} ELSE {}

Recoverable(streamConfirmed) ==
    {"reconcile"} \cup (IF streamConfirmed THEN {"stream"} ELSE {})

ReconcileSucceeds == stream' = IF stream = "up" THEN "proven" ELSE stream

\* The stop of a position fires and the stream or a reconcile tells.
StopFires(s) ==
    /\ s \in held /\ Up
    /\ held' = held \ {s}
    /\ UNCHANGED <<source, ledger, loop, tasks, stream, crashes>>

-----------------------------------------------------------------------------
(***************************************************************************)
(* Startup: _initialize_source_cursor, _start_private_supervision.         *)
(***************************************************************************)
Boot ==
    /\ main = "down"
    /\ main' = "cursor"
    /\ UNCHANGED <<source, ledger, held, batch, healthy, dbFailed, tasks, stream,
                   crashes>>

\* A cursor from an earlier run, or the end of the outbox, saved before ...
InitCursor ==
    /\ main = "cursor"
    /\ IF ready THEN main' = "supervise" /\ UNCHANGED cursor
       ELSE main' = "ready" /\ cursor' = Len(outbox)
    /\ dbFailed' = FALSE
    /\ healthy' \in IF dbFailed THEN BOOLEAN ELSE {healthy}
    /\ UNCHANGED <<source, ready, intents, halts, held, batch, tasks, stream, crashes>>

\* ... the flag that says so: two commits.
MarkReady ==
    /\ main = "ready"
    /\ ready' = TRUE
    /\ main' = "supervise"
    /\ UNCHANGED <<source, cursor, intents, halts, held, batch, healthy, dbFailed,
                   tasks, stream, crashes>>

InitCursorFails ==
    /\ main = "cursor"
    /\ dbFailed' = TRUE /\ healthy' = FALSE
    /\ UNCHANGED <<source, ledger, held, main, batch, tasks, stream, crashes>>

\* connect, then one reconcile, then both tasks; any failure starts again.
Supervise ==
    /\ main = "supervise"
    /\ stream' = "up"
    /\ main' = "prove"
    /\ UNCHANGED <<source, ledger, held, batch, healthy, dbFailed, tasks, crashes>>

SuperviseProves ==
    /\ main = "prove"
    /\ ReconcileSucceeds
    /\ halts' = halts \ Recoverable(TRUE)
    /\ main' = "loop"
    /\ private' = "events" /\ periodic' = "on"
    /\ UNCHANGED <<source, cursor, ready, intents, held, batch, healthy, dbFailed,
                   fails, crashes>>

SuperviseFails ==
    /\ main = "prove"
    /\ stream' = "off"
    /\ main' = "supervise"
    /\ UNCHANGED <<source, ledger, held, batch, healthy, dbFailed, tasks, crashes>>

-----------------------------------------------------------------------------
(***************************************************************************)
(* The loop of run(): health, outbox, supervision of the tasks.            *)
(***************************************************************************)

\* _refresh_source_health, at most once a second.
RefreshHealth ==
    /\ main = "loop"
    /\ healthy' \in {healthy, FALSE, ~dbFailed}
    /\ main' = "poll"
    /\ UNCHANGED <<source, ledger, held, batch, dbFailed, tasks, stream, crashes>>

\* signals_after succeeds, and ends a failure of the source.
Poll ==
    LET last == IF cursor + BatchSize < Len(outbox) THEN cursor + BatchSize
                ELSE Len(outbox)
    IN /\ main = "poll"
       /\ batch' = SubSeq(outbox, cursor + 1, last)
       /\ dbFailed' = FALSE
       /\ healthy' \in IF dbFailed THEN BOOLEAN ELSE {healthy}
       /\ main' = IF batch' = <<>> THEN "sync" ELSE "row"
       /\ UNCHANGED <<source, ledger, held, tasks, stream, crashes>>

\* It raises, or the backoff of an earlier failure has not passed.
PollFails ==
    /\ main = "poll"
    /\ dbFailed' = TRUE
    /\ healthy' = FALSE
    /\ main' = "sync"
    /\ UNCHANGED <<source, ledger, held, batch, tasks, stream, crashes>>

PollWaits ==
    /\ main = "poll" /\ dbFailed
    /\ main' = "sync"
    /\ UNCHANGED <<source, ledger, held, batch, healthy, dbFailed, tasks, stream, crashes>>

row == Head(batch)
AtRow(act) == main = "row" /\ row.act = act

\* Mutant: an entry is never too old.
NeverStale == FALSE
Stale == row.seq <= aged

\* Mutant: the cursor is one too far.
PassRowAndNext ==
    /\ cursor' = row.seq + 1
    /\ batch' = Tail(batch)
    /\ main' = IF Tail(batch) = <<>> THEN "sync" ELSE "row"

PassRow ==
    /\ cursor' = row.seq
    /\ batch' = Tail(batch)
    /\ main' = IF Tail(batch) = <<>> THEN "sync" ELSE "row"

\* _skip_signal: a stale entry, an unhealthy source, a halt.
SkipEntry ==
    /\ AtRow("open")
    /\ Stale \/ ~healthy \/ halts # {}
    /\ PassRow
    /\ UNCHANGED <<source, ready, intents, halts, held, healthy, dbFailed, tasks,
                   stream, crashes>>

\* _execute_flat_exit_without_market: the check and the intent, one segment.
FlatExit ==
    /\ AtRow("close") /\ row.sym \notin held
    /\ intents' = intents \cup {row}
    /\ main' = "save"
    /\ UNCHANGED <<source, cursor, ready, halts, held, batch, healthy, dbFailed,
                   tasks, stream, crashes>>

NeedsQuote ==
    /\ main = "row"
    /\ IF row.act = "open" THEN ~Stale /\ healthy /\ halts = {}
       ELSE row.sym \in held

Quote ==
    /\ NeedsQuote
    /\ main' = "oms"
    /\ UNCHANGED <<source, ledger, held, batch, healthy, dbFailed, tasks, stream, crashes>>

\* Mutant: a signal without quotes is passed over.
QuoteFailsPasses ==
    /\ NeedsQuote
    /\ PassRow
    /\ UNCHANGED <<source, ready, intents, halts, held, healthy, dbFailed, tasks,
                   stream, crashes>>

\* market_unavailable: nothing reached the order manager, the cursor stays.
QuoteFails ==
    /\ NeedsQuote
    /\ batch' = <<>>
    /\ main' = "sync"
    /\ UNCHANGED <<source, ledger, held, healthy, dbFailed, tasks, stream, crashes>>

\* An entry that is rejected, sent in vain, or becomes a position; what the
\* order manager cannot settle raises a halt only a person clears.
HandleEntry ==
    /\ main = "oms" /\ row.act = "open"
    /\ intents' = intents \cup {row}
    /\ \/ UNCHANGED <<held, halts>>
       \/ /\ row \notin intents /\ halts = {} /\ row.sym \notin held
          /\ held' \in {held, held \cup {row.sym}}
          /\ halts' \in {halts, {"manual"}}
    /\ main' = "save"
    /\ UNCHANGED <<source, cursor, ready, batch, healthy, dbFailed, tasks, stream,
                   crashes>>

\* The same for an exit; a replayed one is a duplicate and does nothing.
HandleExit ==
    /\ main = "oms" /\ row.act = "close"
    /\ intents' = intents \cup {row}
    /\ \/ (row \in intents \/ row.sym \notin held) /\ UNCHANGED <<held, halts>>
       \/ /\ row \notin intents
          /\ held' = held \ {row.sym} /\ UNCHANGED halts
       \/ /\ row \notin intents /\ row.sym \in held
          /\ halts' = halts \cup {"manual"} /\ UNCHANGED held
    /\ main' = "save"
    /\ UNCHANGED <<source, cursor, ready, batch, healthy, dbFailed, tasks, stream,
                   crashes>>

\* handle_intent raises before the intent is saved: safe_halt, and the
\* signal counts as handled.
HandleRaises ==
    /\ main = "oms" \/ (AtRow("close") /\ row.sym \notin held)
    /\ halts' = halts \cup {"manual"}
    /\ main' = "save"
    /\ UNCHANGED <<source, cursor, ready, intents, held, batch, healthy, dbFailed,
                   tasks, stream, crashes>>

\* The result has been recorded and notified; _save_cursor.
SaveCursor ==
    /\ main = "save"
    /\ PassRow
    /\ UNCHANGED <<source, ready, intents, halts, held, healthy, dbFailed, tasks,
                   stream, crashes>>

\* _sync_shared_protection_once: the source cannot be read, or a position is
\* closed, or an update of its stop halts.
SyncProtection ==
    /\ main = "sync"
    /\ \/ UNCHANGED <<healthy, dbFailed, halts, held>>
       \/ /\ dbFailed' = TRUE /\ healthy' = FALSE
          /\ UNCHANGED <<halts, held>>
       \/ /\ ~dbFailed
          /\ halts' \in {halts, halts \cup {"manual"}}
          /\ \E s \in held : held' \in {held, held \ {s}}
          /\ UNCHANGED <<healthy, dbFailed>>
    /\ main' = "tasks"
    /\ UNCHANGED <<source, cursor, ready, intents, batch, tasks, stream, crashes>>

\* A process that ends, however it ends, leaves the ledger and the exchange.
Ended ==
    /\ main' = "down" /\ batch' = <<>> /\ healthy' = FALSE /\ dbFailed' = FALSE
    /\ private' = "off" /\ periodic' = "off" /\ fails' = 0
    /\ stream' = "off"

\* A task that has ended ends the process; systemd starts another.
WatchTasks ==
    /\ main = "tasks"
    /\ IF "dead" \in {private, periodic} THEN Ended
       ELSE main' = "loop" /\ UNCHANGED <<batch, healthy, dbFailed, tasks, stream>>
    /\ UNCHANGED <<source, ledger, held, crashes>>

\* The intent is committed before the order is sent: a crash in between
\* leaves the one without the other.
Crash ==
    /\ Up /\ crashes < MaxCrashes
    /\ crashes' = crashes + 1
    /\ intents' \in {intents} \cup
         (IF main = "oms" THEN {intents \cup {row}} ELSE {})
    /\ Ended
    /\ UNCHANGED <<source, cursor, ready, halts, held>>

-----------------------------------------------------------------------------
(***************************************************************************)
(* _private_events.                                                        *)
(***************************************************************************)
keepPrivate == <<source, cursor, ready, intents, held, loop, periodic, fails, crashes>>

StreamDrops ==
    /\ stream \in {"up", "proven"}
    /\ stream' = "lost"
    /\ UNCHANGED <<source, ledger, held, loop, tasks, crashes>>

\* The except block: halt, close, sleep, and try to reconnect.
StreamFailed ==
    /\ halts' = halts \cup {"stream"}
    /\ stream' = "off"
    /\ private' = "connect"

\* events() connects by itself when there is no socket, and yields nothing yet.
EventsConnects ==
    /\ private = "events" /\ stream = "off"
    /\ stream' = "up"
    /\ UNCHANGED <<keepPrivate, halts, private>>

EventsFails ==
    /\ private = "events"
    /\ StreamFailed
    /\ UNCHANGED keepPrivate

\* A fill, a stop or a margin call is told and the reconcile succeeds.
StreamEvent ==
    /\ private = "events" /\ stream \in {"up", "proven"}
    /\ ReconcileSucceeds
    /\ halts' \in {halts, halts \cup {"manual"}}
    /\ UNCHANGED <<keepPrivate, private>>

PrivateConnects ==
    /\ private = "connect"
    /\ stream' = "up"
    /\ private' = "prove"
    /\ UNCHANGED <<keepPrivate, halts>>

PrivateProves ==
    /\ private = "prove"
    /\ ReconcileSucceeds
    /\ halts' = halts \ Recoverable(TRUE)
    /\ private' = "events"
    /\ UNCHANGED keepPrivate

\* connect or the reconcile raises: back to events(), with or without a socket.
PrivateRetryFails ==
    /\ private \in {"connect", "prove"}
    /\ private' = "events"
    /\ UNCHANGED <<keepPrivate, halts, stream>>

\* Closing the stream, or a write to the ledger, raises in the except block.
PrivateDies ==
    /\ private = "connect"
    /\ private' = "dead"
    /\ UNCHANGED <<keepPrivate, halts, stream>>

-----------------------------------------------------------------------------
(***************************************************************************)
(* _periodic_reconcile.                                                    *)
(***************************************************************************)
keepPeriodic == <<source, cursor, ready, intents, held, loop, private, crashes>>

PeriodicSucceeds ==
    /\ periodic = "on"
    /\ ReconcileSucceeds
    /\ fails' = 0
    /\ halts' = halts \ Recoverable(FALSE)
    /\ UNCHANGED <<keepPeriodic, periodic>>

PeriodicFails ==
    /\ periodic = "on"
    /\ fails' = IF fails < 3 THEN fails + 1 ELSE fails
    /\ halts' = IF fails' >= 3 THEN halts \cup {"reconcile"} ELSE halts
    /\ UNCHANGED <<keepPeriodic, periodic, stream>>

\* The ledger refuses the event that records the failure.
PeriodicDies ==
    /\ periodic = "on"
    /\ periodic' = "dead"
    /\ UNCHANGED <<keepPeriodic, halts, fails, stream>>

-----------------------------------------------------------------------------
(***************************************************************************)
(* Specification.                                                          *)
(***************************************************************************)
Init ==
    /\ outbox \in [1..History -> Row]
    /\ \A i \in 1..History : outbox[i].seq = i
    /\ aged = 0
    /\ cursor = 0 /\ ready = FALSE /\ intents = {} /\ halts = {} /\ held = {}
    /\ main = "down" /\ batch = <<>> /\ healthy = FALSE /\ dbFailed = FALSE
    /\ private = "off" /\ periodic = "off" /\ fails = 0
    /\ stream = "off" /\ crashes = 0

Monitor == (\E s \in Symbols : Publish(s)) \/ Age
Startup ==
    \/ Boot \/ InitCursor \/ MarkReady \/ InitCursorFails
    \/ Supervise \/ SuperviseProves \/ SuperviseFails
Loop ==
    \/ RefreshHealth \/ Poll \/ PollFails \/ PollWaits
    \/ SkipEntry \/ FlatExit \/ Quote \/ QuoteFails
    \/ HandleEntry \/ HandleExit \/ HandleRaises \/ SaveCursor
    \/ SyncProtection \/ WatchTasks
PrivateTask ==
    \/ EventsConnects \/ EventsFails \/ StreamEvent
    \/ PrivateConnects \/ PrivateProves \/ PrivateRetryFails \/ PrivateDies
PeriodicTask == PeriodicSucceeds \/ PeriodicFails \/ PeriodicDies
World == (\E s \in Symbols : StopFires(s)) \/ StreamDrops \/ Crash

Next == Monitor \/ Startup \/ Loop \/ PrivateTask \/ PeriodicTask \/ World

Spec == Init /\ [][Next]_vars

\* The loop goes on and systemd starts it again; a read or a reconcile tried
\* for ever succeeds some time, and so do the quotes of a position to close
\* (not those of an entry); signals get old.
Fairness ==
    /\ WF_vars(Startup \/ Loop) /\ WF_vars(Age)
    /\ SF_vars(InitCursor) /\ SF_vars(SuperviseProves)
    /\ SF_vars(Poll) /\ SF_vars(AtRow("close") /\ Quote)
    /\ SF_vars(PeriodicSucceeds)

LiveSpec == Spec /\ Fairness

\* The private task notices what it waits for, and goes on; its requests
\* succeed some time if they are tried for ever.
StreamFairness ==
    /\ WF_vars(PrivateConnects \/ PrivateProves \/ PrivateRetryFails)
    /\ WF_vars(stream = "lost" /\ EventsFails)
    /\ SF_vars(EventsConnects) /\ SF_vars(StreamEvent)
    /\ SF_vars(PrivateConnects) /\ SF_vars(PrivateProves)

StreamSpec == LiveSpec /\ StreamFairness

-----------------------------------------------------------------------------
(***************************************************************************)
(* Properties.                                                             *)
(***************************************************************************)
TypeOK ==
    /\ outbox \in Seq(Row) /\ Len(outbox) \in History..MaxRows
    /\ \A i \in DOMAIN outbox : outbox[i].seq = i
    /\ aged \in 0..Len(outbox)
    /\ cursor \in 0..Len(outbox) /\ ready \in BOOLEAN
    /\ intents \subseteq Row /\ halts \subseteq Halts /\ held \subseteq Symbols
    /\ main \in {"down", "cursor", "ready", "supervise", "prove", "loop", "poll",
                 "row", "oms", "save", "sync", "tasks"}
    /\ batch \in Seq(Row) /\ (main \in {"row", "oms", "save"} => batch # <<>>)
    /\ healthy \in BOOLEAN /\ dbFailed \in BOOLEAN
    /\ private \in {"off", "events", "connect", "prove", "dead"}
    /\ periodic \in {"off", "on", "dead"} /\ fails \in 0..3
    /\ stream \in {"off", "up", "proven", "lost"}
    /\ crashes \in 0..MaxCrashes

\* The outbox as the two processes promise it (SignalQueue): every signal is
\* passed in order, taken at most once, and no exit is passed over silently,
\* through batches, missing quotes, failing reads, crashes and restarts.
Queue == INSTANCE SignalQueue WITH
    Rows <- Row, Exits <- {r \in Row : r.act = "close"},
    next <- IF ready THEN cursor + 1 ELSE 0,
    taken <- intents, alarm <- "manual" \in halts
QueueSpec == Queue!Spec

\* What the halt of a failed stream is there for: while it is not up, the loop
\* trades only on a stream that has not broken, as far as the process can
\* know, and that a reconcile has confirmed since it was connected.
HaltUntilProven ==
    Running /\ "stream" \notin halts => stream \in {"proven", "lost"}

\* Every published signal is passed some time: no lost quote, failing
\* database, halt or dying task holds the outbox up for ever.
OutboxDrains == \A i \in 1..MaxRows : (Len(outbox) >= i) ~> (ready /\ cursor >= i)

\* The halt of three failed reconciles ends when reconciles succeed again.
ReconcileHaltClears == ("reconcile" \in halts) ~> ("reconcile" \notin halts)

\* So should the halt of a failed stream.
StreamHaltClears == ("stream" \in halts) ~> ("stream" \notin halts)
==============================================================================
