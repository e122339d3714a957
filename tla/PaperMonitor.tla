---------------------------- MODULE PaperMonitor ----------------------------
(***************************************************************************)
(* The paper process: waterfall_monitor and persist_live_protection_state  *)
(* of waterfall.py, the strategy's engine (board_waterfall.py), the paper  *)
(* accounts, and the tables of store.py the live process reads.            *)
(*                                                                         *)
(* A closed candle changes the engine's memory at once; then the position  *)
(* rows, the protection row, each signal with its outbox row and the       *)
(* accounts are committed one after the other.  An error drops what is left*)
(* of the event, a crash drops the memory too.                             *)
(*                                                                         *)
(* Prices are left out: a label, a flow reading, a hit stop or a profit is *)
(* what a candle may bring.  Time counts in candles.                       *)
(***************************************************************************)
EXTENDS PaperAccounts, FiniteSets

CONSTANTS
    Symbols,     \* positive numbers, in the order of the symbols' names
    Cooldown,    \* same_symbol_cooldown_hours
    DayLength, DayCap,   \* max_trades_per_symbol_day
    MaxOpen,     \* max_open_positions
    MaxHold,     \* max_hold_min
    Profits,     \* pnl_pct an exit may have
    MaxMinutes,  \* bound: candles of a symbol
    MaxErrors,   \* bound: failed commits
    MaxCrashes,  \* bound: crashes
    None

ASSUME MonitorAssumption ==
    /\ Symbols \subseteq Nat /\ IsFiniteSet(Symbols)
    /\ {Cooldown, DayLength, DayCap, MaxOpen, MaxHold, MaxMinutes} \subseteq Nat \ {0}
    /\ Profits \subseteq -100..100
    /\ {MaxErrors, MaxCrashes} \subseteq Nat

VARIABLES
    minute,      \* the minute whose candles close
    done,        \* symbols whose candle of this minute has been handled
    positions,   \* engine.positions: symbol to open position
    entered,     \* last_signal_time and trade_count_day: entry times by symbol
    gained,      \* engine.realized_pnl_usdt
    books,       \* the accounts of ClaudePaperAccounts
    pc, job,     \* the commit that is next, and what there is to commit
    rows,        \* waterfall_positions by id
    outbox,      \* waterfall_signal_outbox
    protection,  \* waterfall_protection_state by symbol, or None
    errors, crashes

clock == <<minute, done>>
engine == <<positions, entered, gained>>
store == <<rows, outbox, protection>>
bounds == <<errors, crashes>>
vars == <<clock, engine, books, pc, job, store, bounds>>

Minutes == 1..MaxMinutes
PositionIds == Symbols \X Minutes
Day(m) == (m - 1) \div DayLength
NoJob == [symbol |-> None, rows |-> <<>>, signals |-> <<>>]
Signal(action, id) == [action |-> action, id |-> id, time |-> minute]
Published(action) == {outbox[i].id : i \in {j \in DOMAIN outbox : outbox[j].action = action}}

-----------------------------------------------------------------------------
(***************************************************************************)
(* on_kline: the exit of the position held, then an entry.  A result has   *)
(* the engine's memory and what the event has changed.                     *)
(***************************************************************************)
Memory == [positions |-> positions, gained |-> gained, rows |-> <<>>, signals |-> <<>>]

\* update_position without an exit: the trailing stop stays, or is set.
Kept(s) ==
    {[Memory EXCEPT !.positions[s] = p, !.rows = <<p>>] :
       p \in {[positions[s] EXCEPT !.updated = minute, !.trail = trail] :
                trail \in {positions[s].trail, TRUE}}}

Exited(s) ==
    {[Memory EXCEPT
        !.positions = Without(@, s), !.gained = @ + p.pnl, !.rows = <<p>>,
        !.signals = <<Signal("exit", p.id)>>] :
       p \in {[positions[s] EXCEPT
                 !.st = "closed", !.updated = minute, !.exit = minute, !.pct = pct,
                 !.pnl = Percent(positions[s].margin * Leverage, pct)] :
                pct \in Profits}}

Updated(s) ==
    IF s \notin DOMAIN positions THEN {Memory}
    ELSE Exited(s) \cup
         (IF minute - positions[s].entry >= MaxHold THEN {} ELSE Kept(s))

\* _cooldown_ok
CooldownOk(s) ==
    /\ Cardinality({m \in entered[s] : Day(m) = Day(minute)}) < DayCap
    /\ \A m \in entered[s] : minute - m >= Cooldown

\* paper_sizing of the strategy itself.
SizingOf(x) ==
    LET equity == AtLeast0(Initial + x.gained)
        used == Total([s \in DOMAIN x.positions |-> x.positions[s].margin])
    IN Smaller(AtLeast0(equity - used), Percent(equity, Fraction[Master]))

EntryAllowed(s, x) ==
    /\ s \notin DOMAIN x.positions
    /\ Cardinality(DOMAIN x.positions) < MaxOpen
    /\ CooldownOk(s)
    /\ SizingOf(x) > 0

\* (mutant: named after the minute that follows)
NextMinutePosition(s, margin) ==
    [id |-> <<s, minute + 1>>, st |-> "open", entry |-> minute, margin |-> margin,
     trail |-> FALSE, updated |-> minute, exit |-> 0, pct |-> 0, pnl |-> 0]
NewPosition(s, margin) ==
    [id |-> <<s, minute>>, st |-> "open", entry |-> minute, margin |-> margin,
     trail |-> FALSE, updated |-> minute, exit |-> 0, pct |-> 0, pnl |-> 0]

WithEntry(s, x) ==
    LET p == NewPosition(s, SizingOf(x))
    IN [x EXCEPT !.positions = Put(@, s, p), !.rows = Append(@, p),
                 !.signals = Append(@, Signal("open", p.id))]

Candle(s) ==
    /\ pc = "idle" /\ s \notin done
    /\ done' = done \cup {s}
    /\ \E x \in Updated(s), label \in BOOLEAN :
         LET enters == label /\ EntryAllowed(s, x)
             y == IF enters THEN WithEntry(s, x) ELSE x
         IN /\ positions' = y.positions
            /\ gained' = y.gained
            /\ entered' = IF enters THEN [entered EXCEPT ![s] = @ \cup {minute}] ELSE entered
            /\ job' = IF y.rows = <<>> THEN NoJob
                      ELSE [symbol |-> s, rows |-> y.rows, signals |-> y.signals]
            /\ pc' = IF y.rows = <<>> THEN "idle" ELSE "rows"
    /\ UNCHANGED <<minute, books, store, bounds>>

\* The next minute; candles not delivered by then are lost.
Tick ==
    /\ minute < MaxMinutes /\ pc = "idle"
    /\ minute' = minute + 1
    /\ done' = {}
    /\ UNCHANGED <<engine, books, pc, job, store, bounds>>

-----------------------------------------------------------------------------
(***************************************************************************)
(* The commits of an event.                                                *)
(***************************************************************************)

\* upsert_waterfall_position, row by row.
StoreRow ==
    /\ pc = "rows"
    /\ rows' = Put(rows, Head(job.rows).id, Head(job.rows))
    /\ job' = [job EXCEPT !.rows = Tail(@)]
    /\ pc' = IF Len(job.rows) = 1 THEN "protect" ELSE "rows"
    /\ UNCHANGED <<clock, engine, books, outbox, protection, bounds>>

AfterCommit(signals) == IF signals = <<>> THEN "idle" ELSE "publish"

\* persist_live_protection_state: the row of the position held now, or none
\* after an exit.  Sellers in control keep the trailing stop disarmed.
Protect ==
    LET s == job.symbol
    IN /\ pc = "protect"
       /\ \E holdThrough \in BOOLEAN :
            protection' = [protection EXCEPT ![s] =
              IF s \in DOMAIN positions
              THEN [id |-> positions[s].id, time |-> positions[s].updated,
                    arm |-> positions[s].trail /\ ~holdThrough]
              ELSE None]
       /\ pc' = AfterCommit(job.signals)
       /\ job' = IF job.signals = <<>> THEN NoJob ELSE job
       /\ UNCHANGED <<clock, engine, books, rows, outbox, bounds>>

\* save_waterfall_signal: the signal and its outbox row, unless it is there.
Publish ==
    /\ pc = "publish"
    /\ LET signal == Head(job.signals)
           known == \E i \in DOMAIN outbox : outbox[i] = signal
       IN /\ outbox' = IF known THEN outbox ELSE Append(outbox, signal)
          /\ pc' = IF known THEN AfterCommit(Tail(job.signals)) ELSE "account"
          /\ job' = IF known THEN [job EXCEPT !.signals = Tail(@)] ELSE job
    /\ UNCHANGED <<clock, engine, books, rows, protection, bounds>>

\* apply_signal, with the position as on_kline left it.
Applied ==
    LET signal == Head(job.signals)
    IN IF signal.action = "open" THEN Opened(books, rows[signal.id])
       ELSE Closed(books, rows[signal.id])

Account ==
    /\ pc = "account"
    /\ books' = Applied
    /\ pc' = AfterCommit(Tail(job.signals))
    /\ job' = IF Len(job.signals) = 1 THEN NoJob ELSE [job EXCEPT !.signals = Tail(@)]
    /\ UNCHANGED <<clock, engine, store, bounds>>

\* A commit fails: the event is logged and dropped.  The accounts' memory is
\* changed before their commit.
Error ==
    /\ pc # "idle" /\ errors < MaxErrors
    /\ errors' = errors + 1
    /\ books' = IF pc = "account" THEN Applied ELSE books
    /\ pc' = "idle" /\ job' = NoJob
    /\ UNCHANGED <<clock, engine, store, crashes>>

-----------------------------------------------------------------------------
(***************************************************************************)
(* A crash and the start that follows: load_positions, load_recent_state,  *)
(* prune_waterfall_protection_states and the rebuild of the accounts.      *)
(***************************************************************************)
AllRows == {rows[id] : id \in DOMAIN rows}
\* (mutant: the status of a row is not looked at)
EveryRow == AllRows
OpenRows == {r \in AllRows : r.st = "open"}
OpenOn(s) == {r \in OpenRows : r.id[1] = s}

\* Rows come newest update first; the last one of a symbol is kept.
Loaded ==
    [s \in {r.id[1] : r \in OpenRows} |->
       CHOOSE r \in OpenOn(s) : \A x \in OpenOn(s) : r.updated <= x.updated]

\* (mutant: the account starts from its initial balance again)
NoGain(ids) == 0
GainOf(ids) == Total([id \in ids |-> rows[id].pnl])
\* (mutant: the cooldown of trades that are over is not restored)
EnteredOfOpen == [s \in Symbols |-> {r.entry : r \in OpenOn(s)}]
EnteredOfRows == [s \in Symbols |-> {r.entry : r \in {x \in AllRows : x.id[1] = s}}]

\* (mutant: rows of positions that were closed are kept)
NothingPruned == protection
Pruned ==
    LET held == {r.id : r \in OpenRows}
    IN [s \in Symbols |-> IF protection[s] # None /\ protection[s].id \in held
                          THEN protection[s] ELSE None]

Restart ==
    /\ crashes < MaxCrashes
    /\ crashes' = crashes + 1
    /\ positions' = Loaded
    /\ entered' = EnteredOfRows
    /\ gained' = GainOf({id \in DOMAIN rows : rows[id].st = "closed"})
    /\ protection' = Pruned
    /\ books' = Replay(AllRows)
    /\ pc' = "idle" /\ job' = NoJob
    /\ UNCHANGED <<clock, rows, outbox, errors>>

-----------------------------------------------------------------------------
Init ==
    /\ minute = 1 /\ done = {}
    /\ positions = << >> /\ entered = [s \in Symbols |-> {}] /\ gained = 0
    /\ books = NewBooks /\ pc = "idle" /\ job = NoJob
    /\ rows = << >> /\ outbox = <<>> /\ protection = [s \in Symbols |-> None]
    /\ errors = 0 /\ crashes = 0

Next ==
    \/ \E s \in Symbols : Candle(s)
    \/ Tick \/ StoreRow \/ Protect \/ Publish \/ Account
    \/ Error \/ Restart

Spec == Init /\ [][Next]_vars

-----------------------------------------------------------------------------
(***************************************************************************)
(* Properties.                                                             *)
(***************************************************************************)
Row ==
    [id : PositionIds, st : {"open", "closed"}, entry : Minutes, margin : Nat,
     trail : BOOLEAN, updated : Minutes, exit : 0..MaxMinutes, pct : Profits \cup {0},
     pnl : Int]
SignalRow == [action : {"open", "exit"}, id : PositionIds, time : Minutes]
Guard == [id : PositionIds, time : Minutes, arm : BOOLEAN]

\* Type invariant: what the engine, the accounts and the tables hold.
TypeOK ==
    /\ minute \in Minutes /\ done \subseteq Symbols
    /\ DOMAIN positions \subseteq Symbols
    /\ \A s \in DOMAIN positions : positions[s] \in Row /\ positions[s].id[1] = s
    /\ entered \in [Symbols -> SUBSET Minutes] /\ gained \in Int
    /\ \A a \in Accounts : books[a].realized \in Int /\ books[a].peak \in Nat
         /\ \A id \in DOMAIN books[a].open : books[a].open[id] \in Nat \ {0}
    /\ pc \in {"idle", "rows", "protect", "publish", "account"}
    /\ job.rows \in Seq(Row) /\ job.signals \in Seq(SignalRow)
    /\ \A id \in DOMAIN rows : rows[id] \in Row /\ rows[id].id = id
    /\ outbox \in Seq(SignalRow)
    /\ protection \in [Symbols -> Guard \cup {None}]
    /\ errors \in 0..MaxErrors /\ crashes \in 0..MaxCrashes

(* A position whose exit the live process may have read is never held again,
   nor exits again, whatever failed or crashed in between: the rows are
   committed before the signal. *)
ExitedStaysOut ==
    /\ \A s \in DOMAIN positions : positions[s].id \notin Published("exit")
    /\ \A i, j \in DOMAIN outbox :
         outbox[i].action = "exit" /\ outbox[j].action = "exit" /\ outbox[i].id = outbox[j].id
           => i = j

(* max_trades_per_symbol_day and the cooldown hold between the entries the live
   process is given, across restarts (load_recent_state). *)
EntriesSpaced ==
    \A p, q \in Published("open") :
      p # q /\ p[1] = q[1] =>
        /\ p[2] - q[2] >= Cooldown \/ q[2] - p[2] >= Cooldown
        /\ Cardinality({r \in Published("open") : r[1] = p[1] /\ Day(r[2]) = Day(p[2])})
             <= DayCap

(* The 20% account is the strategy's own account: between events they hold the
   same positions with the same margin and have realized the same, also after
   a crash between any two commits, as long as no commit failed. *)
MasterIsTheStrategy ==
    pc = "idle" /\ errors = 0 =>
      /\ books[Master].realized = gained
      /\ DOMAIN books[Master].open = {positions[s].id : s \in DOMAIN positions}
      /\ \A s \in DOMAIN positions :
           books[Master].open[positions[s].id] = positions[s].margin

(* Between events the protection rows the live process mirrors are those of the
   positions held, or missing until the next candle. *)
ProtectionNamesHeld ==
    pc = "idle" /\ errors = 0 =>
      \A s \in Symbols : protection[s] # None =>
        s \in DOMAIN positions /\ protection[s].id = positions[s].id

(* "Sizing subtracts the margin of concurrent positions": an account that opens
   a position has not committed more than its realized equity.  The 20% account
   takes the strategy's margin on trust, so its book must not have lost an exit
   to a failed commit. *)
Opens(a) ==
    /\ DOMAIN books[a].open \subseteq DOMAIN books'[a].open
    /\ DOMAIN books[a].open # DOMAIN books'[a].open
WithinEquity ==
    [][\A a \in Accounts :
         Opens(a) /\ crashes' = crashes /\ (a = Master => errors = 0)
           => Total(books'[a].open) <= Equity(books'[a])]_vars

(* "Position + signal writes stay atomic per symbol so a failure can't leave a
   half-open paper trade": between events, a position the live process was
   told to open and whose row is closed has its exit in the outbox. *)
NothingHalfOpen ==
    pc = "idle" =>
      \A id \in Published("open") :
        rows[id].st = "closed" => id \in Published("exit")
=============================================================================
