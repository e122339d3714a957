--------------------------- MODULE BinanceAccount ---------------------------
(***************************************************************************)
(* The Binance portfolio-margin account the program trades on, as the      *)
(* program meets it through gateway.py: ordinary orders, conditional       *)
(* (algo) orders, one short position per symbol, and the private user      *)
(* stream.  None of it is code under src/: every definition is what        *)
(* oms.py, gateway.py and service.py rely on.                              *)
(*                                                                         *)
(* The account is in hedge mode with positionSide SHORT, so a BUY only     *)
(* reduces the short and the exchange never lets one cross zero.           *)
(***************************************************************************)
EXTENDS Integers, Sequences, FiniteSets

CONSTANTS
    Symbols,      \* the traded symbols
    Trades,       \* the strategy positions (position_id) of the signal source
    SymbolOf,     \* the symbol of each trade
    Lot,          \* the approved entry quantity, in exchange steps
    MaxIds,       \* bound: timed order ids per trade and role
    MaxTrails,    \* bound: trailing stops armed per trade
    MaxFaults,    \* bound: refused, lost, late and expired requests
    MaxTriggers,  \* bound: stops the market price reaches
    NoOrder,      \* no order: an event of an order the exchange made itself
    NoAlgo        \* the empty client algo id

ASSUME AccountAssumption ==
    /\ IsFiniteSet(Trades) /\ SymbolOf \in [Trades -> Symbols]
    /\ Lot \in Nat \ {0}
    /\ MaxIds \in Nat /\ MaxTrails \in Nat
    /\ MaxFaults \in Nat /\ MaxTriggers \in Nat

(***************************************************************************)
(* Client ids are digests of the intent (short_id): the entry ("en") and   *)
(* the exit signal ("ex") of a trade have one id each; protective exits    *)
(* ("px"), emergency closes ("em") and the flattening of an untracked      *)
(* position ("uf") carry a time and are numbered.                          *)
(***************************************************************************)
SignalIds == [trade : Trades, role : {"en", "ex"}, n : {1}]
TimedIds  == [trade : Trades, role : {"px", "em", "uf"}, n : 1..MaxIds]
OrderIds == SignalIds \cup TimedIds

\* An order the exchange made itself carries no id of the program.
ASSUME NoOrderAssumption == NoOrder \notin OrderIds

Entry(t) == [trade |-> t, role |-> "en", n |-> 1]
SignalExit(t) == [trade |-> t, role |-> "ex", n |-> 1]

\* The id of a structure stop digests position, price and quantity; that of
\* a trailing stop digests the decision time as well.
StopIds  == [trade : Trades, n : {0}, qty : Nat]
TrailIds == [trade : Trades, n : 1..MaxTrails, qty : Nat]
AlgoIds  == StopIds \cup TrailIds

\* The empty id is the id of no stop.
ASSUME NoAlgoAssumption == NoAlgo \notin AlgoIds

SymbolOfId(x) == SymbolOf[x.trade]
IsEntry(o) == o.role = "en"
IsExit(o) == o.role \in {"ex", "px"}

VARIABLES
    orders,    \* the exchange's record of each client order id
    short,     \* the short position of each symbol
    algos,     \* the working conditional orders
    seen,      \* every conditional order the exchange ever accepted
    transit,   \* requests that timed out and may still arrive
    stream,    \* events of the connected user stream, oldest first
    link,      \* the user stream: "lost", "proving" (reconnected) or "live"
    faults,    \* adverse outcomes still allowed
    triggers   \* stops still allowed to trigger

account == <<orders, short, algos, seen, transit, stream, link, faults, triggers>>

NeverSent == [st |-> "none", qty |-> 0, filled |-> 0]
OrderStatus == {"none", "live", "filled", "dead"}
Events == [order : OrderIds \cup {NoOrder}, st : OrderStatus, filled : Nat,
           fill : BOOLEAN]

OrderRow == [st : OrderStatus, qty : Nat, filled : Nat]
Requests == [orders : SUBSET (OrderIds \X Nat), algos : SUBSET AlgoIds]

AccountTypeOK ==
    /\ orders \in [OrderIds -> OrderRow]
    /\ short \in [Symbols -> Nat]
    /\ algos \subseteq AlgoIds /\ IsFiniteSet(algos) /\ seen \subseteq AlgoIds
    /\ transit \in Requests
    /\ stream \in Seq(Events)
    /\ link \in {"lost", "proving", "live"}
    /\ faults \in 0..MaxFaults /\ triggers \in 0..MaxTriggers

AccountInit ==
    /\ orders = [o \in OrderIds |-> NeverSent]
    /\ short = [s \in Symbols |-> 0]
    /\ algos = {} /\ seen = {}
    /\ transit = [orders |-> {}, algos |-> {}]
    /\ stream = <<>> /\ link \in {"lost", "live"}
    /\ faults = MaxFaults /\ triggers = MaxTriggers

(***************************************************************************)
(* What requests of the program do to the account.  A client order id is   *)
(* unique among working orders only: sent again after its order ended, it  *)
(* is a second order, whose quantity adds to the first.                    *)
(***************************************************************************)
Accepted(o, q) ==
    [orders EXCEPT ![o] = [st |-> "live", qty |-> @.qty + q, filled |-> @.filled]]

Cancelled(o) ==
    [orders EXCEPT ![o].st = IF @ = "live" THEN "dead" ELSE @]

Working(o) == orders[o].st = "live"
LiveOrders == {o \in OrderIds : Working(o)}

\* An adverse outcome uses up one of the faults.
Fault == faults > 0 /\ faults' = faults - 1

Emit(e) == stream' = IF link = "lost" THEN stream ELSE Append(stream, e)

OrderEvent(o, st, filled, fill) ==
    [order |-> o, st |-> st, filled |-> filled, fill |-> fill]
\* ALGO_UPDATE, or the fill of a stop: an event of no order of the program.
StopEvent == OrderEvent(NoOrder, "none", 0, TRUE)

\* A stop starts or ceases to work, and the stream says so.
AcceptStop(a) ==
    /\ algos' = algos \cup {a} /\ seen' = seen \cup {a}
    /\ Emit(StopEvent)
DropStop(a) ==
    IF a \in algos THEN algos' = algos \ {a} /\ Emit(StopEvent)
    ELSE UNCHANGED <<algos, stream>>
CancelWorking(o) ==
    /\ Working(o)
    /\ orders' = Cancelled(o)
    /\ Emit(OrderEvent(o, "dead", orders[o].filled, FALSE))

(***************************************************************************)
(* What the exchange does on its own.                                      *)
(***************************************************************************)

\* A working market order fills, wholly or in part.
Fill(o) ==
    LET s == SymbolOfId(o)
        left == orders[o].qty - orders[o].filled
        room == IF IsEntry(o) \/ left <= short[s] THEN left ELSE short[s]
    IN /\ Working(o)
       /\ \E q \in 1..room :
            LET st == IF q = left THEN "filled" ELSE "live"
                filled == orders[o].filled + q
            IN /\ orders' = [orders EXCEPT ![o].st = st, ![o].filled = filled]
               /\ short' = [short EXCEPT ![s] = IF IsEntry(o) THEN @ + q ELSE @ - q]
               /\ Emit(OrderEvent(o, st, filled, TRUE))
       /\ UNCHANGED <<algos, seen, transit, link, faults, triggers>>

\* A working order ends unfilled: a BUY that has nothing left to reduce
\* always may, any other order only as a fault.
Expire(o) ==
    /\ Working(o)
    /\ IF ~IsEntry(o) /\ short[SymbolOfId(o)] = 0 THEN UNCHANGED faults ELSE Fault
    /\ CancelWorking(o)
    /\ UNCHANGED <<short, algos, seen, transit, link, triggers>>

\* The price reaches a working stop: it leaves the book and buys back as much
\* of its quantity as is still short.
Trigger(a) ==
    LET s == SymbolOfId(a)
    IN /\ triggers > 0
       /\ triggers' = triggers - 1
       /\ algos' = algos \ {a}
       /\ short' = [short EXCEPT ![s] = IF a.qty < @ THEN @ - a.qty ELSE 0]
       /\ Emit(StopEvent)
       /\ UNCHANGED <<orders, seen, transit, link, faults>>

\* A request the program saw time out arrives after all.
Arrive ==
    \/ \E r \in transit.orders :
         /\ transit' = [transit EXCEPT !.orders = @ \ {r}]
         /\ orders' = IF Working(r[1]) THEN orders ELSE Accepted(r[1], r[2])
         /\ UNCHANGED <<algos, seen, stream>>
    \/ \E a \in transit.algos :
         /\ transit' = [transit EXCEPT !.algos = @ \ {a}]
         /\ AcceptStop(a)
         /\ UNCHANGED orders

LateArrival ==
    /\ Arrive
    /\ UNCHANGED <<short, link, faults, triggers>>

AccountNext ==
    \/ \E o \in OrderIds : Fill(o) \/ Expire(o)
    \/ \E a \in algos : Trigger(a)
    \/ LateArrival
=============================================================================
