----------------------- MODULE LiveOrderManagerLedger -----------------------
(***************************************************************************)
(* What the ledger promises: it never runs ahead of the exchange, it takes *)
(* the signals of the paper process once each and in order, and no client  *)
(* order id is sent twice.                                                 *)
(*                                                                         *)
(* LedgerNeverAhead is inductive with TypeOK: rows are written from REST   *)
(* answers, which tell the exchange's row of the moment, from events, which*)
(* told it earlier (hence the conjunct on the waiting events), and from    *)
(* fills applied, which the row already holds; and the exchange takes no   *)
(* fill back.  One lemma per group of actions, one step per action.        *)
(***************************************************************************)
EXTENDS LiveOrderManagerTypes

\* No row of b holds or counts a fill the exchange has not made.
Sound(b) ==
    \A o \in OrderIds :
      b[o].filled <= orders[o].filled /\ b[o].applied <= orders[o].filled

\* The same for the events that wait in the stream.
StreamSound ==
    \A i \in 1..Len(stream) :
      stream[i].order \in OrderIds => stream[i].filled <= orders[stream[i].order].filled

OrdersGrow == \A o \in OrderIds : orders[o].filled <= orders'[o].filled

\* Filled and applied quantities, of rows and events, are natural numbers.
LEMMA FilledTypes ==
    ASSUME TypeOK
    PROVE  /\ \A o \in OrderIds : orders[o].filled \in Nat
           /\ \A o \in OrderIds : book[o].filled \in Nat /\ book[o].applied \in Nat
           /\ Len(stream) \in Nat
           /\ \A i \in 1..Len(stream) : stream[i] \in Events /\ stream[i].filled \in Nat
<1>1. stream \in Seq(Events)
  BY DEF TypeOK, AccountTypeOK
<1>2. Len(stream) \in Nat /\ \A i \in 1..Len(stream) : stream[i] \in Events
  BY <1>1, LenProperties, ElementOfSeq
<1> QED
  BY <1>2 DEF TypeOK, AccountTypeOK, LedgerTypeOK, OrderRow, BookRow, Events

\* LedgerNeverAhead holds again when no exchange fill is taken back and the new rows and
\* events are covered by the old fills.
LEMMA Carried ==
    ASSUME TypeOK, TypeOK', OrdersGrow, Sound(book'), StreamSound'
    PROVE  LedgerNeverAhead'
<1>1. \A o \in OrderIds : /\ book'[o].filled <= orders'[o].filled
                          /\ book'[o].applied <= orders'[o].filled
  <2>1. /\ \A o \in OrderIds : orders[o].filled \in Nat /\ orders'[o].filled \in Nat
        /\ \A o \in OrderIds : book'[o].filled \in Nat /\ book'[o].applied \in Nat
    BY DEF TypeOK, AccountTypeOK, LedgerTypeOK, OrderRow, BookRow
  <2> QED BY <2>1 DEF OrdersGrow, Sound
<1> QED
  BY <1>1 DEF LedgerNeverAhead, StreamSound

\* Every way a handler writes a row, from a REST answer or a fill it applies, stays covered.
LEMMA SoundRows ==
    ASSUME TypeOK, LedgerNeverAhead, NEW o
    PROVE  /\ Sound(book) /\ Sound(Heard(o))
           /\ \A st : Sound(Marked(o, st))
           /\ \A q : Sound(NewOrder(o, q))
           /\ \A d \in Int : d <= Unapplied(o) => Sound(Applied(o, d))
<1>1. Sound(book)
  BY DEF LedgerNeverAhead, Sound
<1>2. /\ \A x \in OrderIds : orders[x].filled \in Nat
      /\ \A x \in OrderIds : book[x] \in BookRow
      /\ book \in [OrderIds -> BookRow]
  BY FilledTypes DEF TypeOK, LedgerTypeOK
<1>3. Sound(Heard(o))
  BY <1>1, <1>2 DEF Sound, Heard, BookRow
<1>4. \A st : Sound(Marked(o, st))
  BY <1>1, <1>2 DEF Sound, Marked, BookRow
<1>5. \A q : Sound(NewOrder(o, q))
  BY <1>1, <1>2 DEF Sound, NewOrder, NoEntry
<1>6. ASSUME NEW d \in Int, d <= Unapplied(o)
      PROVE  Sound(Applied(o, d))
  <2> SUFFICES ASSUME NEW x \in OrderIds
               PROVE  /\ Applied(o, d)[x].filled <= orders[x].filled
                      /\ Applied(o, d)[x].applied <= orders[x].filled
    BY DEF Sound
  <2>1. CASE x # o
    BY <1>1, <1>2, <2>1 DEF Sound, Applied
  <2>2. CASE x = o
    <3>1. /\ Applied(o, d)[x].filled = book[x].filled
          /\ Applied(o, d)[x].applied = book[x].applied + d
      BY <1>2, <2>2 DEF Applied, BookRow
    <3>2. book[x].applied + d <= book[x].filled
      BY <1>2, <1>6, <2>2 DEF Unapplied, BookRow
    <3> QED BY <1>1, <1>2, <3>1, <3>2 DEF Sound, BookRow
  <2> QED BY <2>1, <2>2
<1> QED
  BY <1>1, <1>3, <1>4, <1>5, <1>6

\* A segment that only writes covered rows keeps LedgerNeverAhead.
LEMMA BookMoves ==
    ASSUME TypeOK, TypeOK', LedgerNeverAhead, UNCHANGED orders,
           UNCHANGED stream \/ stream' = <<>>, Sound(book')
    PROVE  LedgerNeverAhead'
<1>1. OrdersGrow
  BY FilledTypes DEF OrdersGrow
<1>2. StreamSound'
  BY DEF StreamSound, LedgerNeverAhead
<1> QED BY <1>1, <1>2, Carried

\* An event that tells no more than the exchange's row leaves the stream covered.
LEMMA Emitted ==
    ASSUME TypeOK, LedgerNeverAhead, OrdersGrow, TypeOK', NEW e, Emit(e), e \in Events,
           e.order \in OrderIds => e.filled <= orders'[e.order].filled
    PROVE  StreamSound'
<1>1. \A i \in 1..Len(stream) :
        stream[i].order \in OrderIds => stream[i].filled <= orders'[stream[i].order].filled
  <2>1. /\ \A o \in OrderIds : orders[o].filled \in Nat /\ orders'[o].filled \in Nat
        /\ \A i \in 1..Len(stream) : stream[i].filled \in Nat
    BY FilledTypes DEF TypeOK, AccountTypeOK, OrderRow
  <2> QED BY <2>1 DEF OrdersGrow, LedgerNeverAhead
<1>2. CASE stream' = stream
  BY <1>1, <1>2 DEF StreamSound
<1>3. CASE stream' = Append(stream, e)
  <2>1. /\ Len(stream') = Len(stream) + 1 /\ Len(stream) \in Nat
        /\ \A i \in 1..Len(stream) : stream'[i] = stream[i]
        /\ stream'[Len(stream) + 1] = e
    BY <1>3 DEF TypeOK, AccountTypeOK
  <2> QED BY <1>1, <2>1 DEF StreamSound
<1> QED BY <1>2, <1>3 DEF Emit

\* The event of a stop tells of no order of the program.
LEMMA StopEmitted ==
    ASSUME TypeOK, LedgerNeverAhead, OrdersGrow, TypeOK', Emit(StopEvent)
    PROVE  StreamSound'
<1>1. StopEvent \in Events /\ StopEvent.filled = 0
  BY DEF StopEvent, OrderEvent, Events, OrderStatus
<1>2. \A o \in OrderIds : orders'[o].filled \in Nat
  BY DEF TypeOK, AccountTypeOK, OrderRow
<1> QED BY <1>1, <1>2, Emitted

\* A cancellation takes no fill back.
LEMMA CancelKeepsFills ==
    ASSUME TypeOK, LedgerNeverAhead, TypeOK', NEW o \in OrderIds, CancelWorking(o)
    PROVE  OrdersGrow /\ StreamSound'
<1>1. \A x \in OrderIds : orders'[x].filled = orders[x].filled /\ orders[x].filled \in Nat
  BY FilledTypes DEF CancelWorking, Cancelled, TypeOK, AccountTypeOK, OrderRow
<1>2. OrdersGrow
  BY <1>1 DEF OrdersGrow
<1> DEFINE e == OrderEvent(o, "dead", orders[o].filled, FALSE)
<1>3. e \in Events /\ e.order = o /\ e.filled = orders'[o].filled
  BY <1>1 DEF OrderEvent, Events, OrderStatus
<1>4. Emit(e)
  BY DEF CancelWorking
<1> HIDE DEF e
<1>5. StreamSound'
  BY <1>1, <1>2, <1>3, <1>4, Emitted
<1> QED BY <1>2, <1>5

\* A second order under an id keeps the fills of the first.
LEMMA AcceptKeepsFills ==
    ASSUME TypeOK, NEW o, NEW q, orders' = Accepted(o, q)
    PROVE  OrdersGrow
<1>1. \A x \in OrderIds : orders'[x].filled = orders[x].filled
  BY DEF Accepted, TypeOK, AccountTypeOK, OrderRow
<1> QED BY <1>1, FilledTypes DEF OrdersGrow

\* A segment that places an order and writes covered rows keeps LedgerNeverAhead.
LEMMA AcceptedMoves ==
    ASSUME TypeOK, TypeOK', LedgerNeverAhead, NEW o, NEW q,
           orders' = Accepted(o, q) \/ UNCHANGED orders,
           UNCHANGED stream \/ stream' = <<>>, Sound(book')
    PROVE  LedgerNeverAhead'
<1>1. OrdersGrow
  BY AcceptKeepsFills, FilledTypes DEF OrdersGrow
<1>2. StreamSound'
  <2>1. /\ \A x \in OrderIds : orders[x].filled \in Nat /\ orders'[x].filled \in Nat
        /\ \A i \in 1..Len(stream) : stream[i].filled \in Nat
    BY FilledTypes DEF TypeOK, AccountTypeOK, OrderRow
  <2> QED BY <1>1, <2>1 DEF OrdersGrow, StreamSound, LedgerNeverAhead
<1> QED BY <1>1, <1>2, Carried

\* A segment that only touches stops keeps LedgerNeverAhead.
LEMMA StopMoves ==
    ASSUME TypeOK, TypeOK', LedgerNeverAhead, UNCHANGED <<orders, book>>,
           Emit(StopEvent) \/ UNCHANGED stream
    PROVE  LedgerNeverAhead'
<1>1. OrdersGrow
  BY FilledTypes DEF OrdersGrow
<1>2. StreamSound'
  BY <1>1, StopEmitted DEF StreamSound, LedgerNeverAhead
<1>3. Sound(book')
  BY SoundRows
<1> QED BY <1>1, <1>2, <1>3, Carried

\* The exchange's own steps keep LedgerNeverAhead.
LEMMA ExchangeStepLedger ==
    ASSUME TypeOK, TypeOK', LedgerNeverAhead, ExchangeStep
    PROVE  LedgerNeverAhead'
<1> AccountTypeOK
  BY DEF TypeOK
<1>1. Sound(book')
  BY SoundRows DEF ExchangeStep, ledger
<1>2. ASSUME NEW o \in OrderIds, Fill(o) PROVE LedgerNeverAhead'
  <2> DEFINE left == orders[o].qty - orders[o].filled
             s == SymbolOfId(o)
             room == IF IsEntry(o) \/ left <= short[s] THEN left ELSE short[s]
  <2>1. PICK q \in 1..room : \E st \in OrderStatus :
          /\ orders' = [orders EXCEPT ![o].st = st, ![o].filled = orders[o].filled + q]
          /\ Emit(OrderEvent(o, st, orders[o].filled + q, TRUE))
    BY <1>2 DEF Fill, OrderStatus
  <2>2. PICK st \in OrderStatus :
          /\ orders' = [orders EXCEPT ![o].st = st, ![o].filled = orders[o].filled + q]
          /\ Emit(OrderEvent(o, st, orders[o].filled + q, TRUE))
    BY <2>1
  <2>3. left \in Int /\ short[s] \in Nat
    BY TradeOfOrder DEF AccountTypeOK, OrderRow
  <2>4. q \in Nat
    BY <2>3
  <2> HIDE DEF left, s, room
  <2>5. orders'[o].filled = orders[o].filled + q
    BY <2>2 DEF AccountTypeOK, OrderRow
  <2>6. \A x \in OrderIds : x # o => orders'[x].filled = orders[x].filled
    BY <2>2 DEF AccountTypeOK, OrderRow
  <2>7. OrdersGrow
    BY <2>4, <2>5, <2>6, FilledTypes DEF OrdersGrow
  <2> DEFINE e == OrderEvent(o, st, orders[o].filled + q, TRUE)
  <2>8. e \in Events /\ e.order = o /\ e.filled = orders[o].filled + q
    BY <2>4, FilledTypes DEF OrderEvent, Events
  <2>9. Emit(e)
    BY <2>2
  <2> HIDE DEF e
  <2>10. e.filled \in Nat /\ e.filled <= orders'[o].filled
    BY <2>4, <2>5, <2>8, FilledTypes
  <2>11. StreamSound'
    BY <2>7, <2>8, <2>9, <2>10, Emitted
  <2> QED BY <1>1, <2>7, <2>11, Carried
<1>3. ASSUME NEW o \in OrderIds, Expire(o) PROVE LedgerNeverAhead'
  BY <1>1, <1>3, CancelKeepsFills, Carried DEF Expire
<1>4. ASSUME NEW a \in algos, Trigger(a) PROVE LedgerNeverAhead'
  <2>1. UNCHANGED <<orders, book>> /\ Emit(StopEvent)
    BY <1>4 DEF Trigger, ExchangeStep, ledger
  <2> QED BY <2>1, StopMoves
<1>5. ASSUME LateArrival PROVE LedgerNeverAhead'
  <2>1. CASE \E r \in transit.orders :
               /\ orders' = IF Working(r[1]) THEN orders ELSE Accepted(r[1], r[2])
               /\ UNCHANGED stream
    BY <1>1, <2>1, AcceptedMoves
  <2>2. CASE UNCHANGED orders /\ \E a \in AlgoIds : AcceptStop(a)
    <3>1. Emit(StopEvent) /\ UNCHANGED <<orders, book>>
      BY <2>2 DEF AcceptStop, ExchangeStep, ledger
    <3> QED BY <3>1, StopMoves
  <2> QED BY <1>5, <2>1, <2>2 DEF LateArrival, Arrive, AccountTypeOK, Requests
<1> QED
  BY <1>2, <1>3, <1>4, <1>5 DEF ExchangeStep, AccountNext

\* The signal loop keeps LedgerNeverAhead.
LEMMA SignalStepLedger ==
    ASSUME TypeOK, TypeOK', LedgerNeverAhead, SignalStep
    PROVE  LedgerNeverAhead'
<1>1. UNCHANGED <<orders, stream>>
  BY DEF SignalStep, DeclineEntry, OpenShort, Configure, CloseShort, CloseNothing, Release,
         ProtectiveExit, SyncTrail, BeginExit, account, keepMarket, keepStream
<1>2. \/ book' = book
      \/ \E o, q : book' = NewOrder(o, q)
      \/ \E o : book' = Marked(o, "rejected")
  BY DEF SignalStep, DeclineEntry, OpenShort, Configure, CloseShort, CloseNothing, Release,
         ProtectiveExit, SyncTrail, BeginExit, ledger
<1>3. Sound(book')
  BY <1>2, SoundRows
<1> QED BY <1>1, <1>3, BookMoves

\* Placing and querying orders keeps LedgerNeverAhead: a REST answer tells the
\* exchange's row as it is.
LEMMA PlacementStepLedger ==
    ASSUME TypeOK, TypeOK', LedgerNeverAhead, PlacementStep
    PROVE  LedgerNeverAhead'
<1>1. ASSUME SubmitAccepted PROVE LedgerNeverAhead'
  <2>1. Sound(book')
    BY <1>1, SoundRows DEF SubmitAccepted
  <2> QED BY <1>1, <2>1, AcceptedMoves DEF SubmitAccepted, keepStream
<1>2. ASSUME SubmitTimedOut PROVE LedgerNeverAhead'
  <2>1. Sound(book')
    BY <1>2, SoundRows DEF SubmitTimedOut
  <2>2. UNCHANGED orders \/ orders' = Accepted(now.order, book[now.order].qty)
    BY <1>2 DEF SubmitTimedOut
  <2> QED BY <1>2, <2>1, <2>2, AcceptedMoves DEF SubmitTimedOut, keepStream
<1>3. ASSUME \/ SubmitRefused \/ SettleKnown \/ SettleTimedOut \/ ResolveFound
             \/ ResolveFailed \/ PendingCheck \/ ExitCheck \/ AbortQuery
      PROVE  LedgerNeverAhead'
  <2>1. UNCHANGED <<orders, stream>>
    BY <1>3 DEF SubmitRefused, SettleKnown, SettleTimedOut, ResolveFound, ResolveFailed,
                PendingCheck, ExitCheck, AbortQuery, account, keepMarket, keepStream
  <2>2. \/ book' = book
        \/ \E o, st : book' = Marked(o, st)
        \/ \E o : book' = Heard(o)
        \/ \E o, q : book' = NewOrder(o, q)
    BY <1>3 DEF SubmitRefused, SettleKnown, SettleTimedOut, ResolveFound, ResolveFailed,
                PendingCheck, ExitCheck, AbortQuery
  <2>3. Sound(book')
    BY <2>2, SoundRows
  <2> QED BY <2>1, <2>3, BookMoves
<1>4. ASSUME AbortCancel PROVE LedgerNeverAhead'
  <2>1. now.order \in OrderIds
    BY <1>4, OrderNow DEF AbortCancel, Due, OrderOps
  <2>2. \/ book' = book \/ book' = Heard(now.order)
        \/ book' = [book EXCEPT ![now.order].st = "dead",
                                ![now.order].filled = orders[now.order].filled]
    BY <1>4 DEF AbortCancel
  <2>3. Sound(book')
    <3>1. /\ \A o \in OrderIds : orders[o].filled \in Nat /\ book[o] \in BookRow
          /\ book \in [OrderIds -> BookRow] /\ Sound(book)
      BY FilledTypes, SoundRows DEF TypeOK, LedgerTypeOK
    <3>2. Sound([book EXCEPT ![now.order].st = "dead",
                             ![now.order].filled = orders[now.order].filled])
      BY <3>1 DEF Sound, BookRow
    <3> QED BY <2>2, <3>2, SoundRows
  <2>4. CancelWorking(now.order) \/ UNCHANGED <<orders, stream>>
    BY <1>4 DEF AbortCancel, account
  <2>5. CASE CancelWorking(now.order)
    BY <2>1, <2>3, <2>5, CancelKeepsFills, Carried
  <2> QED BY <2>3, <2>4, <2>5, BookMoves
<1>5. ASSUME FlattenCheck PROVE LedgerNeverAhead'
  <2> DEFINE done(x) == [x EXCEPT !.st = "closed", !.applied = x.filled]
  <2>1. book' = book \/ book' = [book EXCEPT ![now.order] = done(@), ![now.other] = done(@)]
    BY <1>5 DEF FlattenCheck
  <2>2. \A x \in BookRow : done(x).filled = x.filled /\ done(x).applied = x.filled /\ done(x) \in BookRow
    BY DEF BookRow, BookStatus
  <2>3. Sound(book')
    <3> HIDE DEF done
    <3>1. book \in [OrderIds -> BookRow] /\ Sound(book)
      BY SoundRows DEF TypeOK, LedgerTypeOK
    <3> QED BY <2>1, <2>2, <3>1 DEF Sound
  <2> QED BY <1>5, <2>3, BookMoves DEF FlattenCheck, keepMarket, keepStream
<1>6. ASSUME Raise PROVE LedgerNeverAhead'
  <2>1. UNCHANGED <<orders, book>> /\ (UNCHANGED stream \/ stream' = <<>>)
    BY <1>6 DEF Raise, StreamLost, keepMarket, keepStream
  <2> QED BY <2>1, SoundRows, BookMoves
<1> QED
  BY <1>1, <1>2, <1>3, <1>4, <1>5, <1>6 DEF PlacementStep

\* Booking fills keeps LedgerNeverAhead: at most the row's filled quantity is applied.
LEMMA PositionStepLedger ==
    ASSUME TypeOK, TypeOK', LedgerNeverAhead, PositionStep
    PROVE  LedgerNeverAhead'
<1>1. ASSUME \/ EntryFillApplied \/ EntryFillUnpriced \/ EntryFillNothing \/ Review
             \/ ProtectBegin \/ Emergency \/ Alarm \/ ExitFillUnpriced \/ ExitFillNothing
             \/ TrailSkipped
      PROVE  LedgerNeverAhead'
  <2>1. UNCHANGED <<orders, stream>>
    BY <1>1 DEF EntryFillApplied, EntryFillUnpriced, EntryFillNothing, Review, ProtectBegin,
       Emergency, Alarm, ExitFillUnpriced, ExitFillNothing, TrailSkipped, account, keepMarket,
       keepStream
  <2>2. \/ book' = book
        \/ \E o, q : book' = NewOrder(o, q)
        \/ EntryFillApplied
    BY <1>1 DEF EntryFillUnpriced, EntryFillNothing, Review, ProtectBegin,
       Emergency, Alarm, ExitFillUnpriced, ExitFillNothing, TrailSkipped
  <2>3. CASE EntryFillApplied
    <3>1. book' = Applied(now.order, Unapplied(now.order)) /\ now.order \in OrderIds
      BY <2>3, OrderNow DEF EntryFillApplied, Due, OrderOps
    <3>2. Unapplied(now.order) \in Int
      BY <3>1, UnappliedType DEF TypeOK
    <3>3. Sound(book')
      BY <3>1, <3>2, SoundRows
    <3> QED BY <2>1, <3>3, BookMoves
  <2> QED BY <2>1, <2>2, <2>3, SoundRows, BookMoves
<1>2. ASSUME ExitFillApplied PROVE LedgerNeverAhead'
  <2> DEFINE d == ExitDelta(now.order, now.trade)
  <2>1. now.order \in OrderIds /\ now.trade \in Trades
    BY <1>2, PlacementNow DEF ExitFillApplied, Due, PlacementOps
  <2>2. Unapplied(now.order) \in Int /\ pos[now.trade].qty \in Nat
    BY <2>1, UnappliedType DEF TypeOK, LedgerTypeOK, PositionRow
  <2>3. d \in Int /\ d <= Unapplied(now.order)
    BY <2>2 DEF ExitDelta
  <2>4. book' = Applied(now.order, d) /\ UNCHANGED <<orders, stream>>
    BY <1>2 DEF ExitFillApplied, account
  <2> HIDE DEF d
  <2> QED BY <2>3, <2>4, SoundRows, BookMoves
<1>3. ASSUME \/ PlaceStopAccepted \/ PlaceStopFailed \/ CancelAlgo
             \/ TrailPlaced \/ TrailFailed \/ TrailDisarmed
      PROVE  LedgerNeverAhead'
  <2>1. UNCHANGED <<orders, book>>
    BY <1>3 DEF PlaceStopAccepted, PlaceStopFailed, CancelAlgo, TrailPlaced, TrailFailed,
                TrailDisarmed
  <2>2. Emit(StopEvent) \/ UNCHANGED stream
    BY <1>3 DEF PlaceStopAccepted, PlaceStopFailed, PlaceUnconfirmed, CancelAlgo, TrailPlaced,
                TrailFailed, TrailDisarmed, AcceptStop, DropStop
  <2> QED BY <2>1, <2>2, StopMoves
<1> QED
  BY <1>1, <1>2, <1>3 DEF PositionStep

\* Taking a late event keeps LedgerNeverAhead: it tells of fills made before.
LEMMA StreamStepLedger ==
    ASSUME TypeOK, TypeOK', LedgerNeverAhead, StreamStep
    PROVE  LedgerNeverAhead'
<1>1. ASSUME HandleEvent PROVE LedgerNeverAhead'
  <2> DEFINE e == Head(stream)
             heard == [book EXCEPT ![e.order].st = e.st, ![e.order].filled = e.filled]
  <2>1. stream # <<>> /\ stream' = Tail(stream) /\ stream \in Seq(Events) /\ UNCHANGED orders
    BY <1>1 DEF HandleEvent, TypeOK, AccountTypeOK, keepMarket
  <2>2. e = stream[1] /\ 1 \in 1..Len(stream)
    BY <2>1
  <2>3. e.order \in OrderIds => e.filled <= orders[e.order].filled
    BY <2>2 DEF LedgerNeverAhead
  <2>4. book' = book \/ book' = heard
    BY <1>1 DEF HandleEvent
  <2>5. Sound(heard)
    <3>1. book \in [OrderIds -> BookRow] /\ Sound(book)
      BY SoundRows DEF TypeOK, LedgerTypeOK
    <3> HIDE DEF e
    <3> QED BY <2>3, <3>1 DEF Sound, BookRow
  <2>6. Sound(book')
    BY <2>4, <2>5, SoundRows
  <2>7. /\ Len(stream') = Len(stream) - 1 /\ Len(stream) \in Nat
        /\ \A i \in 1..Len(stream') : stream'[i] = stream[i + 1]
    BY <2>1, HeadTailProperties, LenProperties
  <2>8. StreamSound'
    BY <2>1, <2>7 DEF StreamSound, LedgerNeverAhead
  <2>9. OrdersGrow
    BY <2>1, FilledTypes DEF OrdersGrow
  <2> QED BY <2>6, <2>8, <2>9, Carried
<1>2. ASSUME DropStream \/ Reconnect PROVE LedgerNeverAhead'
  <2>1. UNCHANGED <<orders, book>> /\ (UNCHANGED stream \/ stream' = <<>>)
    BY <1>2 DEF DropStream, Reconnect, StreamLost, keepMarket, ledger
  <2> QED BY <2>1, SoundRows, BookMoves
<1> QED BY <1>1, <1>2 DEF StreamStep

\* Recovery and reconcile keep LedgerNeverAhead.
LEMMA ReconcileStepLedger ==
    ASSUME TypeOK, TypeOK', LedgerNeverAhead, ReconcileStep
    PROVE  LedgerNeverAhead'
<1>1. ASSUME CancelOrphanOrder PROVE LedgerNeverAhead'
  <2>1. now.order \in OrderIds /\ Sound(book')
    BY <1>1, OrderNow, SoundRows DEF CancelOrphanOrder, Due, OrderOps
  <2>2. CASE CancelWorking(now.order)
    BY <2>1, <2>2, CancelKeepsFills, Carried
  <2> QED BY <1>1, <2>1, <2>2, BookMoves DEF CancelOrphanOrder
<1>2. ASSUME NEW task \in Reconcilers,
             \/ FetchPositions(task) \/ FetchOrders(task) \/ FetchFails(task)
             \/ BeginReconcile(task)
      PROVE  LedgerNeverAhead'
  <2>1. UNCHANGED <<orders, book>> /\ (UNCHANGED stream \/ stream' = <<>>)
    BY <1>2 DEF FetchPositions, FetchOrders, FetchFails, BeginReconcile, StreamLost, account,
                ledger, keepMarket
  <2> QED BY <2>1, SoundRows, BookMoves
<1>3. ASSUME \/ Recover \/ Reconcile \/ CloseFlat \/ ReconcilePositions \/ ReconcilePosition
             \/ ReconcileIterate \/ ReconcileStrays \/ ReconcileDone
      PROVE  LedgerNeverAhead'
  <2>1. UNCHANGED <<orders, stream>> /\ (book' = book \/ \E o : book' = Heard(o))
    BY <1>3 DEF Recover, Reconcile, CloseFlat, ReconcilePositions, ReconcilePosition,
                ReconcileIterate, ReconcileStrays, ReconcileDone, account, keepMarket, keepStream
  <2> QED BY <2>1, SoundRows, BookMoves
<1> QED BY <1>1, <1>2, <1>3 DEF ReconcileStep

\* Every crash keeps LedgerNeverAhead, the one between save_order and save_position
\* included: that is where the row runs ahead of the position, but not of the exchange.
LEMMA CrashStepLedger ==
    ASSUME TypeOK, TypeOK', LedgerNeverAhead, CrashStep
    PROVE  LedgerNeverAhead'
<1>1. ASSUME Crash \/ Boot PROVE LedgerNeverAhead'
  <2>1. UNCHANGED <<orders, book>> /\ (UNCHANGED stream \/ stream' = <<>>)
    BY <1>1 DEF Crash, Boot, Die, account, ledger, keepMarket
  <2> QED BY <2>1, SoundRows, BookMoves
<1>2. ASSUME CrashAfterSend PROVE LedgerNeverAhead'
  <2>1. /\ UNCHANGED book /\ stream' = <<>>
        /\ UNCHANGED orders \/ orders' = Accepted(now.order, book[now.order].qty)
    BY <1>2 DEF CrashAfterSend, Die, ledger
  <2> QED BY <2>1, SoundRows, AcceptedMoves
<1>3. ASSUME CrashBetweenCommits PROVE LedgerNeverAhead'
  <2> DEFINE o == now.order
             d == IF Due("entry_fill") THEN Unapplied(o) ELSE ExitDelta(o, now.trade)
  <2>1. UNCHANGED orders /\ stream' = <<>>
    BY <1>3 DEF CrashBetweenCommits, Die, keepMarket
  <2>2. CASE UNCHANGED book
    BY <2>1, <2>2, SoundRows, BookMoves
  <2>3. CASE (Due("entry_fill") \/ Due("exit_fill")) /\ book' = Applied(o, d)
    <3>1. o \in OrderIds
      BY <2>3, OrderNow, PlacementNow DEF Due, OrderOps, PlacementOps
    <3>2. Unapplied(o) \in Int
      BY <3>1, UnappliedType DEF TypeOK
    <3>3. Due("exit_fill") => pos[now.trade].qty \in Nat
      BY PlacementNow DEF Due, PlacementOps, TypeOK, LedgerTypeOK, PositionRow
    <3>4. d \in Int /\ d <= Unapplied(o)
      BY <2>3, <3>2, <3>3 DEF ExitDelta
    <3> HIDE DEF d, o
    <3>5. Sound(book')
      BY <2>3, <3>4, SoundRows
    <3> QED BY <2>1, <3>5, BookMoves
  <2> QED BY <1>3, <2>2, <2>3 DEF CrashBetweenCommits
<1> QED BY <1>1, <1>2, <1>3 DEF CrashStep

(* In every execution, whatever answers are late or lost and wherever the process
   dies, the ledger of oms.py never holds or counts a fill the exchange has not
   made, and no event still in the stream tells of one. *)
THEOREM LedgerNeverAheadHolds == Spec => []LedgerNeverAhead
<1>1. Init => LedgerNeverAhead
  <2> SUFFICES ASSUME Init PROVE LedgerNeverAhead
    OBVIOUS
  <2>1. \A o \in OrderIds : /\ orders[o].filled = 0
                            /\ book[o].filled = 0 /\ book[o].applied = 0
    BY DEF Init, AccountInit, NeverSent, NoEntry
  <2>2. Len(stream) = 0
    BY DEF Init, AccountInit
  <2> QED BY <2>1, <2>2 DEF LedgerNeverAhead
<1>2. TypeOK /\ TypeOK' /\ LedgerNeverAhead /\ [Next]_vars => LedgerNeverAhead'
  <2> SUFFICES ASSUME TypeOK, TypeOK', LedgerNeverAhead, [Next]_vars
               PROVE  LedgerNeverAhead'
    OBVIOUS
  <2>1. CASE UNCHANGED vars
    BY <2>1 DEF LedgerNeverAhead, vars, account, ledger
  <2>2. CASE Next
    BY <2>2, ExchangeStepLedger, SignalStepLedger, PlacementStepLedger, PositionStepLedger,
       StreamStepLedger, ReconcileStepLedger, CrashStepLedger DEF Next
  <2> QED BY <2>1, <2>2
<1> QED
  BY <1>1, <1>2, TypeCorrect, PTL DEF Spec

-----------------------------------------------------------------------------
(***************************************************************************)
(* The live process implements the abstract signal queue.                  *)
(*                                                                         *)
(* What has to be known of a state is that the signal a handler is at work *)
(* on has been saved (SignalSaved); the type invariant gives that there is *)
(* one.  Then saving an intent takes the signal, saving the cursor passes  *)
(* it, and every other step leaves the queue alone.                        *)
(***************************************************************************)

\* handle_intent saves its intent before its first await.
SignalSaved == owner = "signal" => IdOf(NextSignal) \in intents

queueVars == <<intents, cursor, owner>>

\* A step that saves nothing and begins no signal.
Aside == UNCHANGED <<intents, cursor>> /\ owner' \in {owner} \cup (Owners \ {"signal"})

-----------------------------------------------------------------------------
\* The client ids of two signals differ (short_id).
LEMMA IdsDiffer ==
    ASSUME NEW x \in SignalRow, NEW y \in SignalRow, IdOf(x) = IdOf(y)
    PROVE  x = y
BY DEF SignalRow, IdOf, Entry, SignalExit

\* Saving the intent of a signal takes that signal and no other.
LEMMA SavedIsTaken ==
    ASSUME NEW x \in SignalRow, intents' = intents \cup {IdOf(x)}
    PROVE  TakenSignals' = TakenSignals \cup {x}
<1>1. \A y \in SignalRow : IdOf(y) \in intents' <=> IdOf(y) \in intents \/ y = x
  BY IdsDiffer
<1> QED BY <1>1 DEF TakenSignals, IdOf

\* The outbox has signals of the trades, and the next one while there is one.
LEMMA NextIsSignal ==
    ASSUME cursor \in 1..Len(Signals)
    PROVE  Signals[cursor] \in SignalRow
BY SignalAssumption, ElementOfSeq DEF SignalRow

\* _close_short saves its intent and leaves the cursor.
LEMMA ExitBegun ==
    ASSUME NEW o, NEW p, BeginExit(o, p)
    PROVE  intents' = intents \cup {o} /\ cursor' = cursor
BY DEF BeginExit

\* A protective exit has an id of its own.
LEMMA ProtectiveIsNoSignal ==
    ASSUME NEW p \in Trades, NEW o \in Fresh(p, "px"), intents' = intents \cup {o}
    PROVE  TakenSignals' = TakenSignals
<1>1. o.role = "px"
  BY DEF Fresh
<1>2. ASSUME NEW x \in SignalRow PROVE IdOf(x).role \in {"en", "ex"}
  BY DEF IdOf, Entry, SignalExit
<1>3. \A x \in SignalRow : IdOf(x) # o
  BY <1>1, <1>2
<1> QED BY <1>3 DEF TakenSignals, IdOf

-----------------------------------------------------------------------------
\* Every step but those of the signal loop, and the crash after save_intent, is aside.
LEMMA MostStepsAside ==
    ASSUME TypeOK, TypeOK',
           \/ ExchangeStep \/ PlacementStep \/ PositionStep \/ StreamStep \/ ReconcileStep
           \/ Crash \/ CrashAfterSend \/ Boot
    PROVE  Aside
<1>1. ExchangeStep => Aside
  BY DEF ExchangeStep, Aside, ledger, volatile
<1>2. PlacementStep => Aside
  <2>1. PlacementStep /\ ~Raise => Aside
    BY DEF PlacementStep, SubmitAccepted, SubmitRefused, SubmitTimedOut, SettleKnown,
           SettleTimedOut, ResolveFound, ResolveFailed, PendingCheck, ExitCheck, AbortCancel,
           AbortQuery, FlattenCheck, Aside, keepTask
  <2>2. Raise => Aside
    BY DEF Raise, Aside, Owners
  <2> QED BY <2>1, <2>2
<1>3. PositionStep => Aside
  BY DEF PositionStep, EntryFillApplied, EntryFillUnpriced, EntryFillNothing, Review,
         ProtectBegin, PlaceStopAccepted, PlaceStopFailed, CancelAlgo, Emergency, Alarm,
         ExitFillApplied, ExitFillUnpriced, ExitFillNothing, TrailSkipped, TrailPlaced,
         TrailFailed, TrailDisarmed, Aside, keepTask
<1>4. StreamStep => Aside
  BY DEF StreamStep, HandleEvent, DropStream, Reconnect, Aside, Take, ledger, volatile, Owners,
         Reconcilers
<1>5. ReconcileStep => Aside
  BY DEF ReconcileStep, FetchPositions, FetchOrders, FetchFails, BeginReconcile, Recover,
         Reconcile, CloseFlat, CancelOrphanOrder, ReconcilePositions, ReconcilePosition,
         ReconcileIterate, ReconcileStrays, ReconcileDone, Aside, Take, ledger, keepTask,
         Owners, Reconcilers
<1>6. Crash \/ CrashAfterSend \/ Boot => Aside
  BY DEF Crash, CrashAfterSend, Boot, Die, Aside, ledger, Owners
<1> QED BY <1>1, <1>2, <1>3, <1>4, <1>5, <1>6

-----------------------------------------------------------------------------
\* A step aside leaves the queue, and the saved signal saved.
LEMMA AsideKeeps ==
    ASSUME SignalSaved, Aside
    PROVE  SignalSaved' /\ Queue!Other
BY DEF SignalSaved, Aside, NextSignal, IdOf, Queue!Other, TakenSignals

\* The steps of the signal loop take or pass the signal they are at.
LEMMA SignalStepQueue ==
    ASSUME TypeOK, TypeOK', SignalSaved, SignalStep
    PROVE  SignalSaved' /\ Queue!Next
<1> DEFINE x == Signals[cursor]
<1>1. ASSUME DeclineEntry PROVE SignalSaved' /\ Queue!Next
  <2>1. cursor \in 1..Len(Signals) /\ x \in SignalRow /\ x.action = "open" /\ owner' = "none"
    BY <1>1, NextIsSignal, SignalAssumption DEF DeclineEntry, Polling, NextSignal, volatile
  <2>2. cursor' = cursor + 1 /\ (intents' = intents \/ intents' = intents \cup {IdOf(x)})
    BY <1>1, <2>1 DEF DeclineEntry, NextSignal, IdOf
  <2>3. CASE intents' = intents
    <3>1. Queue!Pass
      BY <2>1, <2>2, <2>3 DEF Queue!Pass, Queue!AtSignal, TakenSignals
    <3> QED BY <2>1, <3>1 DEF SignalSaved, Queue!Next
  <2>4. CASE intents' = intents \cup {IdOf(x)}
    <3>1. Queue!TakeAndPass
      BY <2>1, <2>2, <2>4, SavedIsTaken DEF Queue!TakeAndPass, Queue!AtSignal
    <3> QED BY <2>1, <3>1 DEF SignalSaved, Queue!Next
  <2> QED BY <2>2, <2>3, <2>4
<1>2. ASSUME CloseNothing PROVE SignalSaved' /\ Queue!Next
  <2>1. cursor \in 1..Len(Signals) /\ x \in SignalRow /\ x.action = "close" /\ owner' = "none"
    BY <1>2, NextIsSignal, SignalAssumption DEF CloseNothing, Polling, NextSignal, volatile
  <2>2. cursor' = cursor + 1 /\ intents' = intents \cup {IdOf(x)}
    BY <1>2, <2>1 DEF CloseNothing, NextSignal, IdOf
  <2>3. Queue!TakeAndPass
    BY <2>1, <2>2, SavedIsTaken DEF Queue!TakeAndPass, Queue!AtSignal
  <2> QED BY <2>1, <2>3 DEF SignalSaved, Queue!Next
<1>3. ASSUME OpenShort \/ CloseShort PROVE SignalSaved' /\ Queue!Next
  <2>1. cursor \in 1..Len(Signals) /\ x \in SignalRow /\ cursor' = cursor
    <3>1. Polling
      BY <1>3 DEF OpenShort, CloseShort
    <3>2. cursor' = cursor
      BY <1>3, ExitBegun DEF OpenShort, CloseShort
    <3> QED BY <3>1, <3>2, NextIsSignal, SignalAssumption DEF Polling
  <2>2. IdOf(x) \notin intents /\ intents' = intents \cup {IdOf(x)}
    BY <1>3, <2>1, ExitBegun DEF OpenShort, CloseShort, Duplicate, NextSignal, IdOf
  <2>3. x \notin TakenSignals
    BY <2>2 DEF TakenSignals
  <2>4. Queue!Take
    BY <2>1, <2>2, <2>3, SavedIsTaken DEF Queue!Take, Queue!AtSignal
  <2>5. SignalSaved'
    BY <2>1, <2>2 DEF SignalSaved, NextSignal, IdOf
  <2> QED BY <2>4, <2>5 DEF Queue!Next
<1>4. ASSUME Release PROVE SignalSaved' /\ Queue!Next
  <2>1. owner' = "none" /\ intents' = intents
    BY <1>4 DEF Release
  <2>2. CASE owner = "signal"
    <3>1. cursor \in 1..Len(Signals) /\ x \in SignalRow /\ cursor' = cursor + 1
      BY <1>4, <2>2, NextIsSignal DEF Release, TypeOK, TaskTypeOK
    <3>2. x \in TakenSignals
      BY <2>2, <3>1 DEF SignalSaved, NextSignal, TakenSignals
    <3>3. Queue!Pass
      BY <2>1, <3>1, <3>2 DEF Queue!Pass, Queue!AtSignal, TakenSignals
    <3> QED BY <2>1, <3>3 DEF SignalSaved, Queue!Next
  <2>3. CASE owner # "signal"
    <3>1. Aside
      BY <1>4, <2>1, <2>3 DEF Release, Aside, Owners
    <3> QED BY <3>1, AsideKeeps DEF Queue!Next
  <2> QED BY <2>2, <2>3
<1>5. ASSUME NEW p \in Trades, ProtectiveExit(p) PROVE SignalSaved' /\ Queue!Next
  <2>1. cursor' = cursor /\ owner' = "guard" /\ \E o \in Fresh(p, "px") : intents' = intents \cup {o}
    BY <1>5, ExitBegun DEF ProtectiveExit, Take
  <2>2. TakenSignals' = TakenSignals
    BY <2>1, ProtectiveIsNoSignal
  <2>3. Queue!Other
    BY <2>1, <2>2 DEF Queue!Other
  <2> QED BY <2>1, <2>3 DEF SignalSaved, Queue!Next
<1>6. ASSUME NEW p \in Trades, Configure \/ SyncTrail(p) PROVE SignalSaved' /\ Queue!Next
  <2>1. Aside
    BY <1>6 DEF Configure, SyncTrail, Take, Aside, ledger, Owners
  <2> QED BY <2>1, AsideKeeps DEF Queue!Next
<1>7. ASSUME Configure PROVE SignalSaved' /\ Queue!Next
  <2>1. Aside
    BY <1>7 DEF Configure, Aside
  <2> QED BY <2>1, AsideKeeps DEF Queue!Next
<1> QED
  BY <1>1, <1>2, <1>3, <1>4, <1>5, <1>6, <1>7 DEF SignalStep

\* A crash right after save_intent takes the signal; the replay will pass it.
LEMMA CrashStepQueue ==
    ASSUME TypeOK, TypeOK', SignalSaved, CrashBetweenCommits
    PROVE  SignalSaved' /\ Queue!Next
<1> DEFINE x == Signals[cursor]
<1>1. cursor' = cursor /\ owner' = "none"
  BY DEF CrashBetweenCommits, Die
<1>2. CASE UNCHANGED intents
  <2>1. Queue!Other
    BY <1>1, <1>2 DEF Queue!Other, TakenSignals
  <2> QED BY <1>1, <2>1 DEF SignalSaved, Queue!Next
<1>3. CASE Polling /\ intents' = intents \cup {IdOf(x)}
  <2>1. cursor \in 1..Len(Signals) /\ x \in SignalRow
    BY <1>3, NextIsSignal, SignalAssumption DEF Polling
  <2>2. TakenSignals' = TakenSignals \cup {x}
    BY <1>3, <2>1, SavedIsTaken
  <2>3. Queue!Take \/ Queue!Other
    BY <1>1, <2>1, <2>2 DEF Queue!Take, Queue!Other, Queue!AtSignal
  <2> QED BY <1>1, <2>3 DEF SignalSaved, Queue!Next
<1> QED BY <1>2, <1>3 DEF CrashBetweenCommits, NextSignal, IdOf

(* In every execution the signals of the outbox are passed in order, each is taken
   at most once however often it is replayed, and no exit is passed over: what
   oms.py and service.py do between save_intent and _save_cursor implements
   SignalQueue. *)
THEOREM ImplementsQueue == Spec => QueueSpec
<1>1. Init => SignalSaved /\ Queue!Init
  <2> SUFFICES ASSUME Init PROVE SignalSaved /\ Queue!Init
    OBVIOUS
  <2>1. owner = "none" /\ cursor = 1 /\ intents = {}
    BY DEF Init
  <2>2. Signals \in Seq(SignalRow) /\ Len(Signals) \in Nat
    BY SignalAssumption, LenProperties DEF SignalRow
  <2>3. Queue!Init
    BY <2>1, <2>2 DEF Queue!Init, TakenSignals
  <2> QED BY <2>1, <2>3 DEF SignalSaved
<1>2. TypeOK /\ TypeOK' /\ SignalSaved /\ [Next]_vars
        => SignalSaved' /\ [Queue!Next]_(Queue!queue)
  <2> SUFFICES ASSUME TypeOK, TypeOK', SignalSaved, [Next]_vars
               PROVE  SignalSaved' /\ (Queue!Next \/ UNCHANGED Queue!queue)
    OBVIOUS
  <2>1. CASE UNCHANGED vars
    BY <2>1 DEF vars, ledger, volatile, SignalSaved, NextSignal, IdOf, TakenSignals, Queue!queue
  <2>2. CASE SignalStep
    BY <2>2, SignalStepQueue
  <2>3. CASE CrashBetweenCommits
    BY <2>3, CrashStepQueue
  <2>4. CASE Next /\ ~SignalStep /\ ~CrashBetweenCommits
    <3>1. Aside
      BY <2>4, MostStepsAside DEF Next, CrashStep
    <3> QED BY <3>1, AsideKeeps DEF Queue!Next
  <2> QED BY <2>1, <2>2, <2>3, <2>4
<1> QED
  BY <1>1, <1>2, TypeCorrect, PTL DEF Spec, QueueSpec, Queue!Spec

-----------------------------------------------------------------------------
(***************************************************************************)
(* No client order id is sent twice.                                       *)
(*                                                                         *)
(* SentAtMostOnce is not inductive: what it needs is that the agenda asks  *)
(* to submit an id once, and only while neither the exchange nor a request *)
(* under way knows it; that a saved row never counts as unused again       *)
(* (nor an event nor an answer makes it so); and that a new id is unused,  *)
(* for signals because their intents are saved, for timed ids because      *)
(* those of a trade and role are used in order.                            *)
(***************************************************************************)

\* The row of an id is saved: in book b.
Saved(b, o) == b[o].st # "none"

\* Neither the exchange os nor a request under way rs knows the id.
Unsent(os, rs, o) == os[o].qty = 0 /\ \A r \in rs : r[1] # o

\* The orders a step writes are saved; one it submits is unsent, and one it
\* polls is known to the exchange.
StepSound(b, os, rs, x) ==
    /\ x.op # "cancel_order" /\ x.order \in OrderIds => Saved(b, x.order)
    /\ x.other \in OrderIds => Saved(b, x.other)
    /\ x.op = "submit" => x.order \in OrderIds /\ Unsent(os, rs, x.order)
    /\ x.op = "settle" => x.order \in OrderIds /\ os[x.order].st # "none"

StepsSound(b, os, rs, steps) ==
    \A i \in 1..Len(steps) : StepSound(b, os, rs, steps[i])

\* A handler submits at once, or after it has configured the symbol.
SubmitsFirst(steps) ==
    \A i \in 2..Len(steps) :
      /\ steps[i].op # "configure"
      /\ steps[i].op = "submit" => i = 2 /\ steps[1].op = "configure"

AgendaSound == StepsSound(book, orders, transit.orders, agenda) /\ SubmitsFirst(agenda)

\* What the exchange has of an id, and may still get.
RowsSound ==
    \A o \in OrderIds :
      /\ orders[o].qty <= book[o].qty
      /\ orders[o].st = "none" => orders[o].qty = 0 /\ orders[o].filled = 0
      /\ ~Saved(book, o) => Unsent(orders, transit.orders, o)

RequestsSound ==
    /\ \A r \in transit.orders : orders[r[1]].qty = 0 /\ r[2] <= book[r[1]].qty
    /\ \A r1, r2 \in transit.orders : r1[1] = r2[1] => r1 = r2

EventsSound ==
    \A i \in 1..Len(stream) : stream[i].order \in OrderIds => stream[i].st # "none"

\* Which ids are used.
IdsSound ==
    /\ \A o \in loaded : Saved(book, o)
    /\ \A o \in SignalIds : Saved(book, o) => o \in intents
    /\ \A o \in TimedIds : Saved(book, o) =>
         \A m \in 1..o.n : Saved(book, [o EXCEPT !.n = m])

SentInv == AgendaSound /\ RowsSound /\ RequestsSound /\ EventsSound /\ IdsSound

-----------------------------------------------------------------------------
(***************************************************************************)
(* What most steps have in common.                                         *)
(***************************************************************************)

\* The rows of b are saved and sized as those of the book.
Kept(b) ==
    \A o \in OrderIds : b[o].qty = book[o].qty /\ (Saved(b, o) <=> Saved(book, o))

\* No order was placed, and none is forgotten.
NonePlaced ==
    /\ transit'.orders = transit.orders
    /\ \A o \in OrderIds :
         /\ orders'[o].qty = orders[o].qty
         /\ orders'[o].st = "none" => orders[o].st = "none" /\ orders'[o].filled = orders[o].filled

\* Ids and orders that were known still are.
Remembered ==
    \A o \in OrderIds : /\ Saved(book, o) => Saved(book', o)
                        /\ orders[o].st # "none" => orders'[o].st # "none"

\* Steps that neither place nor poll an order, about saved orders.
HarmlessOps == Ops \ {"submit", "settle", "configure"}
HarmlessSteps ==
    {x \in StepType :
       /\ x.op \in HarmlessOps
       /\ x.op # "cancel_order" /\ x.order \in OrderIds => Saved(book, x.order)
       /\ x.other \in OrderIds => Saved(book, x.other)}

\* The parts of the account and the ledger the invariant reads have their types.
LEMMA RowTypes ==
    ASSUME TypeOK
    PROVE  /\ orders \in [OrderIds -> OrderRow] /\ book \in [OrderIds -> BookRow]
           /\ \A o \in OrderIds : /\ orders[o].qty \in Nat /\ orders[o].filled \in Nat
                                  /\ book[o].qty \in Nat
           /\ \A r \in transit.orders : r[1] \in OrderIds /\ r[2] \in Nat /\ r = <<r[1], r[2]>>
           /\ loaded \subseteq OrderIds /\ intents \subseteq OrderIds
           /\ stream \in Seq(Events) /\ agenda \in Seq(StepsOf(owner))
           /\ Len(agenda) \in Nat /\ Len(stream) \in Nat
<1>1. \A r \in OrderIds \X Nat : r[1] \in OrderIds /\ r[2] \in Nat /\ r = <<r[1], r[2]>>
  OBVIOUS
<1>2. transit.orders \subseteq OrderIds \X Nat
  BY DEF TypeOK, AccountTypeOK, Requests
<1> QED
  BY <1>1, <1>2 DEF TypeOK, AccountTypeOK, LedgerTypeOK, TaskTypeOK, OrderRow, BookRow

\* The due step is sound.
LEMMA NowSound ==
    ASSUME TypeOK, SentInv, agenda # <<>>
    PROVE  /\ StepSound(book, orders, transit.orders, now)
           /\ now = agenda[1] /\ 1 \in 1..Len(agenda)
<1>1. agenda \in Seq(StepsOf(owner)) /\ Len(agenda) \in Nat
  BY RowTypes
<1>2. now = agenda[1] /\ 1 \in 1..Len(agenda)
  BY <1>1 DEF now
<1> QED
  BY <1>2 DEF SentInv, AgendaSound, StepsSound

\* Steps that neither place nor poll an order are sound whatever the exchange has.
LEMMA HarmlessSound ==
    ASSUME Remembered, NEW steps \in Seq(HarmlessSteps), NEW os, NEW rs
    PROVE  /\ StepsSound(book', os, rs, steps) /\ SubmitsFirst(steps)
           /\ steps \in Seq(StepType)
<1>1. \A i \in 1..Len(steps) : steps[i] \in HarmlessSteps
  BY ElementOfSeq
<1>2. StepsSound(book', os, rs, steps)
  BY <1>1 DEF HarmlessSteps, HarmlessOps, StepsSound, StepSound, Remembered
<1>3. SubmitsFirst(steps)
  <2>1. \A i \in 2..Len(steps) : i \in 1..Len(steps)
    OBVIOUS
  <2> QED BY <1>1, <2>1 DEF HarmlessSteps, HarmlessOps, SubmitsFirst
<1>4. steps \in Seq(StepType)
  BY SeqMonotonic DEF HarmlessSteps
<1> QED BY <1>2, <1>3, <1>4

\* A segment puts steps before the rest of its handler, or ends it with steps.
LEMMA Handled ==
    ASSUME TypeOK, SentInv, agenda # <<>>, now.op # "configure", Remembered,
           NEW steps \in Seq(StepType), agenda' = steps \o Tail(agenda) \/ agenda' = steps,
           StepsSound(book', orders', transit'.orders, steps), SubmitsFirst(steps)
    PROVE  AgendaSound'
<1>1. CASE agenda' = steps
  BY <1>1 DEF AgendaSound
<1>2. CASE agenda' = steps \o Tail(agenda)
  <2>1. agenda \in Seq(StepsOf(owner)) /\ now = agenda[1] /\ Len(agenda) \in Nat \ {0}
    BY RowTypes, NowSound
  <2>2. /\ Len(steps) \in Nat /\ Len(agenda') = Len(steps) + Len(agenda) - 1
        /\ \A i \in 1..Len(steps) : agenda'[i] = steps[i]
        /\ \A i \in 1..Len(agenda') : i > Len(steps) => agenda'[i] = agenda[i - Len(steps) + 1]
    BY <1>2, <2>1, HeadTailProperties, ConcatProperties, LenProperties
  <2>3. \A j \in 2..Len(agenda) : agenda[j].op \notin {"configure", "submit"}
    BY <2>1 DEF SentInv, AgendaSound, SubmitsFirst
  <2>4. \A j \in 2..Len(agenda) : StepSound(book', orders', transit'.orders, agenda[j])
    <3> SUFFICES ASSUME NEW j \in 2..Len(agenda)
                 PROVE  StepSound(book', orders', transit'.orders, agenda[j])
      OBVIOUS
    <3>1. StepSound(book, orders, transit.orders, agenda[j]) /\ agenda[j].op # "submit"
      BY <2>1, <2>3 DEF SentInv, AgendaSound, StepsSound
    <3> QED BY <3>1 DEF StepSound, Remembered
  <2>5. ASSUME NEW i \in 1..Len(agenda'), i > Len(steps)
        PROVE  /\ StepSound(book', orders', transit'.orders, agenda'[i])
               /\ agenda'[i].op \notin {"configure", "submit"}
    <3>1. i - Len(steps) + 1 \in 2..Len(agenda)
      BY <2>1, <2>2, <2>5
    <3> QED BY <2>2, <2>3, <2>4, <2>5, <3>1
  <2>6. StepsSound(book', orders', transit'.orders, agenda')
    BY <2>2, <2>5 DEF StepsSound
  <2>7. SubmitsFirst(agenda')
    <3> SUFFICES ASSUME NEW i \in 2..Len(agenda')
                 PROVE  /\ agenda'[i].op # "configure"
                        /\ agenda'[i].op = "submit" => i = 2 /\ agenda'[1].op = "configure"
      BY DEF SubmitsFirst
    <3>1. CASE i > Len(steps)
      BY <2>2, <2>5, <3>1
    <3>2. CASE i <= Len(steps)
      BY <2>2, <3>2 DEF SubmitsFirst
    <3> QED BY <2>2, <3>1, <3>2
  <2> QED BY <2>6, <2>7 DEF AgendaSound
<1> QED BY <1>1, <1>2

\* A segment that leaves the agenda alone keeps it sound if no id it has still to submit is sent.
LEMMA AgendaLeft ==
    ASSUME SentInv, UNCHANGED agenda, Remembered,
           \A o \in OrderIds : Unsent(orders, transit.orders, o)
                                 => Unsent(orders', transit'.orders, o)
    PROVE  AgendaSound'
BY DEF SentInv, AgendaSound, StepsSound, StepSound, Remembered

\* An id used before another of its trade and role is a timed id.
LEMMA EarlierId ==
    ASSUME NEW o \in TimedIds, NEW m \in 1..o.n
    PROVE  [o EXCEPT !.n = m] \in TimedIds /\ [o EXCEPT !.n = m] \in OrderIds
BY AccountAssumption DEF TimedIds, OrderIds

\* Writing saved rows as saved rows keeps what is known of the ids.
LEMMA IdsLeft ==
    ASSUME TypeOK, SentInv, Kept(book'), loaded' \subseteq loaded, intents \subseteq intents'
    PROVE  IdsSound'
<1>1. loaded \subseteq OrderIds /\ SignalIds \subseteq OrderIds /\ TimedIds \subseteq OrderIds
  BY RowTypes DEF OrderIds
<1>2. \A o \in loaded' : Saved(book', o)
  BY <1>1 DEF Kept, SentInv, IdsSound
<1>3. \A o \in SignalIds : Saved(book', o) => o \in intents'
  BY <1>1 DEF Kept, SentInv, IdsSound
<1>4. ASSUME NEW o \in TimedIds, Saved(book', o), NEW m \in 1..o.n
      PROVE  Saved(book', [o EXCEPT !.n = m])
  <2>1. Saved(book, [o EXCEPT !.n = m])
    BY <1>1, <1>4 DEF Kept, SentInv, IdsSound
  <2> QED BY <2>1, EarlierId DEF Kept
<1> QED BY <1>2, <1>3, <1>4 DEF IdsSound

\* A segment that places no order keeps what the exchange has of every id.
LEMMA RowsLeft ==
    ASSUME TypeOK, SentInv, Kept(book'), NonePlaced
    PROVE  RowsSound' /\ RequestsSound' /\ Remembered
<1>1. RowsSound'
  BY DEF Kept, NonePlaced, SentInv, RowsSound, Unsent
<1>2. RequestsSound'
  BY RowTypes DEF Kept, NonePlaced, SentInv, RequestsSound
<1>3. Remembered
  BY DEF Kept, NonePlaced, Remembered
<1> QED BY <1>1, <1>2, <1>3

\* Every way a handler writes the row of a saved order keeps it saved.
LEMMA KeptRows ==
    ASSUME TypeOK, NEW o
    PROVE  /\ Kept(book)
           /\ \A st : (o \in OrderIds => Saved(book, o)) /\ st # "none" => Kept(Marked(o, st))
           /\ (o \in OrderIds => Saved(book, o) /\ orders[o].st # "none") => Kept(Heard(o))
           /\ \A d : Kept(Applied(o, d))
<1>1. book \in [OrderIds -> BookRow]
  BY RowTypes
<1>2. Kept(book)
  BY DEF Kept
<1>3. ASSUME NEW st, o \in OrderIds => Saved(book, o), st # "none"
      PROVE  Kept(Marked(o, st))
  BY <1>1, <1>3 DEF Kept, Marked, Saved, BookRow
<1>4. ASSUME o \in OrderIds => Saved(book, o) /\ orders[o].st # "none"
      PROVE  Kept(Heard(o))
  BY <1>1, <1>4 DEF Kept, Heard, Saved, BookRow
<1>5. ASSUME NEW d PROVE Kept(Applied(o, d))
  BY <1>1 DEF Kept, Applied, Saved, BookRow
<1> QED BY <1>2, <1>3, <1>4, <1>5

\* The next id of a role is unused, and every earlier one is used.
LEMMA FreshIsNew ==
    ASSUME TypeOK, SentInv, NEW t, NEW role, NEW o \in Fresh(t, role)
    PROVE  /\ o \in TimedIds /\ o \in OrderIds /\ ~Saved(book, o)
           /\ \A m \in 1..(o.n - 1) : Saved(book, [o EXCEPT !.n = m])
<1> DEFINE used == {x \in TimedIds : x.trade = t /\ x.role = role /\ book[x].st # "none"}
           k == Cardinality(used)
           id(m) == [o EXCEPT !.n = m]
<1>1. /\ o \in TimedIds /\ o \in OrderIds /\ o.trade = t /\ o.role = role /\ o.n = k + 1
      /\ o.n \in 1..MaxIds /\ MaxIds \in Nat
  BY AccountAssumption DEF Fresh, OrderIds, TimedIds
<1>2. IsFiniteSet(used) /\ k \in Nat
  BY OrderIdsFinite, FS_Subset, FS_CardinalityType DEF OrderIds
<1>3. \A m \in 1..o.n : id(m) \in TimedIds /\ id(m).trade = t /\ id(m).role = role /\ id(m).n = m
  BY <1>1 DEF TimedIds
<1>4. \A x \in used : \A m \in 1..x.n :
        /\ x.n \in Nat
        /\ m \in 1..o.n => [x EXCEPT !.n = m] = id(m)
        /\ Saved(book, [x EXCEPT !.n = m])
  <2> SUFFICES ASSUME NEW x \in used, NEW m \in 1..x.n
               PROVE  /\ x.n \in Nat
                      /\ m \in 1..o.n => [x EXCEPT !.n = m] = id(m)
                      /\ Saved(book, [x EXCEPT !.n = m])
    OBVIOUS
  <2>1. x \in TimedIds /\ x.trade = t /\ x.role = role /\ Saved(book, x)
    BY DEF Saved
  <2>2. Saved(book, [x EXCEPT !.n = m])
    BY <2>1 DEF SentInv, IdsSound
  <2>3. [x EXCEPT !.n = m] = [trade |-> t, role |-> role, n |-> m] /\ x.n \in Nat
    BY <2>1, AccountAssumption DEF TimedIds
  <2>4. id(m) = [trade |-> t, role |-> role, n |-> m]
    BY <1>1 DEF TimedIds
  <2> QED BY <2>2, <2>3, <2>4
<1> HIDE DEF k
<1>5. ~Saved(book, o)
  <2> SUFFICES ASSUME Saved(book, o) PROVE FALSE
    OBVIOUS
  <2> DEFINE g == [m \in 1..(k + 1) |-> id(m)]
  <2>1. \A m \in 1..(k + 1) : Saved(book, id(m))
    BY <1>1 DEF SentInv, IdsSound
  <2>2. \A m \in 1..(k + 1) : id(m) \in used
    BY <1>1, <1>3, <2>1 DEF Saved
  <2>3. \A m, n \in 1..(k + 1) : id(m) = id(n) => m = n
    <3>1. \A m \in 1..(k + 1) : id(m).n = m
      BY <1>1, <1>3
    <3> HIDE DEF id
    <3> QED BY <3>1
  <2> HIDE DEF id, used
  <2>4. g \in Injection(1..(k + 1), used)
    BY <2>2, <2>3 DEF Injection, IsInjective
  <2>5. Cardinality(1..(k + 1)) <= k
    BY <1>2, <2>4, FS_Injection DEF k
  <2>6. Cardinality(1..(k + 1)) = k + 1
    BY <1>2, FS_Interval
  <2> QED BY <1>2, <2>5, <2>6
<1>6. ASSUME NEW m \in 1..(o.n - 1) PROVE Saved(book, id(m))
  <2> SUFFICES ASSUME ~Saved(book, id(m)) PROVE FALSE
    OBVIOUS
  <2> DEFINE f == [x \in used |-> x.n]
  <2>1. m \in 1..k /\ m \in 1..o.n
    BY <1>1, <1>2
  <2>2. \A x \in used : x.n \in 1..(m - 1)
    <3> SUFFICES ASSUME NEW x \in used, x.n \notin 1..(m - 1) PROVE FALSE
      OBVIOUS
    <3>1. x.n \in 1..MaxIds
      BY DEF TimedIds
    <3>2. m \in 1..x.n
      BY <1>1, <2>1, <3>1
    <3> QED BY <1>4, <2>1, <3>2
  <2>3. \A x, y \in used : x.n = y.n => x = y
    BY DEF TimedIds
  <2> HIDE DEF used
  <2>4. f \in Injection(used, 1..(m - 1))
    BY <2>2, <2>3 DEF Injection, IsInjective
  <2>5. IsFiniteSet(1..(m - 1)) /\ Cardinality(1..(m - 1)) = m - 1
    <3>1. m - 1 \in Nat
      BY <2>1
    <3>2. \A n \in Nat : IsFiniteSet(1..n) /\ Cardinality(1..n) = n
      BY FS_Interval
    <3> QED BY <3>1, <3>2
  <2>6. k <= Cardinality(1..(m - 1))
    BY <2>4, <2>5, FS_Injection DEF k
  <2> QED BY <1>2, <2>1, <2>5, <2>6
<1> QED BY <1>1, <1>5, <1>6

\* A new order is saved before it is sent.
LEMMA Ordered ==
    ASSUME TypeOK, SentInv, NEW o \in OrderIds, NEW q \in Nat, ~Saved(book, o),
           book' = NewOrder(o, q), UNCHANGED <<orders, transit>>,
           loaded' = loaded \cup {o}, intents \subseteq intents',
           o \in SignalIds => o \in intents',
           o \in TimedIds => \A m \in 1..(o.n - 1) : Saved(book, [o EXCEPT !.n = m])
    PROVE  /\ RowsSound' /\ RequestsSound' /\ IdsSound' /\ Remembered
           /\ Saved(book', o) /\ Unsent(orders', transit'.orders, o)
<1>1. /\ book'[o].qty = q /\ Saved(book', o)
      /\ \A x \in OrderIds : x # o => book'[x] = book[x]
  BY RowTypes DEF NewOrder, NoEntry, Saved
<1>2. Unsent(orders, transit.orders, o)
  BY DEF SentInv, RowsSound
<1>3. Remembered
  BY <1>1 DEF Remembered, Saved
<1>4. RowsSound'
  <2> SUFFICES ASSUME NEW x \in OrderIds
               PROVE  /\ orders[x].qty <= book'[x].qty
                      /\ orders[x].st = "none" => orders[x].qty = 0 /\ orders[x].filled = 0
                      /\ ~Saved(book', x) => Unsent(orders, transit.orders, x)
    BY DEF RowsSound
  <2>1. CASE x = o
    BY <1>1, <1>2, <2>1 DEF SentInv, RowsSound, Unsent
  <2>2. CASE x # o
    BY <1>1, <2>2 DEF SentInv, RowsSound, Saved
  <2> QED BY <2>1, <2>2
<1>5. RequestsSound'
  <2>1. \A r \in transit.orders : r[1] \in OrderIds /\ r[1] # o
    BY <1>2, RowTypes DEF Unsent
  <2> QED BY <1>1, <2>1 DEF SentInv, RequestsSound
<1>6. IdsSound'
  <2>1. loaded \subseteq OrderIds /\ SignalIds \subseteq OrderIds /\ TimedIds \subseteq OrderIds
    BY RowTypes DEF OrderIds
  <2>2. \A x \in loaded' : Saved(book', x)
    BY <1>1, <1>3, <2>1 DEF SentInv, IdsSound, Remembered
  <2>3. \A x \in SignalIds : Saved(book', x) => x \in intents'
    BY <1>1, <2>1 DEF SentInv, IdsSound, Saved
  <2>4. ASSUME NEW x \in TimedIds, Saved(book', x), NEW m \in 1..x.n
        PROVE  Saved(book', [x EXCEPT !.n = m])
    <3>1. CASE x # o
      <4>1. Saved(book, [x EXCEPT !.n = m])
        BY <1>1, <2>1, <2>4, <3>1 DEF SentInv, IdsSound, Saved
      <4> QED BY <1>3, <4>1, EarlierId DEF Remembered
    <3>2. CASE x = o /\ m = o.n
      BY <1>1, <3>2 DEF TimedIds
    <3>3. CASE x = o /\ m # o.n
      <4>1. m \in 1..(o.n - 1)
        BY <3>3, AccountAssumption DEF TimedIds
      <4>2. Saved(book, [x EXCEPT !.n = m])
        BY <3>3, <4>1
      <4> QED BY <1>3, <4>2, EarlierId DEF Remembered
    <3> QED BY <3>1, <3>2, <3>3
  <2> QED BY <2>2, <2>3, <2>4 DEF IdsSound
<1> QED BY <1>1, <1>2, <1>3, <1>4, <1>5, <1>6

\* Sending an unsent order, or leaving its request under way, sends no more than was saved.
LEMMA Placed ==
    ASSUME TypeOK, SentInv, NEW o \in OrderIds, Saved(book, o),
           Unsent(orders, transit.orders, o), Kept(book'),
           \/ orders' = Accepted(o, book[o].qty) /\ transit'.orders = transit.orders
           \/ /\ UNCHANGED orders
              /\ transit'.orders = transit.orders \cup {<<o, book[o].qty>>}
    PROVE  RowsSound' /\ RequestsSound' /\ Remembered
<1>1. CASE orders' = Accepted(o, book[o].qty) /\ transit'.orders = transit.orders
  <2>1. /\ orders'[o].qty = book[o].qty /\ orders'[o].st = "live"
        /\ \A x \in OrderIds : x # o => orders'[x] = orders[x]
    BY <1>1, RowTypes DEF Accepted, Unsent
  <2>2. RowsSound'
    BY <1>1, <2>1, RowTypes DEF Kept, SentInv, RowsSound, Unsent
  <2>3. RequestsSound'
    <3>1. \A r \in transit.orders : r[1] \in OrderIds /\ r[1] # o
      BY RowTypes DEF Unsent
    <3> QED BY <1>1, <2>1, <3>1 DEF Kept, SentInv, RequestsSound
  <2>4. Remembered
    BY <2>1 DEF Kept, Remembered
  <2> QED BY <2>2, <2>3, <2>4
<1>2. CASE UNCHANGED orders /\ transit'.orders = transit.orders \cup {<<o, book[o].qty>>}
  <2>1. RowsSound'
    BY <1>2 DEF Kept, SentInv, RowsSound, Unsent
  <2>2. RequestsSound'
    <3>1. \A r \in transit.orders : r[1] \in OrderIds /\ r[1] # o /\ r # <<o, book[o].qty>>
      BY RowTypes DEF Unsent
    <3>2. \A r \in transit'.orders :
            r \in transit.orders \/ (r = <<o, book[o].qty>> /\ r[1] = o /\ r[2] = book[o].qty)
      BY <1>2
    <3>3. \A r \in transit'.orders : orders'[r[1]].qty = 0 /\ r[2] <= book'[r[1]].qty
      BY <1>2, <3>1, <3>2, RowTypes DEF Kept, SentInv, RequestsSound, Unsent
    <3>4. \A r1, r2 \in transit'.orders : r1[1] = r2[1] => r1 = r2
      BY <3>1, <3>2 DEF SentInv, RequestsSound
    <3> QED BY <3>3, <3>4 DEF RequestsSound
  <2>3. Remembered
    BY <1>2 DEF Kept, Remembered
  <2> QED BY <2>1, <2>2, <2>3
<1> QED BY <1>1, <1>2

\* A request that arrives late is the only one of its order, which has nothing yet.
LEMMA Arrived ==
    ASSUME TypeOK, SentInv, UNCHANGED book, NEW r \in transit.orders,
           transit'.orders = transit.orders \ {r},
           orders' = IF Working(r[1]) THEN orders ELSE Accepted(r[1], r[2])
    PROVE  /\ RowsSound' /\ RequestsSound' /\ Remembered
           /\ \A o \in OrderIds : Unsent(orders, transit.orders, o)
                                    => Unsent(orders', transit'.orders, o)
<1>1. r[1] \in OrderIds /\ r[2] \in Nat /\ orders[r[1]].qty = 0 /\ r[2] <= book[r[1]].qty
  BY RowTypes DEF SentInv, RequestsSound
<1>2. /\ \A x \in OrderIds : x # r[1] => orders'[x] = orders[x]
      /\ orders'[r[1]].qty \in {0, r[2]}
      /\ orders'[r[1]].st = "live"
  BY <1>1, RowTypes DEF Accepted, Working
<1>3. \A s \in transit'.orders : s[1] \in OrderIds /\ s[1] # r[1]
  BY RowTypes DEF SentInv, RequestsSound
<1>4. \A o \in OrderIds : Unsent(orders, transit.orders, o) => Unsent(orders', transit'.orders, o)
  BY <1>2 DEF Unsent
<1>5. Saved(book, r[1])
  BY <1>1 DEF SentInv, RowsSound, Unsent
<1>6. RowsSound'
  BY <1>1, <1>2, <1>4, <1>5, RowTypes DEF SentInv, RowsSound
<1>7. RequestsSound'
  BY <1>2, <1>3 DEF SentInv, RequestsSound
<1>8. Remembered
  BY <1>2 DEF Remembered
<1> QED BY <1>4, <1>6, <1>7, <1>8

-----------------------------------------------------------------------------
(***************************************************************************)
(* The user stream and the exchange's own steps.                           *)
(***************************************************************************)

\* A stream left alone or lost tells nothing new.
LEMMA EventsLeft ==
    ASSUME SentInv, UNCHANGED stream \/ stream' = <<>>
    PROVE  EventsSound'
BY DEF SentInv, EventsSound

\* An event that knows the order it is about keeps the stream sound.
LEMMA EventAdded ==
    ASSUME TypeOK, SentInv, NEW e, e \in Events, Emit(e),
           e.order \in OrderIds => e.st # "none"
    PROVE  EventsSound'
<1>1. CASE stream' = stream
  BY <1>1, EventsLeft
<1>2. CASE stream' = Append(stream, e)
  <2>1. /\ Len(stream') = Len(stream) + 1 /\ Len(stream) \in Nat
        /\ \A i \in 1..Len(stream) : stream'[i] = stream[i]
        /\ stream'[Len(stream) + 1] = e
    BY <1>2, RowTypes
  <2> QED BY <2>1 DEF SentInv, EventsSound
<1> QED BY <1>1, <1>2 DEF Emit

\* The event of a stop is about no order of the program.
LEMMA StopEventAdded ==
    ASSUME TypeOK, SentInv, Emit(StopEvent) \/ UNCHANGED stream
    PROVE  EventsSound'
<1>1. StopEvent \in Events /\ StopEvent.order = NoOrder
  BY DEF StopEvent, OrderEvent, Events, OrderStatus
<1>2. CASE Emit(StopEvent)
  BY <1>1, <1>2, EventAdded, NoOrderAssumption
<1> QED BY <1>2, EventsLeft

\* A cancellation places no order, and its event says that the order is dead.
LEMMA CancelSound ==
    ASSUME TypeOK, SentInv, NEW o \in OrderIds, CancelWorking(o), UNCHANGED transit
    PROVE  NonePlaced /\ EventsSound'
<1>1. NonePlaced
  BY RowTypes DEF CancelWorking, Cancelled, Working, NonePlaced, OrderRow
<1>2. EventsSound'
  <2> DEFINE e == OrderEvent(o, "dead", orders[o].filled, FALSE)
  <2>1. e \in Events /\ e.st = "dead" /\ Emit(e)
    BY RowTypes DEF OrderEvent, Events, OrderStatus, CancelWorking
  <2> HIDE DEF e
  <2> QED BY <2>1, EventAdded
<1> QED BY <1>1, <1>2

\* Ids known to nobody stay so while no order is placed.
LEMMA StillUnsent ==
    ASSUME NonePlaced, NEW o \in OrderIds, Unsent(orders, transit.orders, o)
    PROVE  Unsent(orders', transit'.orders, o)
BY DEF NonePlaced, Unsent

\* What the exchange does on its own keeps the invariant.
LEMMA ExchangeStepSent ==
    ASSUME TypeOK, SentInv, ExchangeStep
    PROVE  SentInv'
<1>1. UNCHANGED <<book, intents, loaded, agenda>>
  BY DEF ExchangeStep, ledger, volatile
<1>2. Kept(book') /\ IdsSound'
  BY <1>1, IdsLeft DEF Kept
<1>3. ASSUME NonePlaced, EventsSound' PROVE SentInv'
  <2>1. RowsSound' /\ RequestsSound' /\ Remembered
    BY <1>2, <1>3, RowsLeft
  <2>2. AgendaSound'
    BY <1>1, <1>3, <2>1, AgendaLeft, StillUnsent
  <2> QED BY <1>2, <1>3, <2>1, <2>2 DEF SentInv
<1>4. ASSUME NEW o \in OrderIds, Fill(o) PROVE SentInv'
  <2> DEFINE left == orders[o].qty - orders[o].filled
             s == SymbolOfId(o)
             room == IF IsEntry(o) \/ left <= short[s] THEN left ELSE short[s]
  <2>1. PICK q \in 1..room, st \in {"filled", "live"} :
          /\ orders' = [orders EXCEPT ![o].st = st, ![o].filled = orders[o].filled + q]
          /\ Emit(OrderEvent(o, st, orders[o].filled + q, TRUE))
    <3>1. PICK q \in 1..room :
            LET st == IF q = left THEN "filled" ELSE "live"
                filled == orders[o].filled + q
            IN /\ orders' = [orders EXCEPT ![o].st = st, ![o].filled = filled]
               /\ Emit(OrderEvent(o, st, filled, TRUE))
      BY <1>4 DEF Fill
    <3> QED BY <3>1
  <2>2. UNCHANGED transit
    BY <1>4 DEF Fill
  <2> DEFINE e == OrderEvent(o, st, orders[o].filled + q, TRUE)
  <2>3. NonePlaced
    BY <2>1, <2>2, RowTypes DEF NonePlaced, OrderRow
  <2>4. left \in Int /\ short[s] \in Nat
    BY TradeOfOrder, RowTypes DEF TypeOK, AccountTypeOK
  <2>5. q \in Nat
    BY <2>4
  <2>6. e \in Events /\ e.st # "none" /\ Emit(e)
    BY <2>1, <2>5, RowTypes DEF OrderEvent, Events, OrderStatus
  <2> HIDE DEF e
  <2>7. EventsSound'
    BY <2>6, EventAdded
  <2> QED BY <1>3, <2>3, <2>7
<1>5. ASSUME NEW o \in OrderIds, Expire(o) PROVE SentInv'
  BY <1>3, <1>5, CancelSound DEF Expire
<1>6. ASSUME NEW a \in algos, Trigger(a) PROVE SentInv'
  <2>1. UNCHANGED <<orders, transit>> /\ Emit(StopEvent)
    BY <1>6 DEF Trigger
  <2>2. NonePlaced
    BY <2>1 DEF NonePlaced
  <2> QED BY <1>3, <2>1, <2>2, StopEventAdded
<1>7. ASSUME LateArrival PROVE SentInv'
  <2>1. CASE \E r \in transit.orders :
               /\ transit' = [transit EXCEPT !.orders = @ \ {r}]
               /\ orders' = IF Working(r[1]) THEN orders ELSE Accepted(r[1], r[2])
               /\ UNCHANGED <<algos, seen, stream>>
    <3>1. PICK r \in transit.orders :
               /\ transit' = [transit EXCEPT !.orders = @ \ {r}]
               /\ orders' = IF Working(r[1]) THEN orders ELSE Accepted(r[1], r[2])
               /\ UNCHANGED <<algos, seen, stream>>
      BY <2>1
    <3>2. transit'.orders = transit.orders \ {r}
      BY <3>1 DEF TypeOK, AccountTypeOK, Requests
    <3>3. /\ RowsSound' /\ RequestsSound' /\ Remembered
          /\ \A o \in OrderIds : Unsent(orders, transit.orders, o)
                                   => Unsent(orders', transit'.orders, o)
      BY <1>1, <3>1, <3>2, Arrived
    <3>4. AgendaSound' /\ EventsSound'
      BY <1>1, <3>1, <3>3, AgendaLeft, EventsLeft
    <3> QED BY <1>2, <3>3, <3>4 DEF SentInv
  <2>2. CASE \E a \in transit.algos :
               /\ transit' = [transit EXCEPT !.algos = @ \ {a}]
               /\ AcceptStop(a)
               /\ UNCHANGED orders
    <3>1. NonePlaced /\ EventsSound'
      BY <2>2, StopEventAdded DEF NonePlaced, AcceptStop, TypeOK, AccountTypeOK, Requests
    <3> QED BY <1>3, <3>1
  <2> QED BY <1>7, <2>1, <2>2 DEF LateArrival, Arrive
<1> QED
  BY <1>4, <1>5, <1>6, <1>7 DEF ExchangeStep, AccountNext

-----------------------------------------------------------------------------
(***************************************************************************)
(* The signal loop.                                                        *)
(***************************************************************************)

\* A step about an order has no other order.
LEMMA OrderStepFields ==
    ASSUME NEW op, NEW o, NEW p
    PROVE  /\ OrderStep(op, o, p).op = op /\ OrderStep(op, o, p).order = o
           /\ OrderStep(op, o, p).other \notin OrderIds
BY NoOrderAssumption DEF OrderStep, Step

\* A handler that begins with one sound step.
LEMMA FirstStep ==
    ASSUME NEW b, NEW os, NEW rs, NEW x, StepSound(b, os, rs, x)
    PROVE  StepsSound(b, os, rs, <<x>>) /\ SubmitsFirst(<<x>>)
BY DEF StepsSound, SubmitsFirst

\* A saved order nobody knows may be submitted, at once or after the symbol is configured.
LEMMA SubmitSteps ==
    ASSUME NEW b, NEW os, NEW rs, NEW o \in OrderIds, NEW p, Saved(b, o), Unsent(os, rs, o)
    PROVE  LET submit == OrderStep("submit", o, p)
               configure == OrderStep("configure", o, p)
           IN /\ StepSound(b, os, rs, submit)
              /\ StepsSound(b, os, rs, <<submit>>) /\ SubmitsFirst(<<submit>>)
              /\ StepsSound(b, os, rs, <<configure, submit>>)
              /\ SubmitsFirst(<<configure, submit>>)
<1> DEFINE submit == OrderStep("submit", o, p)
           configure == OrderStep("configure", o, p)
<1>1. /\ submit.op = "submit" /\ submit.order = o /\ submit.other \notin OrderIds
      /\ configure.op = "configure" /\ configure.order = o /\ configure.other \notin OrderIds
  BY OrderStepFields
<1> HIDE DEF submit, configure
<1>2. StepSound(b, os, rs, submit) /\ StepSound(b, os, rs, configure)
  BY <1>1 DEF StepSound
<1>3. StepsSound(b, os, rs, <<submit>>) /\ SubmitsFirst(<<submit>>)
  BY <1>2, FirstStep
<1>4. StepsSound(b, os, rs, <<configure, submit>>) /\ SubmitsFirst(<<configure, submit>>)
  BY <1>1, <1>2 DEF StepsSound, SubmitsFirst
<1> QED BY <1>2, <1>3, <1>4 DEF submit, configure

\* A signal id was never saved before its intent was.
LEMMA SignalIdIsNew ==
    ASSUME TypeOK, SentInv, NEW t \in Trades, NEW o \in {Entry(t), SignalExit(t)}, o \notin intents
    PROVE  o \in SignalIds /\ o \in OrderIds /\ o \notin TimedIds /\ ~Saved(book, o)
<1>1. o \in SignalIds /\ o \in OrderIds /\ o \notin TimedIds
  BY DEF Entry, SignalExit, SignalIds, TimedIds, OrderIds
<1> QED BY <1>1 DEF SentInv, IdsSound

\* _close_short keeps the invariant under an unused id.
LEMMA BeginExitSent ==
    ASSUME TypeOK, SentInv, NEW o \in OrderIds, NEW p \in Trades, BeginExit(o, p),
           ~Saved(book, o), o \in TimedIds => \A m \in 1..(o.n - 1) : Saved(book, [o EXCEPT !.n = m])
    PROVE  SentInv'
<1>1. /\ book' = NewOrder(o, pos[p].qty) /\ pos[p].qty \in Nat /\ UNCHANGED <<orders, transit, stream>>
      /\ loaded' = loaded \cup {o} /\ intents' = intents \cup {o}
      /\ agenda' = <<OrderStep("submit", o, p)>>
  BY DEF BeginExit, Return, account, TypeOK, LedgerTypeOK, PositionRow
<1>2. /\ RowsSound' /\ RequestsSound' /\ IdsSound' /\ Remembered
      /\ Saved(book', o) /\ Unsent(orders', transit'.orders, o)
  BY <1>1, Ordered
<1>3. AgendaSound'
  BY <1>1, <1>2, SubmitSteps DEF AgendaSound
<1> QED BY <1>1, <1>2, <1>3, EventsLeft DEF SentInv

\* The signal loop keeps the invariant.
LEMMA SignalStepSent ==
    ASSUME TypeOK, SentInv, SignalStep
    PROVE  SentInv'
<1>1. ASSUME UNCHANGED <<orders, transit, stream, book, loaded>>, intents \subseteq intents',
             UNCHANGED agenda \/ \E p : agenda' = <<TradeStep("trail", p)>>
      PROVE  SentInv'
  <2>1. Kept(book') /\ NonePlaced
    BY <1>1 DEF Kept, NonePlaced
  <2>2. RowsSound' /\ RequestsSound' /\ Remembered /\ IdsSound' /\ EventsSound'
    BY <1>1, <2>1, RowsLeft, IdsLeft, EventsLeft
  <2>3. AgendaSound'
    <3>1. CASE UNCHANGED agenda
      BY <2>1, <2>2, <3>1, AgendaLeft, StillUnsent
    <3>2. CASE \E p : agenda' = <<TradeStep("trail", p)>>
      <4>1. PICK p : agenda' = <<TradeStep("trail", p)>>
        BY <3>2
      <4>2. /\ TradeStep("trail", p).op = "trail"
            /\ TradeStep("trail", p).order \notin OrderIds /\ TradeStep("trail", p).other \notin OrderIds
        BY NoOrderAssumption DEF TradeStep, Step
      <4>3. StepSound(book', orders', transit'.orders, TradeStep("trail", p))
        BY <4>2 DEF StepSound
      <4> QED BY <4>1, <4>3, FirstStep DEF AgendaSound
    <3> QED BY <1>1, <3>1, <3>2
  <2> QED BY <2>2, <2>3 DEF SentInv
<1>2. ASSUME DeclineEntry \/ CloseNothing \/ Release \/ \E p \in Trades : SyncTrail(p)
      PROVE  SentInv'
  <2>1. /\ UNCHANGED <<orders, transit, stream, book, loaded>> /\ intents \subseteq intents'
        /\ UNCHANGED agenda \/ \E p : agenda' = <<TradeStep("trail", p)>>
    BY <1>2 DEF DeclineEntry, CloseNothing, Release, SyncTrail, Return, account, ledger, volatile
  <2> QED BY <1>1, <2>1
<1>3. ASSUME OpenShort PROVE SentInv'
  <2> DEFINE t == NextSignal.trade
             o == Entry(t)
  <2>1. t \in Trades /\ o \notin intents
    BY <1>3, SignalTypes DEF OpenShort, Duplicate
  <2>2. o \in SignalIds /\ o \in OrderIds /\ o \notin TimedIds /\ ~Saved(book, o)
    BY <2>1, SignalIdIsNew
  <2>3. /\ book' = NewOrder(o, Lot) /\ Lot \in Nat /\ UNCHANGED <<orders, transit, stream>>
        /\ loaded' = loaded \cup {o} /\ intents' = intents \cup {o}
        /\ \/ agenda' = <<OrderStep("submit", o, t)>>
           \/ agenda' = <<OrderStep("configure", o, t), OrderStep("submit", o, t)>>
    BY <1>3, AccountAssumption DEF OpenShort, Return, account
  <2> HIDE DEF o, t
  <2>4. /\ RowsSound' /\ RequestsSound' /\ IdsSound' /\ Remembered
        /\ Saved(book', o) /\ Unsent(orders', transit'.orders, o)
    BY <2>2, <2>3, Ordered
  <2>5. AgendaSound'
    BY <2>2, <2>3, <2>4, SubmitSteps DEF AgendaSound
  <2> QED BY <2>3, <2>4, <2>5, EventsLeft DEF SentInv
<1>4. ASSUME Configure PROVE SentInv'
  <2> DEFINE o == now.order
  <2>1. /\ agenda # <<>> /\ now.op = "configure" /\ o \in OrderIds
        /\ agenda \in Seq(StepsOf(owner)) /\ Len(agenda) \in Nat
    BY <1>4, PlacementNow, RowTypes DEF Configure, Due, PlacementOps
  <2>2. Saved(book, o)
    BY <2>1, NowSound DEF StepSound
  <2>3. /\ UNCHANGED <<orders, transit, stream, loaded, intents>>
        /\ book' = book \/ book' = Marked(o, "rejected")
        /\ agenda' = <<>> \/ agenda' = Tail(agenda)
    BY <1>4 DEF Configure, Then, Return, keepMarket, keepStream
  <2>4. Kept(book') /\ NonePlaced
    BY <2>2, <2>3, KeptRows DEF NonePlaced
  <2>5. RowsSound' /\ RequestsSound' /\ Remembered /\ IdsSound' /\ EventsSound'
    BY <2>3, <2>4, RowsLeft, IdsLeft, EventsLeft
  <2>6. AgendaSound'
    <3>1. CASE agenda' = <<>>
      BY <3>1 DEF AgendaSound, StepsSound, SubmitsFirst
    <3>2. CASE agenda' = Tail(agenda)
      <4>1. /\ Len(agenda') = Len(agenda) - 1
            /\ \A i \in 1..Len(agenda') : agenda'[i] = agenda[i + 1] /\ i + 1 \in 1..Len(agenda)
        BY <2>1, <3>2, HeadTailProperties
      <4>2. \A i \in 1..Len(agenda) : StepSound(book', orders', transit'.orders, agenda[i])
        <5> SUFFICES ASSUME NEW i \in 1..Len(agenda)
                     PROVE  StepSound(book', orders', transit'.orders, agenda[i])
          OBVIOUS
        <5>1. StepSound(book, orders, transit.orders, agenda[i])
          BY DEF SentInv, AgendaSound, StepsSound
        <5> QED BY <2>4, <2>5, <5>1, StillUnsent DEF StepSound, Remembered
      <4>3. \A i \in 2..Len(agenda') : agenda[i + 1].op \notin {"configure", "submit"}
        BY <2>1, <4>1 DEF SentInv, AgendaSound, SubmitsFirst
      <4>4. StepsSound(book', orders', transit'.orders, agenda')
        BY <4>1, <4>2 DEF StepsSound
      <4>5. SubmitsFirst(agenda')
        BY <4>1, <4>3 DEF SubmitsFirst
      <4> QED BY <4>4, <4>5 DEF AgendaSound
    <3> QED BY <2>3, <3>1, <3>2
  <2> QED BY <2>5, <2>6 DEF SentInv
<1>5. ASSUME CloseShort PROVE SentInv'
  <2> DEFINE o == SignalExit(NextSignal.trade)
  <2>1. NextSignal.trade \in Trades /\ o \notin intents
    BY <1>5, SignalTypes DEF CloseShort, Duplicate
  <2>2. o \in OrderIds /\ o \notin TimedIds /\ ~Saved(book, o)
    BY <2>1, SignalIdIsNew
  <2>3. PICK p \in Trades : BeginExit(o, p)
    BY <1>5, PositionForTypes DEF CloseShort
  <2> HIDE DEF o
  <2> QED BY <2>2, <2>3, BeginExitSent
<1>6. ASSUME NEW p \in Trades, ProtectiveExit(p) PROVE SentInv'
  <2>1. PICK o \in Fresh(p, "px") : BeginExit(o, p)
    BY <1>6 DEF ProtectiveExit
  <2> QED BY <2>1, FreshIsNew, BeginExitSent
<1> QED
  BY <1>2, <1>3, <1>4, <1>5, <1>6 DEF SignalStep

-----------------------------------------------------------------------------
(***************************************************************************)
(* Segments, and the steps they leave behind.                              *)
(***************************************************************************)

\* A segment that places no order, writes saved rows and leaves sound steps.
LEMMA Segment ==
    ASSUME TypeOK, SentInv, agenda # <<>>, now.op # "configure", Kept(book'), NonePlaced,
           loaded' \subseteq loaded, intents \subseteq intents', EventsSound',
           NEW steps \in Seq(StepType), agenda' = steps \o Tail(agenda) \/ agenda' = steps,
           StepsSound(book', orders', transit'.orders, steps), SubmitsFirst(steps)
    PROVE  SentInv'
<1>1. RowsSound' /\ RequestsSound' /\ Remembered /\ IdsSound'
  BY RowsLeft, IdsLeft
<1>2. AgendaSound'
  BY <1>1, Handled
<1> QED BY <1>1, <1>2 DEF SentInv

\* The same for the steps most segments leave.
LEMMA HarmlessSegment ==
    ASSUME TypeOK, SentInv, agenda # <<>>, now.op # "configure", Kept(book'), NonePlaced,
           loaded' \subseteq loaded, intents \subseteq intents', EventsSound',
           NEW steps \in Seq(HarmlessSteps), agenda' = steps \o Tail(agenda) \/ agenda' = steps
    PROVE  SentInv'
<1>1. Remembered
  BY RowsLeft
<1>2. /\ StepsSound(book', orders', transit'.orders, steps) /\ SubmitsFirst(steps)
      /\ steps \in Seq(StepType)
  BY <1>1, HarmlessSound
<1> QED BY <1>2, Segment

\* Steps about no order.
LEMMA HarmlessStep ==
    ASSUME NEW op \in HarmlessOps
    PROVE  /\ Step(op) \in HarmlessSteps
           /\ \A known \in SUBSET (AlgoIds \cup {NoAlgo} \cup Trades) :
                [Step(op) EXCEPT !.known = known] \in HarmlessSteps
           /\ \A a \in AlgoIds : [Step(op) EXCEPT !.algo = a] \in HarmlessSteps
           /\ \A p \in Trades : TradeStep(op, p) \in HarmlessSteps
           /\ \A p \in Trades : \A force \in BOOLEAN :
                [TradeStep(op, p) EXCEPT !.force = force] \in HarmlessSteps
BY NoOrderAssumption DEF Step, TradeStep, HarmlessSteps, HarmlessOps, StepType

\* Steps about a saved order, and the cancellation of any.
LEMMA HarmlessOrderStep ==
    ASSUME NEW op \in HarmlessOps, NEW o \in OrderIds, NEW p \in Trades \cup {NoTrade},
           op = "cancel_order" \/ Saved(book, o)
    PROVE  OrderStep(op, o, p) \in HarmlessSteps
BY NoOrderAssumption DEF OrderStep, Step, HarmlessSteps, HarmlessOps, StepType

\* Going on with the due step under another name.
LEMMA HarmlessNow ==
    ASSUME TypeOK, SentInv, agenda # <<>>, now.op # "cancel_order"
    PROVE  /\ \A op \in HarmlessOps : [now EXCEPT !.op = op] \in HarmlessSteps
           /\ \A a \in AlgoIds, b \in AlgoIds \cup {NoAlgo}, kept \in BOOLEAN :
                [now EXCEPT !.op = "place_stop", !.algo = a, !.old = b, !.kept = kept]
                  \in HarmlessSteps
<1>1. now \in StepType
  BY NowType DEF StepsOf
<1>2. /\ now.order \in OrderIds => Saved(book, now.order)
      /\ now.other \in OrderIds => Saved(book, now.other)
  BY NowSound DEF StepSound
<1>3. "place_stop" \in HarmlessOps
  BY DEF HarmlessOps, Ops, TradeOps
<1> HIDE DEF now
<1>4. ASSUME NEW op \in HarmlessOps
      PROVE  [now EXCEPT !.op = op] \in HarmlessSteps
  BY <1>1, <1>2, <1>4 DEF HarmlessSteps, HarmlessOps, StepType
<1>5. ASSUME NEW a \in AlgoIds, NEW b \in AlgoIds \cup {NoAlgo}, NEW kept \in BOOLEAN
      PROVE  [now EXCEPT !.op = "place_stop", !.algo = a, !.old = b, !.kept = kept]
               \in HarmlessSteps
  BY <1>1, <1>2, <1>3, <1>5 DEF HarmlessSteps, HarmlessOps, StepType
<1> QED BY <1>4, <1>5

\* _abort_unsettled_entry of a saved entry.
LEMMA AbortHarmless ==
    ASSUME NEW o \in OrderIds, Saved(book, o)
    PROVE  Abort(o) \in Seq(HarmlessSteps)
<1>1. {"abort_cancel", "abort_query"} \subseteq HarmlessOps
  BY DEF HarmlessOps, Ops, OrderOps
<1>2. \A op \in {"abort_cancel", "abort_query"} : OrderStep(op, o, o.trade) \in HarmlessSteps
  BY <1>1, TradeOfOrder, HarmlessOrderStep
<1> QED BY <1>2, TwoSteps DEF Abort

\* Cancelling stops concerns no order.
LEMMA CancelAlgosHarmless ==
    ASSUME NEW as \in Seq(AlgoIds)
    PROVE  CancelAlgos(as) \in Seq(HarmlessSteps)
<1> DEFINE step == [a \in AlgoIds |-> [Step("cancel_algo") EXCEPT !.algo = a]]
<1>1. "cancel_algo" \in HarmlessOps
  BY DEF HarmlessOps, Ops, AlgoOps
<1>2. step \in [AlgoIds -> HarmlessSteps]
  BY <1>1, HarmlessStep
<1>3. \A i \in 1..Len(as) : step[as[i]] = [Step("cancel_algo") EXCEPT !.algo = as[i]]
  BY LenProperties, ElementOfSeq
<1> HIDE DEF step
<1>4. [i \in 1..Len(as) |-> step[as[i]]] \in Seq(HarmlessSteps)
  BY <1>2, MappedSteps
<1> QED BY <1>3, <1>4 DEF CancelAlgos

\* _cancel_position_algos concerns no order.
LEMMA CancelPositionHarmless ==
    ASSUME NEW p, NEW among \in SUBSET AlgoIds
    PROVE  CancelPositionAlgos(p, among) \in Seq(HarmlessSteps)
<1> DEFINE trail == IF pos[p].trail \in among THEN <<pos[p].trail>> ELSE <<>>
           stop  == IF pos[p].stop \in among THEN <<pos[p].stop>> ELSE <<>>
<1>1. trail \in Seq(AlgoIds) /\ stop \in Seq(AlgoIds)
  BY OneStep, NoSteps
<1>2. trail \o stop \in Seq(AlgoIds)
  BY <1>1, ConcatProperties
<1> QED
  BY <1>2, CancelAlgosHarmless DEF CancelPositionAlgos

\* recover_inflight_orders asks for saved orders.
LEMMA RecoverHarmless ==
    ASSUME TypeOK, SentInv
    PROVE  RecoverSteps \in Seq(HarmlessSteps)
<1> DEFINE entries == {o \in loaded : IsEntry(o)}
           others == {o \in loaded : ~IsEntry(o)}
           inOrder == SetToSeq(entries) \o SetToSeq(others)
           step == [o \in loaded |-> OrderStep("recover", o, o.trade)]
<1>1. /\ entries \subseteq loaded /\ others \subseteq loaded /\ loaded \subseteq OrderIds
      /\ \A o \in loaded : Saved(book, o)
  BY RowTypes DEF SentInv, IdsSound
<1>2. IsFiniteSet(entries) /\ IsFiniteSet(others)
  BY <1>1, OrderIdsFinite, FS_Subset
<1> HIDE DEF entries, others
<1>3. SetToSeq(entries) \in Seq(loaded) /\ SetToSeq(others) \in Seq(loaded)
  BY <1>1, <1>2, SetToSeqType, SeqMonotonic
<1>4. inOrder \in Seq(loaded)
  BY <1>3, ConcatProperties
<1> HIDE DEF inOrder
<1>5. step \in [loaded -> HarmlessSteps]
  <2>1. "recover" \in HarmlessOps
    BY DEF HarmlessOps, Ops, OrderOps
  <2> QED BY <1>1, <2>1, TradeOfOrder, HarmlessOrderStep
<1>6. [i \in 1..Len(inOrder) |-> step[inOrder[i]]] \in Seq(HarmlessSteps)
  BY <1>4, <1>5, MappedSteps
<1>7. \A i \in 1..Len(inOrder) :
        step[inOrder[i]] = OrderStep("recover", inOrder[i], inOrder[i].trade)
  BY <1>4, LenProperties, ElementOfSeq
<1>8. RecoverSteps = [i \in 1..Len(inOrder) |->
                        OrderStep("recover", inOrder[i], inOrder[i].trade)]
  BY DEF RecoverSteps, inOrder, entries, others
<1> QED
  BY <1>6, <1>7, <1>8

-----------------------------------------------------------------------------
(***************************************************************************)
(* Placing an order and learning what became of it.                        *)
(***************************************************************************)

\* The exchange knows the order of a step that polls it.
LEMMA PollNow ==
    ASSUME TypeOK, SentInv, agenda # <<>>, now.op \in PlacementOps, NEW os, NEW rs,
           os[now.order].st # "none", NEW b, Saved(b, now.order),
           \A o \in OrderIds : Saved(book, o) => Saved(b, o)
    PROVE  StepSound(b, os, rs, [now EXCEPT !.op = "settle"])
<1>1. now \in StepType /\ now.order \in OrderIds
  BY NowType, PlacementNow DEF StepsOf
<1>2. now.other \in OrderIds => Saved(b, now.other)
  BY NowSound DEF StepSound
<1> HIDE DEF now
<1>3. /\ [now EXCEPT !.op = "settle"].op = "settle"
      /\ [now EXCEPT !.op = "settle"].order = now.order
      /\ [now EXCEPT !.op = "settle"].other = now.other
  BY <1>1 DEF StepType
<1> QED BY <1>1, <1>2, <1>3 DEF StepSound

\* A handler of an order that a submit, an answer or a poll leads on.
LEMMA PlacementOrder ==
    ASSUME TypeOK, SentInv, agenda # <<>>, now.op \in PlacementOps
    PROVE  /\ now.order \in OrderIds /\ Saved(book, now.order)
           /\ now.op = "submit" => Unsent(orders, transit.orders, now.order)
           /\ now.op = "settle" => orders[now.order].st # "none"
<1>1. now.op # "cancel_order"
  BY DEF PlacementOps
<1> QED BY <1>1, PlacementNow, NowSound DEF StepSound

\* The steps that follow a settled order.
LEMMA SettledHarmless ==
    ASSUME TypeOK, SentInv, agenda # <<>>, now.op = "settle"
    PROVE  Settled(now) \in Seq(HarmlessSteps)
<1>1. \A op \in {"entry_fill", "exit_fill"} : [now EXCEPT !.op = op] \in HarmlessSteps
  BY HarmlessNow DEF HarmlessOps, Ops, OrderOps, PlacementOps
<1> HIDE DEF now
<1> QED BY <1>1, OneStep, NoSteps DEF Settled

\* Sending an order keeps the invariant, whether or not its answer comes.
LEMMA SubmitSent ==
    ASSUME TypeOK, SentInv, SubmitAccepted \/ SubmitRefused \/ SubmitTimedOut
    PROVE  SentInv'
<1> DEFINE o == now.order
<1>1. agenda # <<>> /\ now.op = "submit" /\ now.op \in PlacementOps
  BY DEF SubmitAccepted, SubmitRefused, SubmitTimedOut, Due, PlacementOps
<1>2. o \in OrderIds /\ Saved(book, o) /\ Unsent(orders, transit.orders, o)
  BY <1>1, PlacementOrder
<1>3. UNCHANGED <<stream, loaded, intents>>
  BY DEF SubmitAccepted, SubmitRefused, SubmitTimedOut, keepStream, keepTask
<1>4. Kept(book)
        /\ \A st \in {"live", "unknown", "rejected"} : Kept(Marked(o, st))
  BY <1>2, KeptRows
<1>5. EventsSound'
  BY <1>3, EventsLeft
<1>6. ASSUME SubmitAccepted PROVE SentInv'
  <2> DEFINE x == [now EXCEPT !.op = "settle"]
  <2>1. /\ orders' = Accepted(o, book[o].qty) /\ UNCHANGED transit
        /\ book' = Marked(o, "live") /\ agenda' = <<x>> \o Tail(agenda)
    BY <1>6 DEF SubmitAccepted, Then
  <2>2. Kept(book')
    BY <1>4, <2>1
  <2>3. RowsSound' /\ RequestsSound' /\ Remembered /\ IdsSound'
    BY <1>2, <1>3, <2>1, <2>2, Placed, IdsLeft
  <2>4. orders'[o].st = "live" /\ Saved(book', o)
    BY <1>2, <2>1, <2>3, RowTypes DEF Accepted, Remembered
  <2>5. StepSound(book', orders', transit'.orders, x)
    BY <1>1, <2>3, <2>4, PollNow DEF Remembered
  <2>6. x \in StepType
    BY <1>1, PlacementNow DEF StepsOf, PlacementOps
  <2> HIDE DEF x
  <2>7. /\ <<x>> \in Seq(StepType) /\ SubmitsFirst(<<x>>)
        /\ StepsSound(book', orders', transit'.orders, <<x>>)
    BY <2>5, <2>6, OneStep, FirstStep
  <2>8. AgendaSound'
    BY <1>1, <2>1, <2>3, <2>7, Handled
  <2> QED BY <1>5, <2>3, <2>8 DEF SentInv
<1>7. ASSUME SubmitRefused PROVE SentInv'
  <2>1. /\ UNCHANGED <<orders, transit>> /\ agenda' = <<>> \o Tail(agenda)
        /\ book' = book \/ book' = Marked(o, "rejected")
    BY <1>7 DEF SubmitRefused, Then, keepMarket
  <2>2. NonePlaced /\ Kept(book') /\ <<>> \in Seq(HarmlessSteps)
    BY <1>4, <2>1, NoSteps DEF NonePlaced
  <2> QED BY <1>1, <1>3, <1>5, <2>1, <2>2, HarmlessSegment
<1>8. ASSUME SubmitTimedOut PROVE SentInv'
  <2> DEFINE steps == IF o.role = "uf" THEN <<>> ELSE <<[now EXCEPT !.op = "resolve"]>>
  <2>1. book' = book \/ book' = Marked(o, "unknown")
    BY <1>8 DEF SubmitTimedOut
  <2>2. agenda' = steps \o Tail(agenda)
    BY <1>8 DEF SubmitTimedOut, Then
  <2>3. \/ orders' = Accepted(o, book[o].qty) /\ UNCHANGED transit
        \/ UNCHANGED orders /\ transit'.orders = transit.orders \cup {<<o, book[o].qty>>}
        \/ UNCHANGED <<orders, transit>>
    BY <1>8 DEF SubmitTimedOut, TypeOK, AccountTypeOK, Requests
  <2>4. Kept(book')
    BY <1>4, <2>1
  <2>5. RowsSound' /\ RequestsSound' /\ Remembered
    BY <1>2, <2>3, <2>4, Placed, RowsLeft DEF NonePlaced
  <2>6. IdsSound'
    BY <1>3, <2>4, IdsLeft
  <2>7. steps \in Seq(HarmlessSteps)
    <3>1. [now EXCEPT !.op = "resolve"] \in HarmlessSteps
      BY <1>1, HarmlessNow DEF HarmlessOps, Ops, PlacementOps
    <3> QED BY <3>1, OneStep, NoSteps
  <2> HIDE DEF steps
  <2>8. /\ StepsSound(book', orders', transit'.orders, steps) /\ SubmitsFirst(steps)
        /\ steps \in Seq(StepType)
    BY <2>5, <2>7, HarmlessSound
  <2>9. AgendaSound'
    BY <1>1, <2>2, <2>5, <2>8, Handled
  <2> QED BY <1>5, <2>5, <2>6, <2>9 DEF SentInv
<1> QED BY <1>6, <1>7, <1>8

\* Polling an order and resolving an unknown one keep the invariant.
LEMMA AnswerSent ==
    ASSUME TypeOK, SentInv,
           \/ SettleKnown \/ SettleTimedOut \/ ResolveFound \/ ResolveFailed
           \/ PendingCheck \/ ExitCheck
    PROVE  SentInv'
<1> DEFINE o == now.order
<1>1. agenda # <<>> /\ now.op \in PlacementOps /\ now.op # "configure"
  BY DEF SettleKnown, SettleTimedOut, ResolveFound, ResolveFailed, PendingCheck, ExitCheck,
         Due, PlacementOps
<1>2. /\ o \in OrderIds /\ Saved(book, o)
      /\ now.op = "settle" => orders[o].st # "none"
  BY <1>1, PlacementOrder
<1>3. UNCHANGED <<orders, transit, stream, loaded, intents>>
  BY DEF SettleKnown, SettleTimedOut, ResolveFound, ResolveFailed, PendingCheck, ExitCheck,
         account, keepMarket, keepStream, keepTask
<1>4. NonePlaced /\ EventsSound'
  BY <1>3, EventsLeft DEF NonePlaced
<1>5. Kept(book) /\ (orders[o].st # "none" => Kept(Heard(o)))
  BY <1>2, KeptRows
<1>6. Abort(o) \in Seq(HarmlessSteps) /\ <<>> \in Seq(HarmlessSteps)
  BY <1>2, AbortHarmless, NoSteps
<1>7. ASSUME SettleKnown \/ SettleTimedOut PROVE SentInv'
  <2>1. now.op = "settle"
    BY <1>7 DEF SettleKnown, SettleTimedOut, Due
  <2>2. book' = book \/ book' = Heard(o)
    BY <1>7 DEF SettleKnown, SettleTimedOut
  <2>3. \/ agenda' = Settled(now) \o Tail(agenda) \/ agenda' = <<>> \o Tail(agenda)
        \/ agenda' = Abort(o)
    BY <1>7 DEF SettleKnown, SettleTimedOut, Then, Return
  <2>4. Settled(now) \in Seq(HarmlessSteps) /\ Kept(book')
    BY <1>1, <1>2, <1>5, <2>1, <2>2, SettledHarmless
  <2> HIDE DEF o
  <2> QED BY <1>1, <1>3, <1>4, <1>6, <2>3, <2>4, HarmlessSegment
<1>8. ASSUME ResolveFound PROVE SentInv'
  <2>1. orders[o].st # "none" /\ book' = Heard(o) /\ Kept(book')
    BY <1>5, <1>8 DEF ResolveFound
  <2>2. CASE ~IsEntry(o)
    <3> DEFINE steps == <<[now EXCEPT !.op = "exit_fill"], [now EXCEPT !.op = "exit_check"]>>
    <3>1. agenda' = steps \o Tail(agenda)
      BY <1>8, <2>2 DEF ResolveFound, Then
    <3>2. \A op \in {"exit_fill", "exit_check"} : [now EXCEPT !.op = op] \in HarmlessSteps
      BY <1>1, HarmlessNow DEF HarmlessOps, Ops, PlacementOps
    <3>3. steps \in Seq(HarmlessSteps)
      BY <3>2, TwoSteps
    <3> HIDE DEF steps
    <3> QED BY <1>1, <1>3, <1>4, <2>1, <3>1, <3>3, HarmlessSegment
  <2>3. CASE IsEntry(o)
    <3> DEFINE x == [now EXCEPT !.op = "settle"]
               y == [now EXCEPT !.op = "pending_check"]
    <3>1. agenda' = <<x, y>> \o Tail(agenda)
      BY <1>8, <2>3 DEF ResolveFound, Then
    <3>2. Remembered /\ Saved(book', o)
      BY <1>2, <1>4, <2>1, RowsLeft DEF Remembered
    <3>3. StepSound(book', orders', transit'.orders, x)
      BY <1>1, <1>3, <2>1, <3>2, PollNow DEF Remembered
    <3>4. y \in HarmlessSteps
      BY <1>1, HarmlessNow DEF HarmlessOps, Ops, PlacementOps
    <3>5. x \in StepType
      BY <1>1, PlacementNow DEF StepsOf, PlacementOps
    <3> HIDE DEF x, y
    <3>6. StepSound(book', orders', transit'.orders, y) /\ y.op \notin {"configure", "submit"}
      BY <3>2, <3>4 DEF HarmlessSteps, HarmlessOps, StepSound, Remembered
    <3>7. <<x, y>> \in Seq(StepType)
      BY <3>4, <3>5, TwoSteps DEF HarmlessSteps
    <3>8. StepsSound(book', orders', transit'.orders, <<x, y>>) /\ SubmitsFirst(<<x, y>>)
      BY <3>3, <3>6 DEF StepsSound, SubmitsFirst
    <3> QED BY <1>1, <1>3, <1>4, <2>1, <3>1, <3>7, <3>8, Segment
  <2> QED BY <2>2, <2>3
<1>9. ASSUME ResolveFailed \/ PendingCheck \/ ExitCheck PROVE SentInv'
  <2>1. UNCHANGED book /\ (agenda' = <<>> \o Tail(agenda) \/ agenda' = Abort(o))
    BY <1>9 DEF ResolveFailed, PendingCheck, ExitCheck, Then, Return
  <2> HIDE DEF o
  <2> QED BY <1>1, <1>3, <1>4, <1>5, <1>6, <2>1, HarmlessSegment
<1> QED BY <1>7, <1>8, <1>9

\* A segment saves an order under the next id of a role and goes on to submit it.
LEMMA NewOrderSegment ==
    ASSUME TypeOK, SentInv, agenda # <<>>, now.op # "configure",
           NEW t, NEW role, NEW u \in Fresh(t, role), NEW q \in Nat, NEW p \in Trades,
           book' = NewOrder(u, q), loaded' = loaded \cup {u},
           UNCHANGED <<orders, transit, stream, intents>>,
           NEW y \in StepType, y.op \in HarmlessOps,
           y.order \in OrderIds => Saved(book, y.order), y.other \in OrderIds => y.other = u,
           agenda' = <<OrderStep("submit", u, p), y>> \o Tail(agenda)
    PROVE  SentInv'
<1> DEFINE x == OrderStep("submit", u, p)
<1>1. /\ u \in OrderIds /\ u \in TimedIds /\ u \notin SignalIds /\ ~Saved(book, u)
      /\ \A m \in 1..(u.n - 1) : Saved(book, [u EXCEPT !.n = m])
  BY FreshIsNew DEF TimedIds, SignalIds
<1>2. /\ RowsSound' /\ RequestsSound' /\ IdsSound' /\ Remembered
      /\ Saved(book', u) /\ Unsent(orders', transit'.orders, u)
  BY <1>1, Ordered
<1>3. StepSound(book', orders', transit'.orders, x)
  BY <1>1, <1>2, SubmitSteps
<1>4. StepSound(book', orders', transit'.orders, y)
  BY <1>2 DEF StepSound, HarmlessOps, Remembered
<1>5. x \in StepType
  BY <1>1, StepOfOrder DEF PlacementOps, SnapshotOps, AlgoOps, StepsOf
<1> HIDE DEF x
<1>6. <<x, y>> \in Seq(StepType)
  BY <1>5, TwoSteps
<1>7. StepsSound(book', orders', transit'.orders, <<x, y>>) /\ SubmitsFirst(<<x, y>>)
  BY <1>3, <1>4 DEF StepsSound, SubmitsFirst, HarmlessOps
<1>8. agenda' = <<x, y>> \o Tail(agenda)
  BY DEF x
<1>9. AgendaSound'
  BY <1>2, <1>6, <1>7, <1>8, Handled
<1> QED BY <1>2, <1>9, EventsLeft DEF SentInv

\* Aborting an unsettled entry keeps the invariant.
LEMMA AbortSent ==
    ASSUME TypeOK, SentInv, AbortCancel \/ AbortQuery \/ FlattenCheck \/ Raise
    PROVE  SentInv'
<1>1. agenda # <<>> /\ now.op \in {"abort_cancel", "abort_query", "flatten_check", "raise"}
  BY DEF AbortCancel, AbortQuery, FlattenCheck, Raise, Due
<1>2. now.op # "raise" => now.order \in OrderIds /\ Saved(book, now.order)
  BY <1>1, OrderNow, NowSound DEF OrderOps, StepSound
<1>3. now.other \in OrderIds => Saved(book, now.other)
  BY <1>1, NowSound DEF StepSound
<1>4. <<>> \in Seq(HarmlessSteps) /\ <<Step("raise")>> \in Seq(HarmlessSteps)
  BY HarmlessStep, OneStep, NoSteps DEF HarmlessOps, Ops
<1>5. ASSUME AbortCancel PROVE SentInv'
  <2> DEFINE o == now.order
             dead == [book EXCEPT ![o].st = "dead", ![o].filled = orders[o].filled]
  <2>1. o \in OrderIds /\ Saved(book, o)
    BY <1>2, <1>5 DEF AbortCancel, Due
  <2>2. \/ book' = book
        \/ book' = dead
        \/ orders[o].st # "none" /\ book' = Heard(o)
    BY <1>5 DEF AbortCancel
  <2>3. Kept(dead)
    BY <2>1, RowTypes DEF Kept, Saved, BookRow
  <2>4. Kept(book')
    <3> HIDE DEF o, dead
    <3> QED BY <2>1, <2>2, <2>3, KeptRows
  <2>5. UNCHANGED <<transit, loaded, intents>> /\ (CancelWorking(o) \/ UNCHANGED <<orders, stream>>)
    BY <1>5 DEF AbortCancel, account, keepTask
  <2>6. NonePlaced /\ EventsSound'
    BY <2>1, <2>5, CancelSound, EventsLeft DEF NonePlaced
  <2>7. agenda' = <<>> \o Tail(agenda)
    BY <1>5 DEF AbortCancel, Then
  <2> HIDE DEF o
  <2> QED BY <1>1, <1>4, <2>4, <2>5, <2>6, <2>7, HarmlessSegment
<1>6. ASSUME AbortQuery PROVE SentInv'
  <2> DEFINE o == now.order
             q == short[SymbolOfId(o)]
             y(u) == [OrderStep("flatten_check", o, o.trade) EXCEPT !.other = u]
  <2>1. o \in OrderIds /\ Saved(book, o) /\ o.trade \in Trades /\ q \in Nat
    BY <1>2, <1>6, TradeOfOrder DEF AbortQuery, Due, TypeOK, AccountTypeOK
  <2>2. UNCHANGED <<orders, transit, stream, intents>>
    BY <1>6 DEF AbortQuery, keepMarket, keepStream
  <2>3. CASE UNCHANGED <<book, loaded>> /\ agenda' = <<>> \o Tail(agenda)
    <3>1. Kept(book') /\ NonePlaced /\ EventsSound'
      BY <2>2, <2>3, EventsLeft DEF Kept, NonePlaced
    <3> QED BY <1>1, <1>4, <2>2, <2>3, <3>1, HarmlessSegment
  <2>4. CASE \E u \in Fresh(o.trade, "uf") :
               /\ book' = NewOrder(u, q) /\ loaded' = loaded \cup {u}
               /\ agenda' = <<OrderStep("submit", u, o.trade), y(u)>> \o Tail(agenda)
    <3>1. PICK u \in Fresh(o.trade, "uf") :
               /\ book' = NewOrder(u, q) /\ loaded' = loaded \cup {u}
               /\ agenda' = <<OrderStep("submit", u, o.trade), y(u)>> \o Tail(agenda)
      BY <2>4
    <3>2. /\ y(u) \in StepType /\ y(u).op = "flatten_check" /\ y(u).order = o /\ y(u).other = u
      BY <2>1, FreshTypes DEF OrderStep, Step, StepType, Ops, OrderOps
    <3>3. y(u).op \in HarmlessOps
      BY <3>2 DEF HarmlessOps, Ops, OrderOps
    <3> HIDE DEF y, o, q
    <3> QED BY <1>1, <2>1, <2>2, <3>1, <3>2, <3>3, NewOrderSegment
  <2> QED BY <1>6, <2>3, <2>4 DEF AbortQuery, Then
<1>7. ASSUME FlattenCheck PROVE SentInv'
  <2> DEFINE done(x) == [x EXCEPT !.st = "closed", !.applied = x.filled]
  <2>1. /\ UNCHANGED <<orders, transit, stream, loaded, intents>>
        /\ book' = book \/ book' = [book EXCEPT ![now.order] = done(@), ![now.other] = done(@)]
        /\ agenda' = <<>> \o Tail(agenda) \/ agenda' = <<Step("raise")>>
    BY <1>7 DEF FlattenCheck, Then, Return, keepMarket, keepStream, keepTask
  <2>2. now.order \in OrderIds /\ Saved(book, now.order)
    BY <1>2, <1>7 DEF FlattenCheck, Due
  <2>3. \A x \in BookRow : done(x).qty = x.qty /\ done(x).st = "closed" /\ done(x) \in BookRow
    BY DEF BookRow, BookStatus
  <2>4. Kept(book')
    <3> HIDE DEF done
    <3>1. book \in [OrderIds -> BookRow]
      BY RowTypes
    <3> QED BY <1>3, <2>1, <2>2, <2>3, <3>1 DEF Kept, Saved
  <2>5. NonePlaced /\ EventsSound'
    BY <2>1, EventsLeft DEF NonePlaced
  <2> QED BY <1>1, <1>4, <2>1, <2>4, <2>5, HarmlessSegment
<1>8. ASSUME Raise PROVE SentInv'
  <2>1. /\ UNCHANGED <<orders, transit, book, loaded, intents>> /\ agenda' = <<>>
        /\ UNCHANGED stream \/ stream' = <<>>
    BY <1>8 DEF Raise, Return, StreamLost, keepMarket, keepStream
  <2>2. Kept(book') /\ NonePlaced /\ EventsSound'
    BY <2>1, EventsLeft DEF Kept, NonePlaced
  <2> QED BY <1>1, <1>4, <2>1, <2>2, HarmlessSegment
<1> QED BY <1>5, <1>6, <1>7, <1>8

\* Placing an order and learning what became of it keep the invariant.
LEMMA PlacementStepSent ==
    ASSUME TypeOK, SentInv, PlacementStep
    PROVE  SentInv'
BY SubmitSent, AnswerSent, AbortSent DEF PlacementStep

-----------------------------------------------------------------------------
(***************************************************************************)
(* Positions, events, reconcile and crashes.                               *)
(***************************************************************************)

\* A segment that leaves the orders of the exchange alone.
LEMMA AsideSegment ==
    ASSUME TypeOK, SentInv, agenda # <<>>, now.op # "configure", Kept(book'),
           UNCHANGED <<orders, loaded, intents>>, transit'.orders = transit.orders,
           Emit(StopEvent) \/ UNCHANGED stream,
           NEW steps \in Seq(HarmlessSteps), agenda' = steps \o Tail(agenda) \/ agenda' = steps
    PROVE  SentInv'
<1>1. NonePlaced /\ EventsSound'
  BY StopEventAdded DEF NonePlaced
<1> QED BY <1>1, HarmlessSegment

\* Steps that protect, trail or close a position.
LEMMA PositionSteps ==
    ASSUME NEW p \in Trades
    PROVE  /\ \A op \in {"emergency", "review"} : <<TradeStep(op, p)>> \in Seq(HarmlessSteps)
           /\ \A force \in BOOLEAN :
                /\ <<Protect(p, force)>> \in Seq(HarmlessSteps)
                /\ <<Protect(p, force), TradeStep("review", p)>> \in Seq(HarmlessSteps)
                /\ <<Protect(p, force), Retrail(p)>> \in Seq(HarmlessSteps)
           /\ <<Retrail(p)>> \in Seq(HarmlessSteps)
<1>1. \A op \in {"emergency", "review", "protect", "trail"} :
        /\ TradeStep(op, p) \in HarmlessSteps
        /\ \A force \in BOOLEAN : [TradeStep(op, p) EXCEPT !.force = force] \in HarmlessSteps
  BY HarmlessStep DEF HarmlessOps, Ops, TradeOps
<1>2. Retrail(p) \in HarmlessSteps /\ \A force \in BOOLEAN : Protect(p, force) \in HarmlessSteps
  BY <1>1 DEF Protect, Retrail
<1> QED BY <1>1, <1>2, OneStep, TwoSteps

\* A stop that is superseded is cancelled.
LEMMA SupersededSteps ==
    ASSUME NEW old \in AlgoIds \cup {NoAlgo}, NEW a
    PROVE  (IF Superseded(old, a) THEN CancelAlgos(<<old>>) ELSE <<>>) \in Seq(HarmlessSteps)
<1>1. Superseded(old, a) => <<old>> \in Seq(AlgoIds)
  BY OneStep DEF Superseded
<1> QED BY <1>1, CancelAlgosHarmless, NoSteps

\* Booking fills and protecting positions keep the invariant.
LEMMA PositionStepSent ==
    ASSUME TypeOK, SentInv, PositionStep
    PROVE  SentInv'
<1> DEFINE p == now.trade
           o == now.order
<1>0. <<>> \in Seq(HarmlessSteps) /\ Kept(book)
  BY NoSteps, KeptRows
<1>1. ASSUME \/ EntryFillNothing \/ Review \/ Alarm \/ ExitFillUnpriced \/ ExitFillNothing
             \/ TrailSkipped \/ TrailFailed \/ TrailDisarmed \/ CancelAlgo \/ PlaceStopFailed
      PROVE  SentInv'
  <2>1. agenda # <<>> /\ now.op # "configure"
    BY <1>1 DEF EntryFillNothing, Review, Alarm, ExitFillUnpriced, ExitFillNothing, TrailSkipped,
                TrailFailed, TrailDisarmed, CancelAlgo, PlaceStopFailed, Due
  <2>2. UNCHANGED <<orders, loaded, intents, book>>
    BY <1>1 DEF EntryFillNothing, Review, Alarm, ExitFillUnpriced, ExitFillNothing, TrailSkipped,
                TrailFailed, TrailDisarmed, CancelAlgo, PlaceStopFailed, account, keepMarket,
                keepTask
  <2>3. transit'.orders = transit.orders /\ (Emit(StopEvent) \/ UNCHANGED stream)
    BY <1>1 DEF EntryFillNothing, Review, Alarm, ExitFillUnpriced, ExitFillNothing, TrailSkipped,
                TrailFailed, TrailDisarmed, CancelAlgo, PlaceStopFailed, account, keepMarket,
                keepStream, PlaceUnconfirmed, AcceptStop, DropStop, TypeOK, AccountTypeOK, Requests
  <2>4. agenda' = <<>> \o Tail(agenda) \/ (agenda' = <<TradeStep("emergency", p)>> \o Tail(agenda)
                                            /\ now.op \in {"review", "place_stop"})
    BY <1>1 DEF EntryFillNothing, Review, Alarm, ExitFillUnpriced, ExitFillNothing, TrailSkipped,
                TrailFailed, TrailDisarmed, CancelAlgo, PlaceStopFailed, Then, Due
  <2>5. now.op \in {"review", "place_stop"} => <<TradeStep("emergency", p)>> \in Seq(HarmlessSteps)
    BY <2>1, TradeNow, PositionSteps DEF TradeOps
  <2>6. Kept(book')
    BY <1>0, <2>2
  <2> HIDE DEF p
  <2> QED BY <1>0, <2>1, <2>2, <2>3, <2>4, <2>5, <2>6, AsideSegment
<1>2. ASSUME EntryFillApplied PROVE SentInv'
  <2> DEFINE t == o.trade
             steps == IF Halted THEN <<TradeStep("emergency", t)>>
                      ELSE <<Protect(t, t \in Held /\ pos[t].prot), TradeStep("review", t)>>
  <2>1. agenda # <<>> /\ now.op = "entry_fill" /\ o \in OrderIds
    BY <1>2, OrderNow DEF EntryFillApplied, Due, OrderOps
  <2>2. /\ UNCHANGED <<orders, loaded, intents, stream, transit>>
        /\ book' = Applied(o, Unapplied(o)) /\ agenda' = steps \o Tail(agenda)
    BY <1>2 DEF EntryFillApplied, Then, account, keepTask
  <2>3. t \in Trades
    BY <2>1, TradeOfOrder
  <2>4. (t \in Held /\ pos[t].prot) \in BOOLEAN
    OBVIOUS
  <2>5. steps \in Seq(HarmlessSteps)
    <3> HIDE DEF t
    <3> QED BY <2>3, <2>4, PositionSteps
  <2>6. Kept(book')
    <3> HIDE DEF o
    <3> QED BY <2>2, KeptRows
  <2> HIDE DEF steps
  <2> QED BY <2>1, <2>2, <2>5, <2>6, AsideSegment
<1>3. ASSUME EntryFillUnpriced PROVE SentInv'
  <2>1. agenda # <<>> /\ now.op = "entry_fill" /\ o \in OrderIds /\ Saved(book, o)
    BY <1>3, OrderNow, NowSound DEF EntryFillUnpriced, Due, OrderOps, StepSound
  <2>2. <<Step("raise")>> \in Seq(HarmlessSteps)
    BY HarmlessStep, OneStep DEF HarmlessOps, Ops
  <2>3. Abort(o) \o <<Step("raise")>> \in Seq(HarmlessSteps)
    BY <2>1, <2>2, AbortHarmless, ConcatProperties
  <2>4. /\ UNCHANGED <<orders, loaded, intents, stream, transit, book>>
        /\ agenda' = Abort(o) \o <<Step("raise")>>
    BY <1>3 DEF EntryFillUnpriced, Return, keepMarket, keepStream, keepTask
  <2>5. Kept(book')
    BY <1>0, <2>4
  <2> QED BY <2>1, <2>3, <2>4, <2>5, AsideSegment
<1>4. ASSUME ProtectBegin PROVE SentInv'
  <2> DEFINE x == [now EXCEPT !.op = "place_stop", !.algo = StopFor(p),
                              !.old = pos[p].stop, !.kept = pos[p].prot]
  <2>1. agenda # <<>> /\ now.op = "protect" /\ p \in Trades
    BY <1>4, TradeNow DEF ProtectBegin, Due, TradeOps
  <2>2. StopFor(p) \in AlgoIds /\ pos[p].stop \in AlgoIds \cup {NoAlgo} /\ pos[p].prot \in BOOLEAN
    BY <2>1, StopForType DEF TypeOK, LedgerTypeOK, PositionRow
  <2>3. x \in HarmlessSteps
    BY <2>1, <2>2, HarmlessNow
  <2>4. /\ UNCHANGED <<orders, loaded, intents, stream, transit, book>>
        /\ agenda' = <<x>> \o Tail(agenda) \/ agenda' = <<>> \o Tail(agenda)
    BY <1>4 DEF ProtectBegin, Then, account, keepTask
  <2>5. Kept(book')
    BY <1>0, <2>4
  <2> HIDE DEF x
  <2>6. <<x>> \in Seq(HarmlessSteps)
    BY <2>3, OneStep
  <2> QED BY <1>0, <2>1, <2>4, <2>5, <2>6, AsideSegment
<1>5. ASSUME PlaceStopAccepted PROVE SentInv'
  <2> DEFINE steps == IF Superseded(now.old, now.algo) THEN CancelAlgos(<<now.old>>) ELSE <<>>
  <2>1. agenda # <<>> /\ now.op = "place_stop" /\ now.old \in AlgoIds \cup {NoAlgo}
    BY <1>5, NowType DEF PlaceStopAccepted, Due, StepsOf, StepType
  <2>2. steps \in Seq(HarmlessSteps)
    BY <2>1, SupersededSteps
  <2>3. /\ UNCHANGED <<orders, loaded, intents, transit, book>> /\ Emit(StopEvent)
        /\ agenda' = steps \o Tail(agenda)
    BY <1>5 DEF PlaceStopAccepted, Then, AcceptStop, keepTask
  <2>4. Kept(book')
    BY <1>0, <2>3
  <2> HIDE DEF steps
  <2> QED BY <2>1, <2>2, <2>3, <2>4, AsideSegment
<1>6. ASSUME TrailPlaced PROVE SentInv'
  <2>1. agenda # <<>> /\ now.op = "trail" /\ p \in Trades
    BY <1>6, TradeNow DEF TrailPlaced, Due, TradeOps
  <2>2. pos[p].trail \in AlgoIds \cup {NoAlgo}
    BY <2>1 DEF TypeOK, LedgerTypeOK, PositionRow
  <2>3. PICK a \in NewTrails(p) :
          /\ AcceptStop(a)
          /\ agenda' = (IF Superseded(pos[p].trail, a) THEN CancelAlgos(<<pos[p].trail>>) ELSE <<>>)
                       \o Tail(agenda)
    BY <1>6 DEF TrailPlaced, Then
  <2> DEFINE steps == IF Superseded(pos[p].trail, a) THEN CancelAlgos(<<pos[p].trail>>) ELSE <<>>
  <2>4. steps \in Seq(HarmlessSteps)
    BY <2>2, SupersededSteps
  <2>5. /\ UNCHANGED <<orders, loaded, intents, transit, book>> /\ Emit(StopEvent)
        /\ agenda' = steps \o Tail(agenda)
    BY <1>6, <2>3 DEF TrailPlaced, AcceptStop, keepTask
  <2>6. Kept(book')
    BY <1>0, <2>5
  <2> HIDE DEF steps
  <2> QED BY <2>1, <2>4, <2>5, <2>6, AsideSegment
<1>7. ASSUME ExitFillApplied PROVE SentInv'
  <2> DEFINE d == ExitDelta(o, p)
             steps == IF pos[p].qty - d > 0 THEN <<Protect(p, TRUE), Retrail(p)>>
                      ELSE CancelPositionAlgos(p, AlgoIds)
  <2>1. agenda # <<>> /\ now.op = "exit_fill" /\ p \in Trades
    BY <1>7, PlacementNow DEF ExitFillApplied, Due, PlacementOps
  <2>2. steps \in Seq(HarmlessSteps)
    BY <2>1, PositionSteps, CancelPositionHarmless
  <2>3. /\ UNCHANGED <<orders, loaded, intents, stream, transit>>
        /\ book' = Applied(o, d) /\ agenda' = steps \o Tail(agenda)
    BY <1>7 DEF ExitFillApplied, Then, account, keepTask
  <2> HIDE DEF steps, d, o
  <2>4. Kept(book')
    BY <2>3, KeptRows
  <2> QED BY <2>1, <2>2, <2>3, <2>4, AsideSegment
<1>8. ASSUME Emergency PROVE SentInv'
  <2>1. agenda # <<>> /\ now.op = "emergency" /\ p \in Trades
    BY <1>8, TradeNow DEF Emergency, Due, TradeOps
  <2>2. PICK u \in Fresh(p, "em") :
          /\ book' = NewOrder(u, pos[p].qty) /\ loaded' = loaded \cup {u}
          /\ agenda' = <<OrderStep("submit", u, p), Step("alarm")>> \o Tail(agenda)
    BY <1>8 DEF Emergency, Then
  <2>3. UNCHANGED <<orders, transit, stream, intents>> /\ pos[p].qty \in Nat
    BY <1>8, <2>1 DEF Emergency, account, TypeOK, LedgerTypeOK, PositionRow
  <2>4. /\ Step("alarm") \in StepType /\ Step("alarm").op \in HarmlessOps
        /\ Step("alarm").order \notin OrderIds /\ Step("alarm").other \notin OrderIds
    BY NoOrderAssumption DEF Step, StepType, HarmlessOps, Ops
  <2> HIDE DEF p
  <2> QED BY <2>1, <2>2, <2>3, <2>4, NewOrderSegment
<1> QED
  BY <1>1, <1>2, <1>3, <1>4, <1>5, <1>6, <1>7, <1>8 DEF PositionStep

\* A step that leaves the agenda, the book and the orders alone.
LEMMA LeftAlone ==
    ASSUME TypeOK, SentInv, UNCHANGED <<agenda, book, orders, loaded, intents>>,
           transit'.orders = transit.orders, UNCHANGED stream \/ stream' = <<>>
    PROVE  SentInv'
<1>1. Kept(book') /\ NonePlaced /\ EventsSound'
  BY EventsLeft DEF Kept, NonePlaced
<1>2. RowsSound' /\ RequestsSound' /\ Remembered /\ IdsSound'
  BY <1>1, RowsLeft, IdsLeft
<1>3. AgendaSound'
  BY <1>1, <1>2, AgendaLeft, StillUnsent
<1> QED BY <1>1, <1>2, <1>3 DEF SentInv

\* A task takes the lock, or dies, and leaves harmless steps.
LEMMA Begun ==
    ASSUME TypeOK, SentInv, Kept(book'), NonePlaced, loaded' \subseteq loaded,
           intents \subseteq intents', EventsSound',
           NEW steps \in Seq(HarmlessSteps), agenda' = steps
    PROVE  SentInv'
<1>1. RowsSound' /\ RequestsSound' /\ Remembered /\ IdsSound'
  BY RowsLeft, IdsLeft
<1>2. AgendaSound'
  BY <1>1, HarmlessSound DEF AgendaSound
<1> QED BY <1>1, <1>2 DEF SentInv

\* Taking a late event keeps the invariant: it tells of an order that was placed.
LEMMA StreamStepSent ==
    ASSUME TypeOK, SentInv, StreamStep
    PROVE  SentInv'
<1>1. ASSUME HandleEvent PROVE SentInv'
  <2> DEFINE e == Head(stream)
             o == e.order
             heard == [book EXCEPT ![o].st = e.st, ![o].filled = e.filled]
  <2>1. /\ stream # <<>> /\ stream' = Tail(stream)
        /\ UNCHANGED <<orders, transit, loaded, intents>>
    BY <1>1 DEF HandleEvent, keepMarket
  <2>2. stream \in Seq(Events) /\ e = stream[1] /\ 1 \in 1..Len(stream)
    BY <2>1, RowTypes
  <2>3. /\ Len(stream') = Len(stream) - 1
        /\ \A i \in 1..Len(stream') : stream'[i] = stream[i + 1] /\ i + 1 \in 1..Len(stream)
    BY <2>1, <2>2, HeadTailProperties, LenProperties
  <2>4. EventsSound'
    BY <2>3 DEF SentInv, EventsSound
  <2>5. NonePlaced
    BY <2>1 DEF NonePlaced
  <2>6. CASE agenda' = <<>> /\ UNCHANGED book
    <3>1. Kept(book') /\ <<>> \in Seq(HarmlessSteps)
      BY <2>6, NoSteps DEF Kept
    <3> QED BY <2>1, <2>4, <2>5, <2>6, <3>1, Begun
  <2>7. CASE /\ o \in loaded /\ book' = heard
             /\ \/ agenda' = <<>>
                \/ agenda' = <<OrderStep("entry_fill", o, o.trade)>>
                \/ \E p \in Trades : agenda' = <<OrderStep("exit_fill", o, p)>>
    <3>1. o \in OrderIds /\ Saved(book, o) /\ e.st # "none"
      BY <2>2, <2>7, RowTypes DEF SentInv, IdsSound, EventsSound
    <3>2. Kept(heard)
      <4> HIDE DEF e
      <4> QED BY <3>1, RowTypes DEF Kept, Saved, BookRow
    <3>3. \A op \in {"entry_fill", "exit_fill"}, p \in Trades :
            <<OrderStep(op, o, p)>> \in Seq(HarmlessSteps)
      <4>1. {"entry_fill", "exit_fill"} \subseteq HarmlessOps
        BY DEF HarmlessOps, Ops, OrderOps, PlacementOps
      <4> HIDE DEF o
      <4> QED BY <3>1, <4>1, HarmlessOrderStep, OneStep
    <3>4. o.trade \in Trades
      BY <3>1, TradeOfOrder
    <3>5. PICK steps \in Seq(HarmlessSteps) : agenda' = steps
      <4> HIDE DEF o
      <4> QED BY <2>7, <3>3, <3>4, NoSteps
    <3> HIDE DEF heard
    <3> QED BY <2>1, <2>4, <2>5, <2>7, <3>2, <3>5, Begun
  <2> QED
    BY <1>1, <2>6, <2>7, PositionForTypes DEF HandleEvent, Return
<1>2. ASSUME DropStream \/ Reconnect PROVE SentInv'
  <2>1. /\ UNCHANGED <<agenda, book, orders, loaded, intents, transit>>
        /\ UNCHANGED stream \/ stream' = <<>>
    BY <1>2 DEF DropStream, Reconnect, StreamLost, keepMarket, ledger, volatile
  <2> QED BY <2>1, LeftAlone
<1> QED BY <1>1, <1>2 DEF StreamStep

\* The first segment of reconcile() leaves harmless steps.
LEMMA ReconcileHarmless ==
    ASSUME TypeOK, Reconcile
    PROVE  \E steps \in Seq(HarmlessSteps) : agenda' = steps \o Tail(agenda)
<1> DEFINE closed == {t \in Held : taken.short[SymbolOf[t]] = 0}
           unknown == taken.orders \ loaded
           gone == SetToSeq(closed)
           lost == SetToSeq(unknown)
           flat == [t \in Trades |-> TradeStep("flat", t)]
           cancel == [o \in OrderIds |-> OrderStep("cancel_order", o, NoTrade)]
           flats == [i \in 1..Len(gone) |-> TradeStep("flat", gone[i])]
           cancels == [i \in 1..Len(lost) |-> OrderStep("cancel_order", lost[i], NoTrade)]
<1>1. agenda # <<>> /\ now.op \in SnapshotOps
  BY DEF Reconcile, Due, SnapshotOps
<1>2. taken \in Snapshot
  BY <1>1, SnapshotNow
<1>3. closed \subseteq Trades /\ IsFiniteSet(closed)
  BY FS_Subset, AccountAssumption DEF Held
<1>4. unknown \subseteq OrderIds /\ IsFiniteSet(unknown)
  BY <1>2, OrderIdsFinite, FS_Subset DEF Snapshot
<1>5. {"flat", "cancel_order", "positions"} \subseteq HarmlessOps
  BY DEF HarmlessOps, Ops, TradeOps, OrderOps, SnapshotOps
<1>6. flats \in Seq(HarmlessSteps)
  <2> HIDE DEF closed
  <2>1. flat \in [Trades -> HarmlessSteps]
    BY <1>5, HarmlessStep
  <2>2. [i \in 1..Len(gone) |-> flat[gone[i]]] \in Seq(HarmlessSteps)
    BY <1>3, <2>1, MappedSet
  <2>3. \A i \in 1..Len(gone) : flat[gone[i]] = TradeStep("flat", gone[i])
    <3>1. gone \in Seq(closed)
      BY <1>3, SetToSeqType
    <3> QED BY <1>3, <3>1, ElementOfSeq
  <2> QED BY <2>2, <2>3
<1>7. cancels \in Seq(HarmlessSteps)
  <2> HIDE DEF unknown
  <2>1. cancel \in [OrderIds -> HarmlessSteps]
    BY <1>5, HarmlessOrderStep
  <2>2. [i \in 1..Len(lost) |-> cancel[lost[i]]] \in Seq(HarmlessSteps)
    BY <1>4, <2>1, MappedSet
  <2>3. \A i \in 1..Len(lost) : cancel[lost[i]] = OrderStep("cancel_order", lost[i], NoTrade)
    <3>1. lost \in Seq(unknown)
      BY <1>4, SetToSeqType
    <3> QED BY <1>4, <3>1, ElementOfSeq
  <2> QED BY <2>2, <2>3
<1>8. <<Step("positions")>> \in Seq(HarmlessSteps)
  BY <1>5, HarmlessStep, OneStep
<1>9. agenda' = (flats \o cancels \o <<Step("positions")>>) \o Tail(agenda)
  BY DEF Reconcile, Then
<1> HIDE DEF flats, cancels
<1>10. flats \o cancels \o <<Step("positions")>> \in Seq(HarmlessSteps)
  BY <1>6, <1>7, <1>8, ConcatProperties
<1> QED BY <1>9, <1>10

\* Starting the loop over the positions leaves harmless steps.
LEMMA PositionsHarmless ==
    ASSUME TypeOK, ReconcilePositions
    PROVE  \E steps \in Seq(HarmlessSteps) : agenda' = steps \o Tail(agenda)
<1> DEFINE ps == SetToSeq(Held)
           iterate == [Step("iterate") EXCEPT !.known = Held]
           turn(i) == IF i % 2 = 1 THEN TradeStep("position", ps[(i + 1) \div 2])
                      ELSE iterate
           turns == [i \in 1..(2 * Len(ps)) |-> turn(i)]
           strays == [Step("strays") EXCEPT !.known = AlgosInUse]
<1>1. Held \subseteq Trades /\ AlgosInUse \subseteq AlgoIds \cup {NoAlgo}
  BY DEF Held, AlgosInUse, TypeOK, LedgerTypeOK, PositionRow
<1>2. ps \in Seq(Trades)
  <2>1. IsFiniteSet(Held)
    BY <1>1, FS_Subset, AccountAssumption
  <2> QED BY <1>1, <2>1, SetToSeqType, SeqMonotonic
<1>3. {"position", "iterate", "strays"} \subseteq HarmlessOps
  BY DEF HarmlessOps, Ops, SnapshotOps, TradeOps
<1>4. iterate \in HarmlessSteps /\ <<strays>> \in Seq(HarmlessSteps)
  BY <1>1, <1>3, HarmlessStep, OneStep
<1>5. turns \in Seq(HarmlessSteps)
  <2> HIDE DEF ps, iterate
  <2>1. Len(ps) \in Nat /\ \A k \in 1..Len(ps) : ps[k] \in Trades
    BY <1>2, LenProperties, ElementOfSeq
  <2>2. ASSUME NEW i \in 1..(2 * Len(ps)) PROVE turn(i) \in HarmlessSteps
    <3>1. i % 2 = 1 => (i + 1) \div 2 \in 1..Len(ps)
      BY <2>1
    <3> QED BY <1>3, <1>4, <2>1, <3>1, HarmlessStep
  <2>3. 2 * Len(ps) \in Nat
    BY <2>1
  <2>4. turns \in [1..(2 * Len(ps)) -> HarmlessSteps]
    BY <2>2
  <2> QED BY <2>3, <2>4, SeqDef
<1>6. agenda' = (turns \o <<strays>>) \o Tail(agenda)
  BY DEF ReconcilePositions, Then
<1> HIDE DEF turns, strays
<1>7. turns \o <<strays>> \in Seq(HarmlessSteps)
  BY <1>4, <1>5, ConcatProperties
<1> QED BY <1>6, <1>7

\* Recovery and reconcile keep the invariant.
LEMMA ReconcileStepSent ==
    ASSUME TypeOK, SentInv, ReconcileStep
    PROVE  SentInv'
<1> DEFINE o == now.order
           p == now.trade
<1>0. <<>> \in Seq(HarmlessSteps) /\ Kept(book)
  BY NoSteps, KeptRows
<1>1. ASSUME NEW task \in Reconcilers,
             FetchPositions(task) \/ FetchOrders(task) \/ FetchFails(task)
      PROVE  SentInv'
  <2>1. /\ UNCHANGED <<agenda, book, orders, loaded, intents, transit>>
        /\ UNCHANGED stream \/ stream' = <<>>
    BY <1>1 DEF FetchPositions, FetchOrders, FetchFails, StreamLost, keepMarket, ledger, account
  <2> QED BY <2>1, LeftAlone
<1>2. ASSUME NEW task \in Reconcilers, BeginReconcile(task) PROVE SentInv'
  <2> DEFINE first == IF up = "recovering" THEN RecoverSteps ELSE <<>>
             steps == first \o <<Step("reconcile")>>
  <2>1. first \in Seq(HarmlessSteps)
    BY <1>0, RecoverHarmless
  <2>2. <<Step("reconcile")>> \in Seq(HarmlessSteps)
    BY HarmlessStep, OneStep DEF HarmlessOps, Ops, SnapshotOps
  <2>3. UNCHANGED <<book, orders, loaded, intents, transit, stream>> /\ agenda' = steps
    BY <1>2 DEF BeginReconcile, Return, account, ledger
  <2> HIDE DEF first
  <2>4. steps \in Seq(HarmlessSteps)
    BY <2>1, <2>2, ConcatProperties
  <2>5. Kept(book') /\ NonePlaced /\ EventsSound'
    BY <1>0, <2>3, EventsLeft DEF NonePlaced
  <2> HIDE DEF steps
  <2> QED BY <2>3, <2>4, <2>5, Begun
<1>3. ASSUME Recover PROVE SentInv'
  <2>1. agenda # <<>> /\ now.op = "recover" /\ o \in OrderIds /\ Saved(book, o)
    BY <1>3, OrderNow, NowSound DEF Recover, Due, OrderOps, StepSound
  <2>2. /\ UNCHANGED <<orders, transit, stream, loaded, intents>>
        /\ book' = book \/ (orders[o].st # "none" /\ book' = Heard(o))
    BY <1>3 DEF Recover, keepMarket, keepStream, keepTask
  <2>3. \/ agenda' = <<>> \o Tail(agenda)
        \/ agenda' = <<[now EXCEPT !.op = "entry_fill"]>> \o Tail(agenda)
        \/ \E t \in Trades : agenda' = <<OrderStep("exit_fill", o, t)>> \o Tail(agenda)
    BY <1>3, PositionForTypes DEF Recover, Then
  <2>4. {"entry_fill", "exit_fill"} \subseteq HarmlessOps
    BY DEF HarmlessOps, Ops, OrderOps, PlacementOps
  <2>5. <<[now EXCEPT !.op = "entry_fill"]>> \in Seq(HarmlessSteps)
    BY <2>1, <2>4, HarmlessNow, OneStep
  <2> HIDE DEF o
  <2>6. \A t \in Trades : <<OrderStep("exit_fill", o, t)>> \in Seq(HarmlessSteps)
    BY <2>1, <2>4, HarmlessOrderStep, OneStep
  <2>7. PICK steps \in Seq(HarmlessSteps) : agenda' = steps \o Tail(agenda)
    BY <1>0, <2>3, <2>5, <2>6
  <2>8. Kept(book')
    BY <1>0, <2>1, <2>2, KeptRows
  <2> QED BY <2>1, <2>2, <2>7, <2>8, AsideSegment
<1>4. ASSUME \/ Reconcile \/ CloseFlat \/ ReconcilePositions \/ ReconcilePosition
             \/ ReconcileIterate \/ ReconcileStrays \/ ReconcileDone
      PROVE  SentInv'
  <2>1. agenda # <<>> /\ now.op \in SnapshotOps /\ now.op # "configure"
    BY <1>4 DEF Reconcile, CloseFlat, ReconcilePositions, ReconcilePosition, ReconcileIterate,
                ReconcileStrays, ReconcileDone, Due, SnapshotOps
  <2>2. UNCHANGED <<orders, transit, stream, loaded, intents, book>>
    BY <1>4 DEF Reconcile, CloseFlat, ReconcilePositions, ReconcilePosition, ReconcileIterate,
                ReconcileStrays, ReconcileDone, account, keepMarket, keepStream, keepTask
  <2>3. taken \in Snapshot /\ IsFiniteSet(taken.algos)
    BY <2>1, SnapshotNow
  <2>4. ASSUME NEW steps \in Seq(HarmlessSteps), agenda' = steps \o Tail(agenda) \/ agenda' = steps
        PROVE  SentInv'
    <3>1. Kept(book')
      BY <1>0, <2>2
    <3> QED BY <2>1, <2>2, <2>4, <3>1, AsideSegment
  <2>5. CASE Reconcile \/ ReconcilePositions
    BY <2>4, <2>5, ReconcileHarmless, PositionsHarmless
  <2>6. CASE CloseFlat
    <3>1. CancelPositionAlgos(p, taken.algos) \in Seq(HarmlessSteps)
      BY <2>3, CancelPositionHarmless DEF Snapshot
    <3>2. agenda' = CancelPositionAlgos(p, taken.algos) \o Tail(agenda)
      BY <2>6 DEF CloseFlat, Then
    <3> QED BY <2>4, <3>1, <3>2
  <2>7. CASE ReconcilePosition
    <3>1. p \in Trades
      BY <2>1, <2>7, TradeNow DEF ReconcilePosition, Due, TradeOps
    <3>2. PICK s1 \in {<<>>, <<Protect(p, TRUE)>>, <<Protect(p, FALSE)>>},
               s2 \in {<<>>, <<Retrail(p)>>} :
            agenda' = (s1 \o s2) \o Tail(agenda)
      <4> DEFINE s == SymbolOf[p]
                 q == taken.short[s]
                 changed == q # pos[p].qty
                 listed == pos[p].stop \in taken.algos
                 resized == listed /\ pos[p].stop.qty # q
                 replace == changed \/ resized
                 first == IF listed /\ ~replace THEN <<>> ELSE <<Protect(p, replace)>>
                 second == IF changed /\ pos[p].trail # NoAlgo THEN <<Retrail(p)>> ELSE <<>>
      <4>1. agenda' = (first \o second) \o Tail(agenda)
        BY <2>7 DEF ReconcilePosition, Then
      <4>2. replace \in BOOLEAN
        OBVIOUS
      <4> HIDE DEF replace, listed, changed
      <4>3. first \in {<<>>, <<Protect(p, TRUE)>>, <<Protect(p, FALSE)>>} /\ second \in {<<>>, <<Retrail(p)>>}
        BY <4>2
      <4> HIDE DEF first, second
      <4> QED BY <4>1, <4>2, <4>3
    <3> HIDE DEF p
    <3>3. s1 \in Seq(HarmlessSteps) /\ s2 \in Seq(HarmlessSteps)
      BY <1>0, <3>1, <3>2, PositionSteps
    <3>4. s1 \o s2 \in Seq(HarmlessSteps)
      BY <3>3, ConcatProperties
    <3> QED BY <2>4, <3>2, <3>4
  <2>8. CASE ReconcileIterate
    <3>1. <<Step("raise")>> \in Seq(HarmlessSteps)
      BY HarmlessStep, OneStep DEF HarmlessOps, Ops
    <3>2. agenda' = <<>> \o Tail(agenda) \/ agenda' = <<Step("raise")>>
      BY <2>8 DEF ReconcileIterate, Then, Return
    <3> QED BY <1>0, <2>4, <3>1, <3>2
  <2>9. CASE ReconcileStrays
    <3> DEFINE orphans == SetToSeq(taken.algos \ (now.known \cup AlgosInUse))
    <3>1. orphans \in Seq(AlgoIds)
      <4>1. IsFiniteSet(taken.algos \ (now.known \cup AlgosInUse))
        BY <2>3, FS_Subset
      <4>2. taken.algos \ (now.known \cup AlgosInUse) \subseteq AlgoIds
        BY <2>3 DEF Snapshot
      <4> QED BY <4>1, <4>2, SetToSeqType, SeqMonotonic
    <3>2. <<Step("clear")>> \in Seq(HarmlessSteps)
      BY HarmlessStep, OneStep DEF HarmlessOps, Ops, SnapshotOps
    <3>3. CancelAlgos(orphans) \o <<Step("clear")>> \in Seq(HarmlessSteps)
      BY <3>1, <3>2, CancelAlgosHarmless, ConcatProperties
    <3>4. agenda' = (CancelAlgos(orphans) \o <<Step("clear")>>) \o Tail(agenda)
      BY <2>9 DEF ReconcileStrays, Then
    <3> QED BY <2>4, <3>3, <3>4
  <2>10. CASE ReconcileDone
    BY <1>0, <2>4, <2>10 DEF ReconcileDone, Return
  <2> QED BY <1>4, <2>5, <2>6, <2>7, <2>8, <2>9, <2>10
<1>5. ASSUME CancelOrphanOrder PROVE SentInv'
  <2>1. agenda # <<>> /\ now.op = "cancel_order" /\ o \in OrderIds
    BY <1>5, OrderNow DEF CancelOrphanOrder, Due, OrderOps
  <2>2. /\ UNCHANGED <<transit, loaded, intents, book>> /\ agenda' = <<>> \o Tail(agenda)
        /\ CancelWorking(o) \/ UNCHANGED <<orders, stream>>
    BY <1>5 DEF CancelOrphanOrder, Then, keepTask
  <2>3. NonePlaced /\ EventsSound' /\ Kept(book')
    BY <1>0, <2>1, <2>2, CancelSound, EventsLeft DEF NonePlaced
  <2> QED BY <1>0, <2>1, <2>2, <2>3, HarmlessSegment
<1> QED BY <1>1, <1>2, <1>3, <1>4, <1>5 DEF ReconcileStep

\* Every crash keeps the invariant, the one between sending an order and hearing of it
\* included: the agenda is gone, and nothing sends the order again.
LEMMA CrashStepSent ==
    ASSUME TypeOK, SentInv, CrashStep
    PROVE  SentInv'
<1> DEFINE o == now.order
<1>1. ASSUME Crash \/ CrashBetweenCommits PROVE SentInv'
  <2>1. /\ UNCHANGED <<orders, transit>> /\ loaded' = {} /\ agenda' = <<>> /\ stream' = <<>>
        /\ intents \subseteq intents'
    BY <1>1 DEF Crash, CrashBetweenCommits, Die, keepMarket, ledger
  <2>2. book' = book \/ \E x, d : book' = Applied(x, d)
    BY <1>1 DEF Crash, CrashBetweenCommits, ledger
  <2>3. Kept(book') /\ NonePlaced /\ EventsSound' /\ <<>> \in Seq(HarmlessSteps)
    BY <2>1, <2>2, KeptRows, EventsLeft, NoSteps DEF NonePlaced
  <2> QED BY <2>1, <2>3, Begun
<1>2. ASSUME CrashAfterSend PROVE SentInv'
  <2>1. /\ UNCHANGED <<transit, book, intents>> /\ loaded' = {} /\ agenda' = <<>> /\ stream' = <<>>
        /\ \/ Due("submit") /\ orders' = Accepted(o, book[o].qty)
           \/ UNCHANGED orders
    BY <1>2 DEF CrashAfterSend, Die, ledger
  <2>2. Kept(book') /\ EventsSound' /\ <<>> \in Seq(HarmlessSteps)
    BY <2>1, KeptRows, EventsLeft, NoSteps
  <2>3. CASE UNCHANGED orders
    <3>1. NonePlaced
      BY <2>1, <2>3 DEF NonePlaced
    <3> QED BY <2>1, <2>2, <3>1, Begun
  <2>4. CASE Due("submit") /\ orders' = Accepted(o, book[o].qty)
    <3>1. o \in OrderIds /\ Saved(book, o) /\ Unsent(orders, transit.orders, o)
      BY <2>4, PlacementOrder DEF Due, PlacementOps
    <3>2. RowsSound' /\ RequestsSound' /\ Remembered /\ IdsSound'
      BY <2>1, <2>2, <2>4, <3>1, Placed, IdsLeft
    <3>3. AgendaSound'
      BY <2>1, <2>2, <3>2, HarmlessSound DEF AgendaSound
    <3> QED BY <2>2, <3>2, <3>3 DEF SentInv
  <2> QED BY <2>1, <2>3, <2>4
<1>3. ASSUME Boot PROVE SentInv'
  <2>1. /\ UNCHANGED <<orders, transit, book, intents, agenda, stream>>
        /\ loaded' = {x \in OrderIds : Pending(x)}
    BY <1>3 DEF Boot, account, ledger
  <2>2. Kept(book') /\ NonePlaced /\ EventsSound'
    BY <2>1, KeptRows, EventsLeft DEF NonePlaced
  <2>3. RowsSound' /\ RequestsSound' /\ Remembered
    BY <2>2, RowsLeft
  <2>4. IdsSound'
    BY <2>1 DEF SentInv, IdsSound, Pending, Saved
  <2>5. AgendaSound'
    BY <2>1, <2>2, <2>3, AgendaLeft, StillUnsent
  <2> QED BY <2>2, <2>3, <2>4, <2>5 DEF SentInv
<1> QED BY <1>1, <1>2, <1>3 DEF CrashStep

-----------------------------------------------------------------------------
\* Nothing is saved, sent or planned at the start.
LEMMA InitSent ==
    ASSUME Init
    PROVE  SentInv
<1>1. \A o \in OrderIds : orders[o] = NeverSent /\ book[o] = NoEntry
  BY DEF Init, AccountInit
<1>2. agenda = <<>> /\ stream = <<>> /\ transit.orders = {} /\ loaded = {}
  BY DEF Init, AccountInit
<1>3. RowsSound /\ RequestsSound /\ EventsSound
  BY <1>1, <1>2 DEF RowsSound, RequestsSound, EventsSound, Unsent, NeverSent, NoEntry
<1>4. AgendaSound
  BY <1>2 DEF AgendaSound, StepsSound, SubmitsFirst
<1>5. IdsSound
  <2>1. \A o \in SignalIds \cup TimedIds : ~Saved(book, o)
    BY <1>1 DEF Saved, NoEntry, OrderIds
  <2> QED BY <1>2, <2>1 DEF IdsSound
<1> QED BY <1>3, <1>4, <1>5 DEF SentInv

(* The invariant behind SentAtMostOnce: an id is submitted once, while nobody knows it,
   from a saved row that stays saved (LiveOrderManager of oms.py). *)
THEOREM SentInvariant == Spec => []SentInv
<1>1. TypeOK /\ SentInv /\ [Next]_vars => SentInv'
  <2> SUFFICES ASSUME TypeOK, SentInv, [Next]_vars
               PROVE  SentInv'
    OBVIOUS
  <2>1. CASE UNCHANGED vars
    <3>1. /\ UNCHANGED <<agenda, book, orders, loaded, intents, transit, stream>>
      BY <2>1 DEF vars, account, ledger, volatile
    <3> QED BY <3>1, LeftAlone
  <2>2. CASE Next
    BY <2>2, ExchangeStepSent, SignalStepSent, PlacementStepSent, PositionStepSent,
       StreamStepSent, ReconcileStepSent, CrashStepSent DEF Next
  <2> QED BY <2>1, <2>2
<1> QED
  BY <1>1, InitSent, TypeCorrect, PTL DEF Spec

(* In every execution, whatever requests time out, arrive late or are replayed after a
   crash, the exchange never gets more of a client order id than its row was saved for. *)
THEOREM SentAtMostOnceHolds == Spec => []SentAtMostOnce
<1>1. SentInv => SentAtMostOnce
  BY DEF SentInv, RowsSound, SentAtMostOnce
<1> QED BY <1>1, SentInvariant, PTL
=============================================================================
