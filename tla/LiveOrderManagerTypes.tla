------------------------ MODULE LiveOrderManagerTypes -----------------------
(***************************************************************************)
(* The type invariant of LiveOrderManager is inductive.                    *)
(*                                                                         *)
(* TypeOK says of the agenda that every step has the objects its segment   *)
(* reads (StepsOf); without that conjunct it would not be preserved, since *)
(* a segment's type depends on the steps earlier segments left for it.     *)
(* There is one lemma per group of actions, one step per action.           *)
(***************************************************************************)
EXTENDS LiveOrderManager, FiniteSetTheorems, SequenceTheorems, TLAPS

-----------------------------------------------------------------------------
\* SetToSeq enumerates a finite set.
LEMMA SetToSeqType ==
    ASSUME NEW S, IsFiniteSet(S)
    PROVE  SetToSeq(S) \in Seq(S)
<1>1. PICK f \in Bijection(1..Cardinality(S), S) : TRUE
  BY FS_CardinalityType DEF ExistsBijection
<1>2. f \in [1..Cardinality(S) -> S] /\ IsInjective(f)
  BY <1>1 DEF Bijection, Injection, IsInjective
<1>3. SetToSeq(S) \in [1..Cardinality(S) -> S]
  BY <1>2 DEF SetToSeq
<1> QED
  BY <1>3, FS_CardinalityType, SeqDef

\* There are finitely many client order ids (short_id of finitely many trades).
LEMMA OrderIdsFinite == IsFiniteSet(OrderIds)
<1> DEFINE Roles == {"en", "ex", "px", "em", "uf"}
           Numbers == 1..(MaxIds + 1)
           Triples == (Trades \X Roles) \X Numbers
           triple == [o \in OrderIds |-> <<<<o.trade, o.role>>, o.n>>]
<1>1. IsFiniteSet(Roles)
  <2>1. IsFiniteSet({"en"} \cup {"ex"})
    BY FS_Singleton, FS_AddElement
  <2>2. IsFiniteSet(({"en"} \cup {"ex"}) \cup {"px"})
    BY <2>1, FS_AddElement
  <2>3. IsFiniteSet((({"en"} \cup {"ex"}) \cup {"px"}) \cup {"em"})
    BY <2>2, FS_AddElement
  <2>4. IsFiniteSet(((({"en"} \cup {"ex"}) \cup {"px"}) \cup {"em"}) \cup {"uf"})
    BY <2>3, FS_AddElement
  <2>5. Roles = ((({"en"} \cup {"ex"}) \cup {"px"}) \cup {"em"}) \cup {"uf"}
    OBVIOUS
  <2> QED BY <2>4, <2>5
<1>2. IsFiniteSet(Numbers)
  BY FS_Interval, AccountAssumption
<1>3. IsFiniteSet(Trades \X Roles)
  BY <1>1, FS_Product, AccountAssumption
<1>4. IsFiniteSet(Triples)
  BY <1>2, <1>3, FS_Product
<1>5. triple \in [OrderIds -> Triples]
  BY AccountAssumption DEF OrderIds, SignalIds, TimedIds
<1>6. \A o1, o2 \in OrderIds : triple[o1] = triple[o2] => o1 = o2
  BY DEF OrderIds, SignalIds, TimedIds
<1>7. triple \in Injection(OrderIds, Triples)
  BY <1>5, <1>6 DEF Injection, IsInjective
<1> QED
  BY <1>4, <1>7, FS_Injection

\* The first step of an agenda is one its task may run.
LEMMA NowType ==
    ASSUME TypeOK, agenda # <<>>
    PROVE  now \in StepsOf(owner)
BY HeadTailProperties DEF TypeOK, TaskTypeOK, now

\* Putting steps before the rest of an agenda gives an agenda.
LEMMA ThenType ==
    ASSUME TypeOK, agenda # <<>>, NEW steps \in Seq(StepsOf(owner))
    PROVE  steps \o Tail(agenda) \in Seq(StepsOf(owner))
BY HeadTailProperties, ConcatProperties DEF TypeOK, TaskTypeOK

\* A step about an order is one any task may run.
LEMMA StepOfOrder ==
    ASSUME NEW o \in OrderIds, NEW p \in Trades, NEW task,
           NEW op \in OrderOps \cup TradeOps \cup PlacementOps \cup {"raise", "alarm"},
           op \notin SnapshotOps \cup AlgoOps
    PROVE  OrderStep(op, o, p) \in StepsOf(task)
BY DEF OrderStep, Step, StepsOf, StepType, Ops, OrderOps, TradeOps, PlacementOps, AlgoOps, SnapshotOps

\* A step about a position is one its task may run.
LEMMA StepOfTrade ==
    ASSUME NEW p \in Trades, NEW task, NEW op \in TradeOps, op # "place_stop",
           op \in SnapshotOps => task \in Reconcilers, NEW force \in BOOLEAN
    PROVE  [TradeStep(op, p) EXCEPT !.force = force] \in StepsOf(task)
BY DEF TradeStep, Step, StepsOf, StepType, Ops, OrderOps, TradeOps, PlacementOps, AlgoOps, SnapshotOps

-----------------------------------------------------------------------------
\* A step that leaves the account alone keeps its type.
LEMMA AccountKept ==
    ASSUME AccountTypeOK, UNCHANGED account
    PROVE  AccountTypeOK'
BY DEF AccountTypeOK, account

\* A step that leaves the ledger alone keeps its type.
LEMMA LedgerKept ==
    ASSUME LedgerTypeOK, UNCHANGED ledger
    PROVE  LedgerTypeOK'
BY DEF LedgerTypeOK, ledger

\* A step that leaves the tasks alone keeps their type.
LEMMA TaskKept ==
    ASSUME TaskTypeOK, UNCHANGED <<volatile, crashes, cursor>>
    PROVE  TaskTypeOK'
BY DEF TaskTypeOK, volatile

\* An emitted event leaves the user stream well-formed.
LEMMA EmitType ==
    ASSUME AccountTypeOK, NEW e \in Events, Emit(e)
    PROVE  stream' \in Seq(Events)
BY DEF AccountTypeOK, Emit

\* An accepted order leaves the exchange's rows well-formed.
LEMMA AcceptedType ==
    ASSUME AccountTypeOK, NEW o \in OrderIds, NEW q \in Nat
    PROVE  Accepted(o, q) \in [OrderIds -> OrderRow]
BY DEF AccountTypeOK, Accepted, OrderRow, OrderStatus

\* A stop that starts to work keeps the types it touches.
LEMMA AcceptStopType ==
    ASSUME AccountTypeOK, NEW a \in AlgoIds, AcceptStop(a)
    PROVE  /\ algos' \subseteq AlgoIds /\ IsFiniteSet(algos') /\ seen' \subseteq AlgoIds
           /\ stream' \in Seq(Events)
<1>1. StopEvent \in Events
  BY DEF StopEvent, OrderEvent, Events, OrderStatus
<1> QED
  BY <1>1, EmitType, FS_AddElement DEF AcceptStop, AccountTypeOK

\* A stop that ceases to work keeps the types it touches.
LEMMA DropStopType ==
    ASSUME AccountTypeOK, NEW a, DropStop(a)
    PROVE  /\ algos' \subseteq AlgoIds /\ IsFiniteSet(algos')
           /\ stream' \in Seq(Events)
<1>1. StopEvent \in Events
  BY DEF StopEvent, OrderEvent, Events, OrderStatus
<1> QED
  BY <1>1, EmitType, FS_RemoveElement DEF DropStop, AccountTypeOK

\* Cancelling a working order keeps the types it touches.
LEMMA CancelWorkingType ==
    ASSUME AccountTypeOK, NEW o \in OrderIds, CancelWorking(o)
    PROVE  /\ orders' \in [OrderIds -> OrderRow]
           /\ stream' \in Seq(Events)
<1>1. OrderEvent(o, "dead", orders[o].filled, FALSE) \in Events
  BY DEF AccountTypeOK, OrderRow, OrderEvent, Events, OrderStatus
<1> QED
  BY <1>1, EmitType DEF CancelWorking, Cancelled, AccountTypeOK, OrderRow, OrderStatus

\* Whatever the exchange does on its own keeps the account's type.
LEMMA AccountNextType ==
    ASSUME AccountTypeOK, AccountNext
    PROVE  AccountTypeOK'
<1>1. ASSUME NEW o \in OrderIds, Fill(o)
      PROVE  AccountTypeOK'
  <2> DEFINE s == SymbolOfId(o)
             left == orders[o].qty - orders[o].filled
             room == IF IsEntry(o) \/ left <= short[s] THEN left ELSE short[s]
             st(q) == IF q = left THEN "filled" ELSE "live"
             filled(q) == orders[o].filled + q
             covered(q) == IF IsEntry(o) THEN short[s] + q ELSE short[s] - q
  <2>1. PICK q \in 1..room :
          /\ orders' = [orders EXCEPT ![o].st = st(q), ![o].filled = filled(q)]
          /\ short' = [short EXCEPT ![s] = covered(q)]
          /\ Emit(OrderEvent(o, st(q), filled(q), TRUE))
    BY <1>1 DEF Fill
  <2>2. s \in Symbols
    BY AccountAssumption DEF SymbolOfId, OrderIds, SignalIds, TimedIds
  <2>3. /\ orders[o].filled \in Nat /\ left \in Int /\ short[s] \in Nat
        /\ room \in Int
    BY <2>2 DEF AccountTypeOK, OrderRow
  <2>4. covered(q) \in Nat /\ filled(q) \in Nat /\ st(q) \in OrderStatus
    BY <2>3 DEF OrderStatus
  <2> HIDE DEF st, filled, covered, s
  <2>5. orders' \in [OrderIds -> OrderRow]
    BY <2>1, <2>4 DEF AccountTypeOK, OrderRow
  <2>6. short' \in [Symbols -> Nat]
    BY <2>1, <2>2, <2>4 DEF AccountTypeOK
  <2>7. OrderEvent(o, st(q), filled(q), TRUE) \in Events
    BY <2>4 DEF OrderEvent, Events
  <2>8. stream' \in Seq(Events)
    BY <2>1, <2>7, EmitType
  <2> QED
    BY <1>1, <2>5, <2>6, <2>8 DEF Fill, AccountTypeOK
<1>2. ASSUME NEW o \in OrderIds, Expire(o)
      PROVE  AccountTypeOK'
  <2>1. faults' \in 0..MaxFaults
    BY <1>2, AccountAssumption DEF Expire, Fault, AccountTypeOK
  <2> QED
    BY <1>2, <2>1, CancelWorkingType DEF Expire, AccountTypeOK
<1>3. ASSUME NEW a \in algos, Trigger(a)
      PROVE  AccountTypeOK'
  <2>1. a \in AlgoIds
    BY DEF AccountTypeOK
  <2>2. /\ SymbolOfId(a) \in Symbols /\ a.qty \in Nat
    BY <2>1, AccountAssumption DEF SymbolOfId, AlgoIds, StopIds, TrailIds
  <2>3. short' \in [Symbols -> Nat]
    BY <1>3, <2>2 DEF Trigger, AccountTypeOK
  <2>4. IsFiniteSet(algos')
    BY <1>3, FS_RemoveElement DEF Trigger, AccountTypeOK
  <2>5. StopEvent \in Events
    BY DEF StopEvent, OrderEvent, Events, OrderStatus
  <2> QED
    BY <1>3, <2>3, <2>4, <2>5, EmitType, AccountAssumption DEF Trigger, AccountTypeOK
<1>4. ASSUME LateArrival
      PROVE  AccountTypeOK'
  <2>1. CASE \E r \in transit.orders :
               /\ transit' = [transit EXCEPT !.orders = @ \ {r}]
               /\ orders' = IF Working(r[1]) THEN orders ELSE Accepted(r[1], r[2])
               /\ UNCHANGED <<algos, seen, stream>>
    <3>1. PICK r \in transit.orders :
               /\ transit' = [transit EXCEPT !.orders = @ \ {r}]
               /\ orders' = IF Working(r[1]) THEN orders ELSE Accepted(r[1], r[2])
               /\ UNCHANGED <<algos, seen, stream>>
      BY <2>1
    <3>2. r[1] \in OrderIds /\ r[2] \in Nat
      BY DEF AccountTypeOK, Requests
    <3>3. orders' \in [OrderIds -> OrderRow]
      BY <3>1, <3>2, AcceptedType DEF AccountTypeOK
    <3>4. transit' \in Requests
      BY <3>1 DEF AccountTypeOK, Requests
    <3> QED
      BY <1>4, <3>1, <3>3, <3>4 DEF LateArrival, AccountTypeOK
  <2>2. CASE \E a \in transit.algos :
               /\ transit' = [transit EXCEPT !.algos = @ \ {a}]
               /\ AcceptStop(a)
               /\ UNCHANGED orders
    <3>1. PICK a \in transit.algos :
               /\ transit' = [transit EXCEPT !.algos = @ \ {a}]
               /\ AcceptStop(a)
               /\ UNCHANGED orders
      BY <2>2
    <3>2. a \in AlgoIds
      BY DEF AccountTypeOK, Requests
    <3>3. transit' \in Requests
      BY <3>1 DEF AccountTypeOK, Requests
    <3> QED
      BY <1>4, <3>1, <3>2, <3>3, AcceptStopType DEF LateArrival, AccountTypeOK
  <2> QED
    BY <1>4, <2>1, <2>2 DEF LateArrival, Arrive
<1> QED
  BY <1>1, <1>2, <1>3, <1>4 DEF AccountNext

-----------------------------------------------------------------------------
\* The ids of a trade's two signals are client order ids.
LEMMA IdTypes ==
    ASSUME NEW t \in Trades
    PROVE  Entry(t) \in OrderIds /\ SignalExit(t) \in OrderIds
BY DEF Entry, SignalExit, OrderIds, SignalIds

\* A fresh timed id is a client order id of its trade.
LEMMA FreshTypes ==
    ASSUME NEW t, NEW role, NEW o \in Fresh(t, role)
    PROVE  o \in OrderIds /\ o.trade = t /\ t \in Trades
BY DEF Fresh, OrderIds, TimedIds

\* Every client order id names a trade and through it a symbol.
LEMMA TradeOfOrder ==
    ASSUME NEW o \in OrderIds
    PROVE  o.trade \in Trades /\ SymbolOfId(o) \in Symbols
BY AccountAssumption DEF OrderIds, SignalIds, TimedIds, SymbolOfId

\* The positions an event is booked on are trades.
LEMMA PositionForTypes ==
    ASSUME NEW t
    PROVE  PositionFor(t) \subseteq Trades
BY DEF PositionFor, Held, HeldAt

\* While the loop polls, the cursor points at a signal and may advance.
LEMMA SignalTypes ==
    ASSUME TypeOK, Polling
    PROVE  /\ cursor \in 1..Len(Signals) /\ cursor + 1 \in 1..(Len(Signals) + 1)
           /\ NextSignal.trade \in Trades
<1>1. Len(Signals) \in Nat /\ cursor \in 1..Len(Signals)
  BY SignalAssumption, LenProperties DEF Polling
<1>2. Signals[cursor] \in [trade : Trades, action : {"open", "close"}]
  BY <1>1, SignalAssumption, ElementOfSeq
<1> QED
  BY <1>1, <1>2 DEF NextSignal

\* Every way a handler writes an order row leaves the book well-formed.
LEMMA BookTypes ==
    ASSUME LedgerTypeOK, NEW o
    PROVE  /\ \A q \in Nat : NewOrder(o, q) \in [OrderIds -> BookRow]
           /\ \A st \in BookStatus : Marked(o, st) \in [OrderIds -> BookRow]
           /\ AccountTypeOK => Heard(o) \in [OrderIds -> BookRow]
           /\ \A d \in Nat : Applied(o, d) \in [OrderIds -> BookRow]
<1>1. \A q \in Nat : NewOrder(o, q) \in [OrderIds -> BookRow]
  BY DEF LedgerTypeOK, NewOrder, NoEntry, BookRow, BookStatus
<1>2. \A st \in BookStatus : Marked(o, st) \in [OrderIds -> BookRow]
  BY DEF LedgerTypeOK, Marked, BookRow
<1>3. AccountTypeOK => Heard(o) \in [OrderIds -> BookRow]
  BY DEF LedgerTypeOK, AccountTypeOK, Heard, BookRow, OrderRow, BookStatus, OrderStatus
<1>4. \A d \in Nat : Applied(o, d) \in [OrderIds -> BookRow]
  <2> SUFFICES ASSUME NEW d \in Nat, NEW x \in OrderIds
               PROVE  [book EXCEPT ![o].applied = @ + d][x] \in BookRow
    BY DEF LedgerTypeOK, Applied
  <2>1. book[x] \in BookRow
    BY DEF LedgerTypeOK
  <2>2. [book[x] EXCEPT !.applied = @ + d] \in BookRow
    BY <2>1 DEF BookRow
  <2> QED
    BY <2>1, <2>2 DEF LedgerTypeOK
<1> QED
  BY <1>1, <1>2, <1>3, <1>4

\* One element makes a sequence.
LEMMA OneStep ==
    ASSUME NEW S, NEW x \in S
    PROVE  <<x>> \in Seq(S)
OBVIOUS

\* Two elements make a sequence.
LEMMA TwoSteps ==
    ASSUME NEW S, NEW x \in S, NEW y \in S
    PROVE  <<x, y>> \in Seq(S)
OBVIOUS

\* The empty agenda is an agenda.
LEMMA NoSteps ==
    ASSUME NEW S
    PROVE  <<>> \in Seq(S)
OBVIOUS

\* _close_short keeps every type.
LEMMA BeginExitType ==
    ASSUME TypeOK, NEW o \in OrderIds, NEW p \in Trades, BeginExit(o, p),
           owner' \in {"signal", "guard"},
           owner' = "signal" => cursor \in 1..Len(Signals)
    PROVE  TypeOK'
<1>1. pos[p].qty \in Nat
  BY DEF TypeOK, LedgerTypeOK, PositionRow
<1>2. AccountTypeOK'
  BY AccountKept DEF BeginExit, TypeOK
<1>3. pos' \in [Trades -> PositionRow]
  BY DEF BeginExit, TypeOK, LedgerTypeOK, PositionRow
<1>4. book' \in [OrderIds -> BookRow]
  BY <1>1, BookTypes DEF BeginExit, TypeOK
<1>5. LedgerTypeOK'
  BY <1>3, <1>4 DEF BeginExit, TypeOK, LedgerTypeOK
<1>6. agenda' \in Seq(StepsOf(owner'))
  BY OneStep, StepOfOrder DEF BeginExit, Return, PlacementOps, SnapshotOps, AlgoOps
<1>7. TaskTypeOK'
  BY <1>6 DEF BeginExit, TypeOK, TaskTypeOK, Owners
<1> QED
  BY <1>2, <1>5, <1>7 DEF TypeOK

\* Every step of the signal loop and the protection sync keeps every type.
LEMMA SignalStepType ==
    ASSUME TypeOK, SignalStep
    PROVE  TypeOK'
<1>1. ASSUME DeclineEntry PROVE TypeOK'
  <2>1. AccountTypeOK'
    BY <1>1, AccountKept DEF DeclineEntry, TypeOK
  <2>2. cursor' \in 1..(Len(Signals) + 1) /\ intents' \subseteq OrderIds
    BY <1>1, SignalTypes, IdTypes DEF DeclineEntry, TypeOK, LedgerTypeOK
  <2>3. LedgerTypeOK'
    BY <1>1, <2>2 DEF DeclineEntry, TypeOK, LedgerTypeOK
  <2>4. TaskTypeOK'
    BY <1>1 DEF DeclineEntry, Polling, TypeOK, TaskTypeOK, volatile
  <2> QED BY <2>1, <2>3, <2>4 DEF TypeOK
<1>2. ASSUME OpenShort PROVE TypeOK'
  <2> DEFINE t == NextSignal.trade
             o == Entry(t)
  <2>1. Polling /\ cursor \in 1..Len(Signals) /\ t \in Trades /\ o \in OrderIds
    BY <1>2, SignalTypes, IdTypes DEF OpenShort
  <2> HIDE DEF t, o
  <2>2. AccountTypeOK'
    BY <1>2, AccountKept DEF OpenShort, TypeOK
  <2>3. /\ intents' = intents \cup {o} /\ book' = NewOrder(o, Lot)
        /\ loaded' = loaded \cup {o} /\ owner' = "signal"
        /\ \/ agenda' = <<OrderStep("submit", o, t)>>
           \/ agenda' = <<OrderStep("configure", o, t), OrderStep("submit", o, t)>>
        /\ UNCHANGED <<account, pos, halts, cursor, configured, snap, up, crashes>>
    BY <1>2 DEF OpenShort, Take, Return, t, o
  <2>4. LedgerTypeOK'
    BY <2>1, <2>3, BookTypes, AccountAssumption DEF TypeOK, LedgerTypeOK
  <2>5. /\ OrderStep("submit", o, t) \in StepsOf("signal")
        /\ OrderStep("configure", o, t) \in StepsOf("signal")
    BY <2>1, StepOfOrder DEF PlacementOps, SnapshotOps, AlgoOps
  <2>6. agenda' \in Seq(StepsOf("signal"))
    BY <2>3, <2>5, OneStep, TwoSteps
  <2>7. TaskTypeOK'
    BY <2>1, <2>3, <2>6 DEF TypeOK, TaskTypeOK, Owners
  <2> QED BY <2>2, <2>4, <2>7 DEF TypeOK
<1>3. ASSUME Configure PROVE TypeOK'
  <2>1. agenda # <<>> /\ now.op = "configure"
    BY <1>3 DEF Configure, Due
  <2>2. now.trade \in Trades
    BY <2>1, NowType DEF StepsOf, PlacementOps
  <2>3. SymbolOf[now.trade] \in Symbols
    BY <2>2, AccountAssumption
  <2>4. AccountTypeOK'
    BY <1>3, AccountAssumption
    DEF Configure, Fault, keepMarket, keepStream, TypeOK, AccountTypeOK
  <2>5. book' \in [OrderIds -> BookRow]
    BY <1>3, BookTypes DEF Configure, TypeOK, LedgerTypeOK, BookStatus
  <2>6. LedgerTypeOK'
    BY <1>3, <2>5 DEF Configure, TypeOK, LedgerTypeOK, Reasons, Manual
  <2>7. agenda' \in Seq(StepsOf(owner))
    BY <1>3, <2>1, NoSteps, ThenType DEF Configure, Then, Return
  <2>8. TaskTypeOK'
    BY <1>3, <2>3, <2>7 DEF Configure, TypeOK, TaskTypeOK
  <2> QED BY <2>4, <2>6, <2>8 DEF TypeOK
<1>4. ASSUME CloseShort PROVE TypeOK'
  <2>1. cursor \in 1..Len(Signals) /\ NextSignal.trade \in Trades
    BY <1>4, SignalTypes DEF CloseShort
  <2>2. PICK p \in PositionFor(SignalExit(NextSignal.trade).trade) :
          BeginExit(SignalExit(NextSignal.trade), p) /\ owner' = "signal"
    BY <1>4 DEF CloseShort, Take
  <2> QED
    BY <2>1, <2>2, IdTypes, PositionForTypes, BeginExitType
<1>5. ASSUME CloseNothing PROVE TypeOK'
  <2>1. AccountTypeOK'
    BY <1>5, AccountKept DEF CloseNothing, TypeOK
  <2>2. cursor' \in 1..(Len(Signals) + 1) /\ intents' \subseteq OrderIds
    BY <1>5, SignalTypes, IdTypes DEF CloseNothing, TypeOK, LedgerTypeOK
  <2>3. LedgerTypeOK'
    BY <1>5, <2>2 DEF CloseNothing, TypeOK, LedgerTypeOK
  <2>4. TaskTypeOK'
    BY <1>5 DEF CloseNothing, Polling, TypeOK, TaskTypeOK, volatile
  <2> QED BY <2>1, <2>3, <2>4 DEF TypeOK
<1>6. ASSUME NEW p \in Trades, ProtectiveExit(p) PROVE TypeOK'
  BY <1>6, FreshTypes, BeginExitType DEF ProtectiveExit, Take
<1>7. ASSUME NEW p \in Trades, SyncTrail(p) PROVE TypeOK'
  <2>1. TradeStep("trail", p) \in StepsOf("guard")
    BY DEF TradeStep, Step, StepsOf, StepType, Ops, OrderOps, TradeOps, PlacementOps,
           AlgoOps, SnapshotOps
  <2>2. agenda' \in Seq(StepsOf("guard")) /\ owner' = "guard"
    BY <1>7, <2>1, OneStep DEF SyncTrail, Return, Take
  <2>3. TaskTypeOK'
    BY <1>7, <2>2 DEF SyncTrail, TypeOK, TaskTypeOK, Owners
  <2> QED
    BY <1>7, <2>3, AccountKept, LedgerKept DEF SyncTrail, TypeOK
<1>8. ASSUME Release PROVE TypeOK'
  <2>1. cursor' \in 1..(Len(Signals) + 1)
    BY <1>8, SignalAssumption, LenProperties DEF Release, TypeOK, LedgerTypeOK, TaskTypeOK
  <2>2. TaskTypeOK'
    BY <1>8, NoSteps DEF Release, TypeOK, TaskTypeOK, Owners
  <2> QED
    BY <1>8, <2>1, <2>2, AccountKept DEF Release, TypeOK, LedgerTypeOK
<1> QED
  BY <1>1, <1>2, <1>3, <1>4, <1>5, <1>6, <1>7, <1>8 DEF SignalStep

-----------------------------------------------------------------------------
\* A segment that leaves the locals of its task alone only has to give an agenda.
LEMMA HandlerTask ==
    ASSUME TypeOK, UNCHANGED keepTask, agenda' \in Seq(StepsOf(owner))
    PROVE  TaskTypeOK'
BY DEF TypeOK, TaskTypeOK, keepTask

\* A segment that leaves intents and cursor alone only has to give well-formed rows.
LEMMA HandlerLedger ==
    ASSUME TypeOK, UNCHANGED keepTask, book' \in [OrderIds -> BookRow],
           pos' \in [Trades -> PositionRow], halts' \subseteq Reasons
    PROVE  LedgerTypeOK'
BY DEF TypeOK, LedgerTypeOK, keepTask

\* An adverse outcome uses up one of the faults.
LEMMA FaultType ==
    ASSUME AccountTypeOK, Fault
    PROVE  faults' \in 0..MaxFaults
BY AccountAssumption DEF AccountTypeOK, Fault

\* A segment that at most uses up a fault keeps the account's type.
LEMMA OnlyFaults ==
    ASSUME AccountTypeOK, UNCHANGED <<keepMarket, keepStream>>, Fault \/ UNCHANGED faults
    PROVE  AccountTypeOK'
BY FaultType DEF AccountTypeOK, keepMarket, keepStream

\* A step that places an order has its order and its position at hand.
LEMMA PlacementNow ==
    ASSUME TypeOK, agenda # <<>>, now.op \in PlacementOps
    PROVE  /\ now.order \in OrderIds /\ now.trade \in Trades
           /\ \A op \in PlacementOps \cup {"entry_fill"} :
                [now EXCEPT !.op = op] \in StepsOf(owner)
BY NowType DEF StepsOf, StepType, Ops, OrderOps, TradeOps, PlacementOps, AlgoOps, SnapshotOps

\* A step about an order has it at hand.
LEMMA OrderNow ==
    ASSUME TypeOK, agenda # <<>>, now.op \in OrderOps
    PROVE  now.order \in OrderIds
BY NowType DEF StepsOf

\* A step about a position has it at hand.
LEMMA TradeNow ==
    ASSUME TypeOK, agenda # <<>>, now.op \in TradeOps
    PROVE  now.trade \in Trades
BY NowType DEF StepsOf

\* A step that applies a snapshot belongs to a task that took one.
LEMMA SnapshotNow ==
    ASSUME TypeOK, agenda # <<>>, now.op \in SnapshotOps
    PROVE  owner \in Reconcilers /\ taken \in Snapshot /\ IsFiniteSet(taken.algos)
BY NowType DEF StepsOf, taken, TypeOK, TaskTypeOK

\* _abort_unsettled_entry is an agenda.
LEMMA AbortType ==
    ASSUME NEW o \in OrderIds, NEW task
    PROVE  Abort(o) \in Seq(StepsOf(task))
BY TradeOfOrder, StepOfOrder, TwoSteps DEF Abort, OrderOps, PlacementOps, SnapshotOps, AlgoOps

\* An alarm and a raised exception are agendas.
LEMMA SimpleSteps ==
    ASSUME NEW task
    PROVE  <<Step("raise")>> \in Seq(StepsOf(task)) /\ <<Step("alarm")>> \in Seq(StepsOf(task))
<1>1. \A op \in {"raise", "alarm"} : Step(op) \in StepsOf(task)
  BY DEF Step, StepsOf, StepType, Ops, OrderOps, TradeOps, PlacementOps, AlgoOps, SnapshotOps
<1> QED BY <1>1, OneStep

\* Every way a handler writes a position's state or stops keeps its row well-formed.
LEMMA PosTypes ==
    ASSUME LedgerTypeOK, NEW p
    PROVE  /\ \A st \in {"open", "closing", "closed"} :
                [pos EXCEPT ![p].st = st] \in [Trades -> PositionRow]
           /\ \A a \in AlgoIds \cup {NoAlgo}, b \in BOOLEAN :
                [pos EXCEPT ![p].stop = a, ![p].prot = b] \in [Trades -> PositionRow]
           /\ \A a \in AlgoIds \cup {NoAlgo} :
                [pos EXCEPT ![p].trail = a] \in [Trades -> PositionRow]
           /\ [pos EXCEPT ![p].prot = TRUE] \in [Trades -> PositionRow]
<1> pos \in [Trades -> PositionRow]
  BY DEF LedgerTypeOK
<1>1. ASSUME NEW st \in {"open", "closing", "closed"}
      PROVE  [pos EXCEPT ![p].st = st] \in [Trades -> PositionRow]
  BY DEF PositionRow
<1>2. ASSUME NEW a \in AlgoIds \cup {NoAlgo}, NEW b \in BOOLEAN
      PROVE  [pos EXCEPT ![p].stop = a, ![p].prot = b] \in [Trades -> PositionRow]
  BY DEF PositionRow
<1>3. ASSUME NEW a \in AlgoIds \cup {NoAlgo}
      PROVE  [pos EXCEPT ![p].trail = a] \in [Trades -> PositionRow]
  BY DEF PositionRow
<1>4. [pos EXCEPT ![p].prot = TRUE] \in [Trades -> PositionRow]
  BY DEF PositionRow
<1> QED BY <1>1, <1>2, <1>3, <1>4

\* Every way a handler writes a position's quantity keeps its row well-formed.
LEMMA PosQuantity ==
    ASSUME LedgerTypeOK, NEW p, NEW q \in Nat, NEW st \in {"open", "closing", "closed"}
    PROVE  [pos EXCEPT ![p].qty = q, ![p].st = st] \in [Trades -> PositionRow]
BY DEF LedgerTypeOK, PositionRow

\* Every reason a handler adds is a halt reason.
LEMMA ReasonTypes ==
    /\ Manual \in Reasons /\ StreamFailed \in Reasons
    /\ \A x \in AlgoIds \cup OrderIds : CancelUnresolved(x) \in Reasons
    /\ \A s \in Symbols : /\ TrailUnresolved(s) \in Reasons
                          /\ QuantityMismatch(s) \in Reasons
                          /\ StopMismatch(s) \in Reasons
BY DEF Reasons, Manual, StreamFailed, CancelUnresolved, TrailUnresolved, QuantityMismatch,
       StopMismatch

\* A task with no snapshot has a well-formed one.
LEMMA IdleType ==
    Idle \in Snapshot /\ IsFiniteSet(Idle.algos)
BY FS_EmptySet DEF Idle, Snapshot

\* Placing an order and learning what became of it keeps every type.
LEMMA PlacementStepType ==
    ASSUME TypeOK, PlacementStep
    PROVE  TypeOK'
<1> AccountTypeOK /\ LedgerTypeOK /\ TaskTypeOK
  BY DEF TypeOK
<1>a. ASSUME NEW op, Due(op) PROVE agenda # <<>> /\ now.op = op
  BY <1>a DEF Due
<1>b. book \in [OrderIds -> BookRow] /\ pos \in [Trades -> PositionRow] /\ halts \subseteq Reasons
  BY DEF LedgerTypeOK
<1>1. ASSUME SubmitAccepted PROVE TypeOK'
  <2>1. Due("submit") /\ agenda # <<>> /\ now.op \in PlacementOps
    BY <1>1, <1>a DEF SubmitAccepted, PlacementOps
  <2>2. now.order \in OrderIds /\ [now EXCEPT !.op = "settle"] \in StepsOf(owner)
    BY <2>1, PlacementNow DEF PlacementOps
  <2>3. book[now.order].qty \in Nat
    BY <2>2, <1>b DEF BookRow
  <2>4. orders' \in [OrderIds -> OrderRow]
    BY <1>1, <2>2, <2>3, AcceptedType DEF SubmitAccepted
  <2>5. AccountTypeOK'
    BY <1>1, <2>4 DEF SubmitAccepted, AccountTypeOK, keepStream
  <2>6. book' \in [OrderIds -> BookRow]
    BY <1>1, BookTypes DEF SubmitAccepted, BookStatus
  <2>7. agenda' \in Seq(StepsOf(owner))
    BY <1>1, <2>1, <2>2, OneStep, ThenType DEF SubmitAccepted, Then
  <2> QED
    BY <1>1, <1>b, <2>5, <2>6, <2>7, HandlerTask, HandlerLedger DEF SubmitAccepted, TypeOK
<1>2. ASSUME SubmitRefused PROVE TypeOK'
  <2>1. agenda # <<>>
    BY <1>2, <1>a DEF SubmitRefused
  <2>2. AccountTypeOK'
    BY <1>2, OnlyFaults DEF SubmitRefused
  <2>3. book' \in [OrderIds -> BookRow] /\ pos' \in [Trades -> PositionRow]
    BY <1>2, <1>b, BookTypes, PosTypes DEF SubmitRefused, BookStatus
  <2>4. halts' \subseteq Reasons
    BY <1>2, <1>b, ReasonTypes DEF SubmitRefused
  <2>5. agenda' \in Seq(StepsOf(owner))
    BY <1>2, <2>1, NoSteps, ThenType DEF SubmitRefused, Then
  <2> QED
    BY <1>2, <2>2, <2>3, <2>4, <2>5, HandlerTask, HandlerLedger DEF SubmitRefused, TypeOK
<1>3. ASSUME SubmitTimedOut PROVE TypeOK'
  <2>1. Due("submit") /\ agenda # <<>> /\ now.op \in PlacementOps
    BY <1>3, <1>a DEF SubmitTimedOut, PlacementOps
  <2>2. now.order \in OrderIds /\ [now EXCEPT !.op = "resolve"] \in StepsOf(owner)
    BY <2>1, PlacementNow DEF PlacementOps
  <2>3. book[now.order].qty \in Nat
    BY <2>2, <1>b DEF BookRow
  <2>4. orders' \in [OrderIds -> OrderRow]
    BY <1>3, <2>2, <2>3, AcceptedType DEF SubmitTimedOut, AccountTypeOK
  <2>5. transit' \in Requests
    <3>1. \/ transit' = transit
          \/ transit' = [transit EXCEPT !.orders = @ \cup {<<now.order, book[now.order].qty>>}]
      BY <1>3 DEF SubmitTimedOut
    <3>2. transit \in Requests /\ <<now.order, book[now.order].qty>> \in OrderIds \X Nat
      BY <2>2, <2>3 DEF AccountTypeOK
    <3> QED BY <3>1, <3>2 DEF Requests
  <2>6. AccountTypeOK'
    BY <1>3, <2>4, <2>5, FaultType DEF SubmitTimedOut, AccountTypeOK, keepStream
  <2>7. book' \in [OrderIds -> BookRow]
    BY <1>3, <1>b, BookTypes DEF SubmitTimedOut, BookStatus
  <2>8. agenda' \in Seq(StepsOf(owner))
    BY <1>3, <2>1, <2>2, OneStep, NoSteps, ThenType DEF SubmitTimedOut, Then
  <2> QED
    BY <1>3, <1>b, <2>6, <2>7, <2>8, HandlerTask, HandlerLedger DEF SubmitTimedOut, TypeOK
<1>s. ASSUME agenda # <<>>, now.op = "settle"
      PROVE  Settled(now) \in Seq(StepsOf(owner))
  <2>1. /\ [now EXCEPT !.op = "entry_fill"] \in StepsOf(owner)
        /\ [now EXCEPT !.op = "exit_fill"] \in StepsOf(owner)
    BY <1>s, PlacementNow DEF PlacementOps
  <2> QED
    BY <2>1, OneStep, NoSteps DEF Settled
<1>4. ASSUME SettleKnown PROVE TypeOK'
  <2>1. agenda # <<>> /\ now.op = "settle"
    BY <1>4, <1>a DEF SettleKnown
  <2>2. book' \in [OrderIds -> BookRow]
    BY <1>4, BookTypes DEF SettleKnown
  <2>3. agenda' \in Seq(StepsOf(owner))
    BY <1>4, <1>s, <2>1, ThenType DEF SettleKnown, Then
  <2> QED
    BY <1>4, <1>b, <2>2, <2>3, HandlerTask, HandlerLedger, AccountKept DEF SettleKnown, TypeOK
<1>5. ASSUME SettleTimedOut PROVE TypeOK'
  <2>1. agenda # <<>> /\ now.op = "settle" /\ now.op \in PlacementOps
    BY <1>5, <1>a DEF SettleTimedOut, PlacementOps
  <2>2. now.order \in OrderIds
    BY <2>1, PlacementNow
  <2>3. AccountTypeOK'
    BY <1>5, OnlyFaults DEF SettleTimedOut
  <2>4. book' \in [OrderIds -> BookRow]
    BY <1>5, <1>b, BookTypes DEF SettleTimedOut
  <2>5. pos' \in [Trades -> PositionRow] /\ halts' \subseteq Reasons
    <3>1. \/ pos' = pos
          \/ pos' = [pos EXCEPT ![now.trade].st = "open"]
      BY <1>5 DEF SettleTimedOut
    <3>2. halts' = halts \/ halts' = halts \cup {Manual}
      BY <1>5 DEF SettleTimedOut
    <3>3. pos' \in [Trades -> PositionRow]
      <4>1. [pos EXCEPT ![now.trade].st = "open"] \in [Trades -> PositionRow]
        BY PosTypes
      <4> QED BY <1>b, <3>1, <4>1
    <3>4. halts' \subseteq Reasons
      BY <1>b, <3>2, ReasonTypes
    <3> QED BY <3>3, <3>4
  <2>6. agenda' \in Seq(StepsOf(owner))
    BY <1>5, <1>s, <2>1, <2>2, AbortType, NoSteps, ThenType DEF SettleTimedOut, Then, Return
  <2> QED
    BY <1>5, <2>3, <2>4, <2>5, <2>6, HandlerTask, HandlerLedger DEF SettleTimedOut, TypeOK
<1>6. ASSUME ResolveFound PROVE TypeOK'
  <2>1. agenda # <<>> /\ now.op \in PlacementOps
    BY <1>6, <1>a DEF ResolveFound, PlacementOps
  <2>2. \A op \in {"settle", "pending_check", "exit_fill", "exit_check"} :
          [now EXCEPT !.op = op] \in StepsOf(owner)
    BY <2>1, PlacementNow DEF PlacementOps
  <2>3. book' \in [OrderIds -> BookRow]
    BY <1>6, BookTypes DEF ResolveFound
  <2>4. agenda' \in Seq(StepsOf(owner))
    BY <1>6, <2>1, <2>2, TwoSteps, ThenType DEF ResolveFound, Then
  <2> QED
    BY <1>6, <1>b, <2>3, <2>4, HandlerTask, HandlerLedger, AccountKept DEF ResolveFound, TypeOK
<1>7. ASSUME ResolveFailed PROVE TypeOK'
  <2>1. agenda # <<>> /\ now.op \in PlacementOps
    BY <1>7, <1>a DEF ResolveFailed, PlacementOps
  <2>2. now.order \in OrderIds
    BY <2>1, PlacementNow
  <2>3. AccountTypeOK'
    BY <1>7, OnlyFaults DEF ResolveFailed
  <2>4. halts' \subseteq Reasons
    BY <1>7, <1>b, ReasonTypes DEF ResolveFailed
  <2>5. agenda' \in Seq(StepsOf(owner))
    BY <1>7, <2>1, <2>2, AbortType, NoSteps, ThenType DEF ResolveFailed, Then, Return
  <2> QED
    BY <1>7, <1>b, <2>3, <2>4, <2>5, HandlerTask, HandlerLedger DEF ResolveFailed, TypeOK
<1>8. ASSUME PendingCheck PROVE TypeOK'
  <2>1. halts' \subseteq Reasons
    BY <1>8, <1>b, ReasonTypes DEF PendingCheck
  <2>2. agenda' \in Seq(StepsOf(owner))
    BY <1>8, <1>a, NoSteps, ThenType DEF PendingCheck, Then
  <2> QED
    BY <1>8, <1>b, <2>1, <2>2, HandlerTask, HandlerLedger, AccountKept DEF PendingCheck, TypeOK
<1>9. ASSUME ExitCheck PROVE TypeOK'
  <2>1. halts' \subseteq Reasons /\ pos' \in [Trades -> PositionRow]
    BY <1>9, <1>b, PosTypes, ReasonTypes DEF ExitCheck
  <2>2. agenda' \in Seq(StepsOf(owner))
    BY <1>9, <1>a, NoSteps, ThenType DEF ExitCheck, Then
  <2> QED
    BY <1>9, <1>b, <2>1, <2>2, HandlerTask, HandlerLedger, AccountKept DEF ExitCheck, TypeOK
<1>10. ASSUME AbortCancel PROVE TypeOK'
  <2>1. agenda # <<>> /\ now.op \in OrderOps
    BY <1>10, <1>a DEF AbortCancel, OrderOps
  <2>2. now.order \in OrderIds
    BY <2>1, OrderNow
  <2>3. /\ orders' \in [OrderIds -> OrderRow] /\ stream' \in Seq(Events)
        /\ faults' \in 0..MaxFaults
    BY <1>10, <2>2, CancelWorkingType, FaultType DEF AbortCancel, AccountTypeOK, account
  <2>4. AccountTypeOK'
    BY <1>10, <2>3 DEF AbortCancel, AccountTypeOK, account
  <2>5. \/ book' = book \/ book' = Heard(now.order)
        \/ book' = [book EXCEPT ![now.order].st = "dead",
                                ![now.order].filled = orders[now.order].filled]
    BY <1>10 DEF AbortCancel
  <2>6. orders[now.order].filled \in Nat
    BY <2>2 DEF AccountTypeOK, OrderRow
  <2>7. book' \in [OrderIds -> BookRow]
    BY <1>b, <2>5, <2>6, BookTypes DEF BookRow, BookStatus
  <2>8. agenda' \in Seq(StepsOf(owner))
    BY <1>10, <2>1, NoSteps, ThenType DEF AbortCancel, Then
  <2> QED
    BY <1>10, <1>b, <2>4, <2>7, <2>8, HandlerTask, HandlerLedger DEF AbortCancel, TypeOK
<1>11. ASSUME AbortQuery PROVE TypeOK'
  <2> DEFINE o == now.order
             q == short[SymbolOfId(o)]
  <2>1. agenda # <<>> /\ now.op \in OrderOps
    BY <1>11, <1>a DEF AbortQuery, OrderOps
  <2>2. o \in OrderIds /\ o.trade \in Trades /\ q \in Nat
    BY <2>1, OrderNow, TradeOfOrder DEF AccountTypeOK
  <2>3. AccountTypeOK'
    BY <1>11, OnlyFaults DEF AbortQuery
  <2>4. CASE UNCHANGED <<book, loaded>> /\ agenda' = <<>> \o Tail(agenda)
    <3>1. agenda' \in Seq(StepsOf(owner))
      BY <2>1, <2>4, NoSteps, ThenType
    <3>2. LedgerTypeOK'
      BY <1>11, <2>4 DEF AbortQuery, LedgerTypeOK
    <3>3. TaskTypeOK'
      BY <1>11, <2>4, <3>1 DEF AbortQuery, TaskTypeOK
    <3> QED BY <2>3, <3>2, <3>3 DEF TypeOK
  <2>5. ASSUME NEW u \in Fresh(o.trade, "uf"),
               book' = NewOrder(u, q), loaded' = loaded \cup {u},
               Then(<<OrderStep("submit", u, o.trade),
                      [OrderStep("flatten_check", o, o.trade) EXCEPT !.other = u]>>)
        PROVE  TypeOK'
    <3>1. u \in OrderIds
      BY FreshTypes
    <3>2. OrderStep("submit", u, o.trade) \in StepsOf(owner)
      BY <2>2, <3>1, StepOfOrder DEF PlacementOps, SnapshotOps, AlgoOps
    <3>3. OrderStep("flatten_check", o, o.trade) \in StepsOf(owner)
      BY <2>2, StepOfOrder DEF OrderOps, PlacementOps, SnapshotOps, AlgoOps
    <3>4. [OrderStep("flatten_check", o, o.trade) EXCEPT !.other = u] \in StepsOf(owner)
      BY <3>1, <3>3 DEF StepsOf, StepType
    <3>5. agenda' \in Seq(StepsOf(owner))
      BY <2>1, <2>5, <3>2, <3>4, TwoSteps, ThenType DEF Then
    <3>6. book' \in [OrderIds -> BookRow]
      BY <2>2, <2>5, BookTypes
    <3>7. LedgerTypeOK'
      BY <1>11, <3>6 DEF AbortQuery, LedgerTypeOK
    <3>8. TaskTypeOK'
      BY <1>11, <2>5, <3>1, <3>5 DEF AbortQuery, TaskTypeOK
    <3> QED BY <2>3, <3>7, <3>8 DEF TypeOK
  <2> QED
    BY <1>11, <2>4, <2>5 DEF AbortQuery, Then
<1>12. ASSUME FlattenCheck PROVE TypeOK'
  <2> DEFINE done(x) == [x EXCEPT !.st = "closed", !.applied = x.filled]
  <2>1. agenda # <<>>
    BY <1>12, <1>a DEF FlattenCheck
  <2>2. AccountTypeOK'
    BY <1>12, OnlyFaults DEF FlattenCheck
  <2>3. \A x \in BookRow : done(x) \in BookRow
    BY DEF BookRow, BookStatus
  <2>4. book' = book \/ book' = [book EXCEPT ![now.order] = done(@), ![now.other] = done(@)]
    BY <1>12 DEF FlattenCheck
  <2>5. book' \in [OrderIds -> BookRow]
    <3> HIDE DEF done
    <3> QED BY <1>b, <2>3, <2>4
  <2>6. agenda' \in Seq(StepsOf(owner))
    BY <1>12, <2>1, NoSteps, SimpleSteps, ThenType DEF FlattenCheck, Then, Return
  <2> QED
    BY <1>12, <1>b, <2>2, <2>5, <2>6, HandlerTask, HandlerLedger DEF FlattenCheck, TypeOK
<1>13. ASSUME Raise PROVE TypeOK'
  <2>1. agenda' = <<>> /\ UNCHANGED <<keepMarket, faults, book, pos, intents, cursor,
                                      loaded, configured, crashes>>
    BY <1>13 DEF Raise, Return
  <2>2. stream' \in Seq(Events) /\ link' \in {"lost", "proving", "live"}
    BY <1>13, NoSteps DEF Raise, StreamLost, keepStream, AccountTypeOK
  <2>3. AccountTypeOK'
    BY <2>1, <2>2 DEF AccountTypeOK, keepMarket
  <2>4. halts' \subseteq Reasons
    BY <1>13, <1>b, ReasonTypes DEF Raise, StreamLost
  <2>5. LedgerTypeOK'
    BY <2>1, <2>4 DEF LedgerTypeOK
  <2>6. owner' \in {owner, "none"} /\ up' \in {up, "down"}
    BY <1>13 DEF Raise
  <2>7. \/ snap' = snap
        \/ \E task \in Reconcilers : snap' = [snap EXCEPT ![task] = Idle]
    BY <1>13 DEF Raise, Reconcilers
  <2>8. TaskTypeOK'
    BY <2>1, <2>6, <2>7, NoSteps, IdleType DEF TaskTypeOK, Owners
  <2> QED BY <2>3, <2>5, <2>8 DEF TypeOK
<1> QED
  BY <1>1, <1>2, <1>3, <1>4, <1>5, <1>6, <1>7, <1>8, <1>9, <1>10, <1>11, <1>12, <1>13
  DEF PlacementStep

-----------------------------------------------------------------------------
\* Cancelling a sequence of stops is an agenda.
LEMMA CancelAlgosType ==
    ASSUME NEW as \in Seq(AlgoIds), NEW task
    PROVE  CancelAlgos(as) \in Seq(StepsOf(task))
<1> DEFINE step(a) == [Step("cancel_algo") EXCEPT !.algo = a]
<1>1. \A a \in AlgoIds : step(a) \in StepsOf(task)
  BY DEF Step, StepsOf, StepType, Ops, OrderOps, TradeOps, PlacementOps, AlgoOps, SnapshotOps
<1>2. Len(as) \in Nat /\ \A i \in 1..Len(as) : as[i] \in AlgoIds
  BY LenProperties, ElementOfSeq
<1> HIDE DEF step
<1>3. [i \in 1..Len(as) |-> step(as[i])] \in [1..Len(as) -> StepsOf(task)]
  BY <1>1, <1>2
<1>4. [i \in 1..Len(as) |-> step(as[i])] \in Seq(StepsOf(task))
  BY <1>2, <1>3, SeqDef
<1> QED
  BY <1>4 DEF CancelAlgos, step

\* _cancel_position_algos is an agenda.
LEMMA CancelPositionAlgosType ==
    ASSUME NEW p, NEW among \in SUBSET AlgoIds, NEW task
    PROVE  CancelPositionAlgos(p, among) \in Seq(StepsOf(task))
<1> DEFINE trail == IF pos[p].trail \in among THEN <<pos[p].trail>> ELSE <<>>
           stop  == IF pos[p].stop \in among THEN <<pos[p].stop>> ELSE <<>>
<1>1. trail \in Seq(AlgoIds) /\ stop \in Seq(AlgoIds)
  BY OneStep, NoSteps
<1>2. trail \o stop \in Seq(AlgoIds)
  BY <1>1, ConcatProperties
<1> QED
  BY <1>2, CancelAlgosType DEF CancelPositionAlgos

\* Placing the structure stop and the trailing stop anew are steps.
LEMMA ProtectType ==
    ASSUME NEW p \in Trades, NEW force \in BOOLEAN, NEW task
    PROVE  Protect(p, force) \in StepsOf(task) /\ Retrail(p) \in StepsOf(task)
BY StepOfTrade DEF Protect, Retrail, TradeOps, SnapshotOps

\* The placement that follows a protect step is a step.
LEMMA PlaceStepType ==
    ASSUME NEW task, NEW x \in StepsOf(task), x.op = "protect", NEW a \in AlgoIds,
           NEW b \in AlgoIds \cup {NoAlgo}, NEW kept \in BOOLEAN
    PROVE  [x EXCEPT !.op = "place_stop", !.algo = a, !.old = b, !.kept = kept]
             \in StepsOf(task)
<1> DEFINE y == [x EXCEPT !.op = "place_stop", !.algo = a, !.old = b, !.kept = kept]
<1>1. x \in StepType /\ x.trade \in Trades
  BY DEF StepsOf, TradeOps
<1>2. y \in StepType
  BY <1>1 DEF StepType, Ops, TradeOps
<1>3. y.op = "place_stop" /\ y.trade \in Trades /\ y.algo \in AlgoIds
  BY <1>1 DEF StepType
<1> QED
  BY <1>2, <1>3 DEF StepsOf, OrderOps, PlacementOps, SnapshotOps

\* The structure stop of a position is an algo id.
LEMMA StopForType ==
    ASSUME LedgerTypeOK, NEW p \in Trades
    PROVE  StopFor(p) \in AlgoIds
BY DEF LedgerTypeOK, PositionRow, StopFor, AlgoIds, StopIds

\* A new trailing stop is an algo id.
LEMMA NewTrailTypes ==
    ASSUME LedgerTypeOK, NEW p \in Trades, NEW a \in NewTrails(p)
    PROVE  a \in AlgoIds
<1>1. pos[p].qty \in Nat
  BY DEF LedgerTypeOK, PositionRow
<1>2. PICK i \in 1..MaxTrails : a = [trade |-> p, n |-> i, qty |-> pos[p].qty]
  BY DEF NewTrails
<1> QED
  BY <1>1, <1>2 DEF AlgoIds, TrailIds

\* A stop placed without a confirmation keeps the account's type.
LEMMA PlaceUnconfirmedType ==
    ASSUME AccountTypeOK, NEW a \in AlgoIds, PlaceUnconfirmed(a),
           UNCHANGED <<orders, short, triggers, link>>
    PROVE  AccountTypeOK'
<1>1. transit' \in Requests
  <2>1. transit' = transit \/ transit' = [transit EXCEPT !.algos = @ \cup {a}]
    BY DEF PlaceUnconfirmed
  <2> QED BY <2>1 DEF AccountTypeOK, Requests
<1>2. /\ algos' \subseteq AlgoIds /\ IsFiniteSet(algos') /\ seen' \subseteq AlgoIds
      /\ stream' \in Seq(Events)
  BY AcceptStopType DEF PlaceUnconfirmed, AccountTypeOK
<1>3. faults' \in 0..MaxFaults
  BY FaultType DEF PlaceUnconfirmed, AccountTypeOK
<1> QED
  BY <1>1, <1>2, <1>3 DEF AccountTypeOK

\* What is left to apply of an order is an integer.
LEMMA UnappliedType ==
    ASSUME LedgerTypeOK, NEW o \in OrderIds
    PROVE  Unapplied(o) \in Int
BY DEF LedgerTypeOK, BookRow, Unapplied

\* Booking fills, protecting and closing positions keeps every type.
LEMMA PositionStepType ==
    ASSUME TypeOK, PositionStep
    PROVE  TypeOK'
<1> AccountTypeOK /\ LedgerTypeOK /\ TaskTypeOK
  BY DEF TypeOK
<1>a. ASSUME NEW op, Due(op) PROVE agenda # <<>> /\ now.op = op
  BY <1>a DEF Due
<1>b. book \in [OrderIds -> BookRow] /\ pos \in [Trades -> PositionRow] /\ halts \subseteq Reasons
  BY DEF LedgerTypeOK
<1>1. ASSUME EntryFillApplied PROVE TypeOK'
  <2> DEFINE o == now.order
             t == o.trade
             n == Unapplied(o)
             grown == [pos[t] EXCEPT !.qty = @ + n]
             created == [NoPosition EXCEPT !.st = "open", !.qty = n]
  <2>1. agenda # <<>> /\ now.op \in OrderOps /\ n > 0
    BY <1>1, <1>a DEF EntryFillApplied, OrderOps
  <2>2. o \in OrderIds /\ t \in Trades /\ n \in Nat
    BY <2>1, OrderNow, TradeOfOrder, UnappliedType
  <2> HIDE DEF o, t, n
  <2>3. grown \in PositionRow /\ created \in PositionRow
    <3>1. pos[t] \in PositionRow /\ pos[t].qty + n \in Nat
      BY <2>2, <1>b DEF PositionRow
    <3>2. grown \in PositionRow
      BY <3>1 DEF PositionRow
    <3>3. created \in PositionRow
      BY <2>2 DEF PositionRow, NoPosition
    <3> QED BY <3>2, <3>3
  <2>4. pos' \in [Trades -> PositionRow]
    BY <1>1, <1>b, <2>3 DEF EntryFillApplied, o, t, n
  <2>5. book' \in [OrderIds -> BookRow]
    BY <1>1, <2>2, BookTypes DEF EntryFillApplied, o, n
  <2>6. /\ TradeStep("emergency", t) \in StepsOf(owner)
        /\ TradeStep("review", t) \in StepsOf(owner)
    BY <2>2 DEF TradeStep, Step, StepsOf, StepType, Ops, OrderOps, TradeOps, PlacementOps,
                AlgoOps, SnapshotOps
  <2>7. Protect(t, t \in Held /\ pos[t].prot) \in StepsOf(owner)
    BY <2>2, ProtectType
  <2>8. agenda' \in Seq(StepsOf(owner))
    BY <1>1, <2>1, <2>6, <2>7, OneStep, TwoSteps, ThenType DEF EntryFillApplied, Then, o, t
  <2> QED
    BY <1>1, <1>b, <2>4, <2>5, <2>8, HandlerTask, HandlerLedger, AccountKept
    DEF EntryFillApplied, TypeOK
<1>2. ASSUME EntryFillUnpriced PROVE TypeOK'
  <2>1. agenda # <<>> /\ now.op \in OrderOps
    BY <1>2, <1>a DEF EntryFillUnpriced, OrderOps
  <2>2. AccountTypeOK'
    BY <1>2, OnlyFaults DEF EntryFillUnpriced
  <2>3. halts' \subseteq Reasons
    BY <1>2, <1>b, ReasonTypes DEF EntryFillUnpriced
  <2>4. agenda' \in Seq(StepsOf(owner))
    BY <1>2, <2>1, OrderNow, AbortType, SimpleSteps, ConcatProperties
    DEF EntryFillUnpriced, Return
  <2> QED
    BY <1>2, <1>b, <2>2, <2>3, <2>4, HandlerTask, HandlerLedger DEF EntryFillUnpriced, TypeOK
<1>3. ASSUME EntryFillNothing PROVE TypeOK'
  <2>1. agenda' \in Seq(StepsOf(owner))
    BY <1>3, <1>a, NoSteps, ThenType DEF EntryFillNothing, Then
  <2> QED
    BY <1>3, <1>b, <2>1, HandlerTask, HandlerLedger, AccountKept DEF EntryFillNothing, TypeOK
<1>e. ASSUME agenda # <<>>, now.op \in TradeOps
      PROVE  <<TradeStep("emergency", now.trade)>> \in Seq(StepsOf(owner))
  <2>1. now.trade \in Trades
    BY <1>e, TradeNow
  <2>2. TradeStep("emergency", now.trade) \in StepsOf(owner)
    BY <2>1 DEF TradeStep, Step, StepsOf, StepType, Ops, OrderOps, TradeOps, PlacementOps,
                AlgoOps, SnapshotOps
  <2> QED BY <2>2, OneStep
<1>4. ASSUME Review PROVE TypeOK'
  <2>1. agenda # <<>> /\ now.op \in TradeOps
    BY <1>4, <1>a DEF Review, TradeOps
  <2>2. AccountTypeOK'
    BY <1>4, OnlyFaults DEF Review
  <2>3. agenda' \in Seq(StepsOf(owner))
    BY <1>4, <1>e, <2>1, NoSteps, ThenType DEF Review, Then
  <2> QED
    BY <1>4, <1>b, <2>2, <2>3, HandlerTask, HandlerLedger DEF Review, TypeOK
<1>5. ASSUME ProtectBegin PROVE TypeOK'
  <2> DEFINE p == now.trade
             place == [now EXCEPT !.op = "place_stop", !.algo = StopFor(p),
                                  !.old = pos[p].stop, !.kept = pos[p].prot]
  <2>1. agenda # <<>> /\ now.op \in TradeOps
    BY <1>5, <1>a DEF ProtectBegin, TradeOps
  <2>2. p \in Trades /\ StopFor(p) \in AlgoIds
    BY <2>1, TradeNow, StopForType
  <2>3. pos[p].stop \in AlgoIds \cup {NoAlgo} /\ pos[p].prot \in BOOLEAN
    BY <1>b, <2>2 DEF PositionRow
  <2>4. now \in StepsOf(owner)
    BY <2>1, NowType
  <2>5. place \in StepsOf(owner)
    BY <1>5, <1>a, <2>2, <2>3, <2>4, PlaceStepType DEF ProtectBegin
  <2>6. pos' \in [Trades -> PositionRow]
    <3>1. [pos EXCEPT ![p].stop = StopFor(p), ![p].prot = FALSE] \in [Trades -> PositionRow]
      BY <2>2, PosTypes
    <3> QED BY <1>5, <1>b, <3>1 DEF ProtectBegin
  <2>7. agenda' \in Seq(StepsOf(owner))
    BY <1>5, <2>1, <2>5, OneStep, NoSteps, ThenType DEF ProtectBegin, Then
  <2> QED
    BY <1>5, <1>b, <2>6, <2>7, HandlerTask, HandlerLedger, AccountKept DEF ProtectBegin, TypeOK
<1>6. ASSUME PlaceStopAccepted PROVE TypeOK'
  <2>1. agenda # <<>> /\ now.op \in AlgoOps
    BY <1>6, <1>a DEF PlaceStopAccepted, AlgoOps
  <2>2. now.algo \in AlgoIds /\ now.old \in AlgoIds \cup {NoAlgo}
    BY <2>1, NowType DEF StepsOf, StepType
  <2>3. AccountTypeOK'
    BY <1>6, <2>2, AcceptStopType DEF PlaceStopAccepted, AccountTypeOK
  <2>4. pos' \in [Trades -> PositionRow]
    BY <1>6, PosTypes DEF PlaceStopAccepted
  <2>5. Superseded(now.old, now.algo) => <<now.old>> \in Seq(AlgoIds)
    BY <2>2, OneStep DEF Superseded
  <2>6. agenda' \in Seq(StepsOf(owner))
    BY <1>6, <2>1, <2>5, CancelAlgosType, NoSteps, ThenType DEF PlaceStopAccepted, Then
  <2> QED
    BY <1>6, <1>b, <2>3, <2>4, <2>6, HandlerTask, HandlerLedger DEF PlaceStopAccepted, TypeOK
<1>7. ASSUME PlaceStopFailed PROVE TypeOK'
  <2>1. agenda # <<>> /\ now.op \in AlgoOps \cap TradeOps
    BY <1>7, <1>a DEF PlaceStopFailed, AlgoOps, TradeOps
  <2>2. now.algo \in AlgoIds /\ now.old \in AlgoIds \cup {NoAlgo}
    BY <2>1, NowType DEF StepsOf, StepType
  <2>3. AccountTypeOK'
    BY <1>7, <2>2, PlaceUnconfirmedType DEF PlaceStopFailed
  <2>4. pos' \in [Trades -> PositionRow]
    BY <1>7, <1>b, <2>2, PosTypes DEF PlaceStopFailed
  <2>5. agenda' \in Seq(StepsOf(owner))
    BY <1>7, <1>e, <2>1, NoSteps, ThenType DEF PlaceStopFailed, Then
  <2> QED
    BY <1>7, <1>b, <2>3, <2>4, <2>5, HandlerTask, HandlerLedger DEF PlaceStopFailed, TypeOK
<1>8. ASSUME CancelAlgo PROVE TypeOK'
  <2>1. agenda # <<>> /\ now.op \in AlgoOps
    BY <1>8, <1>a DEF CancelAlgo, AlgoOps
  <2>2. now.algo \in AlgoIds
    BY <2>1, NowType DEF StepsOf
  <2>3. /\ algos' \subseteq AlgoIds /\ IsFiniteSet(algos') /\ stream' \in Seq(Events)
        /\ faults' \in 0..MaxFaults
    BY <1>8, DropStopType, FaultType DEF CancelAlgo, AccountTypeOK
  <2>4. AccountTypeOK'
    BY <1>8, <2>3 DEF CancelAlgo, AccountTypeOK
  <2>5. halts' \subseteq Reasons
    BY <1>8, <1>b, <2>2, ReasonTypes DEF CancelAlgo
  <2>6. agenda' \in Seq(StepsOf(owner))
    BY <1>8, <2>1, NoSteps, ThenType DEF CancelAlgo, Then
  <2> QED
    BY <1>8, <1>b, <2>4, <2>5, <2>6, HandlerTask, HandlerLedger DEF CancelAlgo, TypeOK
<1>9. ASSUME Emergency PROVE TypeOK'
  <2>1. agenda # <<>> /\ now.op \in TradeOps
    BY <1>9, <1>a DEF Emergency, TradeOps
  <2>2. PICK o \in Fresh(now.trade, "em") :
          /\ book' = NewOrder(o, pos[now.trade].qty)
          /\ loaded' = loaded \cup {o}
          /\ Then(<<OrderStep("submit", o, now.trade), Step("alarm")>>)
    BY <1>9 DEF Emergency
  <2>3. o \in OrderIds /\ now.trade \in Trades
    BY FreshTypes
  <2>4. pos[now.trade].qty \in Nat
    BY <1>b, <2>3 DEF PositionRow
  <2>5. /\ OrderStep("submit", o, now.trade) \in StepsOf(owner)
        /\ Step("alarm") \in StepsOf(owner)
    <3>1. OrderStep("submit", o, now.trade) \in StepsOf(owner)
      BY <2>3, StepOfOrder DEF PlacementOps, SnapshotOps, AlgoOps
    <3>2. Step("alarm") \in StepsOf(owner)
      BY DEF Step, StepsOf, StepType, Ops, OrderOps, TradeOps, PlacementOps, AlgoOps, SnapshotOps
    <3> QED BY <3>1, <3>2
  <2>6. agenda' \in Seq(StepsOf(owner))
    BY <2>1, <2>2, <2>5, TwoSteps, ThenType DEF Then
  <2>7. LedgerTypeOK'
    BY <1>9, <2>2, <2>4, BookTypes DEF Emergency, LedgerTypeOK
  <2>8. TaskTypeOK'
    BY <1>9, <2>2, <2>3, <2>6 DEF Emergency, TaskTypeOK
  <2> QED
    BY <1>9, <2>7, <2>8, AccountKept DEF Emergency, TypeOK
<1>10. ASSUME Alarm PROVE TypeOK'
  <2>1. agenda' \in Seq(StepsOf(owner)) /\ halts' \subseteq Reasons
    BY <1>10, <1>a, <1>b, NoSteps, ThenType, ReasonTypes DEF Alarm, Then
  <2> QED
    BY <1>10, <1>b, <2>1, HandlerTask, HandlerLedger, AccountKept DEF Alarm, TypeOK
<1>11. ASSUME ExitFillApplied PROVE TypeOK'
  <2> DEFINE o == now.order
             p == now.trade
             d == ExitDelta(o, p)
             left == pos[p].qty - d
  <2>1. agenda # <<>> /\ now.op \in PlacementOps /\ d > 0
    BY <1>11, <1>a DEF ExitFillApplied, PlacementOps
  <2>2. o \in OrderIds /\ p \in Trades
    BY <2>1, PlacementNow
  <2>3. pos[p].qty \in Nat /\ Unapplied(o) \in Int
    BY <1>b, <2>2, UnappliedType DEF PositionRow
  <2>4. d \in Nat /\ left \in Nat
    BY <2>1, <2>3 DEF ExitDelta
  <2>5. book' \in [OrderIds -> BookRow]
    BY <1>11, <2>4, BookTypes DEF ExitFillApplied
  <2>6. pos' = [pos EXCEPT ![p].qty = left,
                           ![p].st = IF left > 0 THEN "open" ELSE "closed"]
    BY <1>11 DEF ExitFillApplied
  <2>7. pos' \in [Trades -> PositionRow]
    <3> DEFINE st == IF left > 0 THEN "open" ELSE "closed"
    <3>1. st \in {"open", "closing", "closed"}
      OBVIOUS
    <3> HIDE DEF left, p, st
    <3>2. [pos EXCEPT ![p].qty = left, ![p].st = st] \in [Trades -> PositionRow]
      BY <2>4, <3>1, PosQuantity
    <3> QED BY <2>6, <3>2 DEF st
  <2>8. <<Protect(p, TRUE), Retrail(p)>> \in Seq(StepsOf(owner))
    BY <2>2, ProtectType, TwoSteps
  <2>9. CancelPositionAlgos(p, AlgoIds) \in Seq(StepsOf(owner))
    BY CancelPositionAlgosType
  <2>10. agenda' \in Seq(StepsOf(owner))
    BY <1>11, <2>1, <2>8, <2>9, ThenType DEF ExitFillApplied, Then
  <2> QED
    BY <1>11, <1>b, <2>5, <2>7, <2>10, HandlerTask, HandlerLedger, AccountKept
    DEF ExitFillApplied, TypeOK
<1>12. ASSUME ExitFillUnpriced PROVE TypeOK'
  <2>1. AccountTypeOK'
    BY <1>12, OnlyFaults DEF ExitFillUnpriced
  <2>2. agenda' \in Seq(StepsOf(owner)) /\ halts' \subseteq Reasons
    BY <1>12, <1>a, <1>b, NoSteps, ThenType, ReasonTypes DEF ExitFillUnpriced, Then
  <2> QED
    BY <1>12, <1>b, <2>1, <2>2, HandlerTask, HandlerLedger DEF ExitFillUnpriced, TypeOK
<1>13. ASSUME ExitFillNothing PROVE TypeOK'
  <2>1. agenda' \in Seq(StepsOf(owner))
    BY <1>13, <1>a, NoSteps, ThenType DEF ExitFillNothing, Then
  <2> QED
    BY <1>13, <1>b, <2>1, HandlerTask, HandlerLedger, AccountKept DEF ExitFillNothing, TypeOK
<1>14. ASSUME TrailSkipped PROVE TypeOK'
  <2>1. agenda' \in Seq(StepsOf(owner))
    BY <1>14, <1>a, NoSteps, ThenType DEF TrailSkipped, Then
  <2> QED
    BY <1>14, <1>b, <2>1, HandlerTask, HandlerLedger, AccountKept DEF TrailSkipped, TypeOK
<1>t. ASSUME Due("trail")
      PROVE  /\ agenda # <<>> /\ now.trade \in Trades /\ SymbolOf[now.trade] \in Symbols
             /\ pos[now.trade].trail \in AlgoIds \cup {NoAlgo}
  <2>1. agenda # <<>> /\ now.trade \in Trades
    BY <1>t, <1>a, TradeNow DEF TradeOps
  <2> QED BY <1>b, <2>1, AccountAssumption DEF PositionRow
<1>15. ASSUME TrailPlaced PROVE TypeOK'
  <2>1. /\ agenda # <<>> /\ now.trade \in Trades
        /\ pos[now.trade].trail \in AlgoIds \cup {NoAlgo}
    BY <1>15, <1>t DEF TrailPlaced
  <2>2. PICK a \in NewTrails(now.trade) :
          /\ AcceptStop(a)
          /\ pos' = [pos EXCEPT ![now.trade].trail = a]
          /\ Then(IF Superseded(pos[now.trade].trail, a)
                  THEN CancelAlgos(<<pos[now.trade].trail>>) ELSE <<>>)
    BY <1>15 DEF TrailPlaced
  <2>3. a \in AlgoIds
    BY <2>1, NewTrailTypes
  <2>4. AccountTypeOK'
    BY <1>15, <2>2, <2>3, AcceptStopType DEF TrailPlaced, AccountTypeOK
  <2>5. pos' \in [Trades -> PositionRow]
    BY <2>2, <2>3, PosTypes
  <2>6. Superseded(pos[now.trade].trail, a) => <<pos[now.trade].trail>> \in Seq(AlgoIds)
    BY <2>1, OneStep DEF Superseded
  <2>7. agenda' \in Seq(StepsOf(owner))
    BY <2>1, <2>2, <2>6, CancelAlgosType, NoSteps, ThenType DEF Then
  <2> QED
    BY <1>15, <1>b, <2>4, <2>5, <2>7, HandlerTask, HandlerLedger DEF TrailPlaced, TypeOK
<1>16. ASSUME TrailFailed PROVE TypeOK'
  <2>1. agenda # <<>> /\ now.trade \in Trades /\ SymbolOf[now.trade] \in Symbols
    BY <1>16, <1>t DEF TrailFailed
  <2>2. PICK a \in NewTrails(now.trade) : PlaceUnconfirmed(a)
    BY <1>16 DEF TrailFailed
  <2>3. AccountTypeOK'
    BY <1>16, <2>1, <2>2, NewTrailTypes, PlaceUnconfirmedType DEF TrailFailed
  <2>4. halts' \subseteq Reasons
    BY <1>16, <1>b, <2>1, ReasonTypes DEF TrailFailed
  <2>5. agenda' \in Seq(StepsOf(owner))
    BY <1>16, <2>1, NoSteps, ThenType DEF TrailFailed, Then
  <2> QED
    BY <1>16, <1>b, <2>3, <2>4, <2>5, HandlerTask, HandlerLedger DEF TrailFailed, TypeOK
<1>17. ASSUME TrailDisarmed PROVE TypeOK'
  <2> DEFINE old == pos[now.trade].trail
  <2>1. agenda # <<>> /\ old \in AlgoIds \cup {NoAlgo}
    BY <1>17, <1>t DEF TrailDisarmed
  <2>2. /\ algos' \subseteq AlgoIds /\ IsFiniteSet(algos') /\ stream' \in Seq(Events)
        /\ faults' \in 0..MaxFaults
    BY <1>17, DropStopType, FaultType DEF TrailDisarmed, AccountTypeOK
  <2>3. AccountTypeOK'
    BY <1>17, <2>2 DEF TrailDisarmed, AccountTypeOK
  <2>4. pos' \in [Trades -> PositionRow]
    <3>1. [pos EXCEPT ![now.trade].trail = NoAlgo] \in [Trades -> PositionRow]
      BY PosTypes
    <3> QED BY <1>17, <1>b, <3>1 DEF TrailDisarmed
  <2>5. halts' \subseteq Reasons
    BY <1>17, <1>b, <2>1, ReasonTypes DEF TrailDisarmed
  <2>6. agenda' \in Seq(StepsOf(owner))
    BY <1>17, <2>1, NoSteps, ThenType DEF TrailDisarmed, Then
  <2> QED
    BY <1>17, <1>b, <2>3, <2>4, <2>5, <2>6, HandlerTask, HandlerLedger DEF TrailDisarmed, TypeOK
<1> QED
  BY <1>1, <1>2, <1>3, <1>4, <1>5, <1>6, <1>7, <1>8, <1>9, <1>10, <1>11, <1>12, <1>13,
     <1>14, <1>15, <1>16, <1>17 DEF PositionStep

-----------------------------------------------------------------------------
\* Every phase of a snapshot is well-formed.
LEMMA SnapTypes ==
    ASSUME TaskTypeOK, NEW task \in Reconcilers
    PROVE  /\ snap[task] \in Snapshot
           /\ \A ph \in {"idle", "wanted", "half", "ready", "applying"} :
                /\ [snap EXCEPT ![task].phase = ph] \in [Reconcilers -> Snapshot]
                /\ \A k \in Reconcilers :
                     [snap EXCEPT ![task].phase = ph][k].algos = snap[k].algos
           /\ [snap EXCEPT ![task] = Idle] \in [Reconcilers -> Snapshot]
           /\ \A k \in Reconcilers : IsFiniteSet([snap EXCEPT ![task] = Idle][k].algos)
<1>1. snap \in [Reconcilers -> Snapshot] /\ snap[task] \in Snapshot
  BY DEF TaskTypeOK
<1>2. ASSUME NEW ph \in {"idle", "wanted", "half", "ready", "applying"}
      PROVE  /\ [snap EXCEPT ![task].phase = ph] \in [Reconcilers -> Snapshot]
             /\ \A k \in Reconcilers :
                  [snap EXCEPT ![task].phase = ph][k].algos = snap[k].algos
  <2>1. /\ [snap[task] EXCEPT !.phase = ph] \in Snapshot
        /\ [snap[task] EXCEPT !.phase = ph].algos = snap[task].algos
    BY <1>1 DEF Snapshot
  <2> QED BY <1>1, <2>1
<1>3. /\ [snap EXCEPT ![task] = Idle] \in [Reconcilers -> Snapshot]
      /\ \A k \in Reconcilers : IsFiniteSet([snap EXCEPT ![task] = Idle][k].algos)
  BY <1>1, IdleType DEF TaskTypeOK
<1> QED
  BY <1>1, <1>2, <1>3

\* Losing the user stream keeps the types it touches.
LEMMA StreamLostType ==
    ASSUME LedgerTypeOK, StreamLost
    PROVE  /\ link' \in {"lost", "proving", "live"} /\ stream' \in Seq(Events)
           /\ halts' \subseteq Reasons
BY NoSteps, ReasonTypes DEF StreamLost, LedgerTypeOK

\* Handling an event, losing and reconnecting the stream keep every type.
LEMMA StreamStepType ==
    ASSUME TypeOK, StreamStep
    PROVE  TypeOK'
<1> AccountTypeOK /\ LedgerTypeOK /\ TaskTypeOK
  BY DEF TypeOK
<1>1. ASSUME HandleEvent PROVE TypeOK'
  <2> DEFINE e == Head(stream)
             o == e.order
  <2>1. stream # <<>> /\ stream \in Seq(Events)
    BY <1>1 DEF HandleEvent, AccountTypeOK
  <2>2. e \in Events /\ stream' \in Seq(Events)
    BY <1>1, <2>1, HeadTailProperties DEF HandleEvent
  <2>3. AccountTypeOK'
    BY <1>1, <2>2 DEF HandleEvent, AccountTypeOK, keepMarket
  <2>4. e.st \in BookStatus /\ e.filled \in Nat
    BY <2>2 DEF Events, OrderStatus, BookStatus
  <2>5. \/ book' = book
        \/ book' = [book EXCEPT ![o].st = e.st, ![o].filled = e.filled]
    BY <1>1 DEF HandleEvent
  <2>6. book' \in [OrderIds -> BookRow]
    <3>1. [book EXCEPT ![o].st = e.st, ![o].filled = e.filled] \in [OrderIds -> BookRow]
      <4> HIDE DEF e, o
      <4> QED BY <2>4 DEF LedgerTypeOK, BookRow
    <3> QED BY <2>5, <3>1 DEF LedgerTypeOK
  <2>7. LedgerTypeOK'
    BY <1>1, <2>6 DEF HandleEvent, LedgerTypeOK
  <2>8. /\ snap' \in [Reconcilers -> Snapshot]
        /\ \A task \in Reconcilers : IsFiniteSet(snap'[task].algos)
    <3>1. snap' = snap \/ snap' = [snap EXCEPT !["private"].phase = "wanted"]
      BY <1>1 DEF HandleEvent
    <3> QED BY <3>1, SnapTypes DEF TaskTypeOK, Reconcilers
  <2>9. agenda' \in Seq(StepsOf("private"))
    <3>1. CASE agenda' = <<>>
      BY <3>1, NoSteps
    <3>2. CASE o \in loaded /\ agenda' = <<OrderStep("entry_fill", o, o.trade)>>
      <4>1. o \in OrderIds
        BY <3>2 DEF TaskTypeOK
      <4> HIDE DEF o
      <4> QED BY <3>2, <4>1, TradeOfOrder, StepOfOrder, OneStep
              DEF OrderOps, PlacementOps, SnapshotOps, AlgoOps
    <3>3. CASE o \in loaded /\ \E p \in PositionFor(o.trade) :
                 agenda' = <<OrderStep("exit_fill", o, p)>>
      <4>1. o \in OrderIds
        BY <3>3 DEF TaskTypeOK
      <4> HIDE DEF o
      <4> QED BY <3>3, <4>1, PositionForTypes, StepOfOrder, OneStep
              DEF PlacementOps, SnapshotOps, AlgoOps
    <3> QED
      BY <1>1, <3>1, <3>2, <3>3 DEF HandleEvent, Return
  <2>10. TaskTypeOK'
    BY <1>1, <2>8, <2>9 DEF HandleEvent, Take, TaskTypeOK, Owners, Reconcilers
  <2> QED BY <2>3, <2>7, <2>10 DEF TypeOK
<1>2. ASSUME DropStream PROVE TypeOK'
  <2>1. AccountTypeOK'
    BY <1>2, StreamLostType, FaultType DEF DropStream, AccountTypeOK, keepMarket
  <2>2. LedgerTypeOK'
    BY <1>2, StreamLostType DEF DropStream, LedgerTypeOK
  <2>3. TaskTypeOK'
    BY <1>2, TaskKept DEF DropStream
  <2> QED BY <2>1, <2>2, <2>3 DEF TypeOK
<1>3. ASSUME Reconnect PROVE TypeOK'
  <2>1. PICK task \in {"private", "startup"} :
          /\ link' = "proving"
          /\ snap' = [snap EXCEPT ![task].phase = "wanted"]
          /\ UNCHANGED <<keepMarket, stream, faults, ledger, loaded, configured,
                         agenda, owner, up, crashes>>
    BY <1>3 DEF Reconnect
  <2>2. AccountTypeOK'
    BY <2>1 DEF AccountTypeOK, keepMarket
  <2>3. TaskTypeOK'
    BY <2>1, SnapTypes DEF TaskTypeOK, Reconcilers, ledger
  <2> QED BY <2>1, <2>2, <2>3, LedgerKept DEF TypeOK
<1> QED
  BY <1>1, <1>2, <1>3 DEF StreamStep

-----------------------------------------------------------------------------
\* A function applied to each element of a sequence gives a sequence.
LEMMA MappedSteps ==
    ASSUME NEW S, NEW T, NEW s \in Seq(S), NEW f \in [S -> T]
    PROVE  [i \in 1..Len(s) |-> f[s[i]]] \in Seq(T)
<1>1. Len(s) \in Nat /\ \A i \in 1..Len(s) : s[i] \in S
  BY LenProperties, ElementOfSeq
<1>2. [i \in 1..Len(s) |-> f[s[i]]] \in [1..Len(s) -> T]
  BY <1>1
<1> QED
  BY <1>1, <1>2, SeqDef

\* recover_inflight_orders is an agenda.
LEMMA RecoverStepsType ==
    ASSUME TaskTypeOK, NEW task
    PROVE  RecoverSteps \in Seq(StepsOf(task))
<1> DEFINE entries == {o \in loaded : IsEntry(o)}
           others == {o \in loaded : ~IsEntry(o)}
           inOrder == SetToSeq(entries) \o SetToSeq(others)
           step == [o \in OrderIds |-> OrderStep("recover", o, o.trade)]
<1>1. entries \subseteq OrderIds /\ others \subseteq OrderIds
  BY DEF TaskTypeOK
<1>2. IsFiniteSet(entries) /\ IsFiniteSet(others)
  BY <1>1, OrderIdsFinite, FS_Subset
<1> HIDE DEF entries, others
<1>3. SetToSeq(entries) \in Seq(OrderIds) /\ SetToSeq(others) \in Seq(OrderIds)
  BY <1>1, <1>2, SetToSeqType, SeqMonotonic
<1>4. inOrder \in Seq(OrderIds)
  BY <1>3, ConcatProperties
<1> HIDE DEF inOrder
<1>5. step \in [OrderIds -> StepsOf(task)]
  BY TradeOfOrder, StepOfOrder DEF OrderOps, PlacementOps, SnapshotOps, AlgoOps
<1>6. [i \in 1..Len(inOrder) |-> step[inOrder[i]]] \in Seq(StepsOf(task))
  BY <1>4, <1>5, MappedSteps
<1>7. \A i \in 1..Len(inOrder) :
        step[inOrder[i]] = OrderStep("recover", inOrder[i], inOrder[i].trade)
  BY <1>4, LenProperties, ElementOfSeq
<1>8. RecoverSteps = [i \in 1..Len(inOrder) |->
                        OrderStep("recover", inOrder[i], inOrder[i].trade)]
  BY DEF RecoverSteps, inOrder, entries, others
<1> QED
  BY <1>6, <1>7, <1>8

\* The steps of reconcile() are steps of a reconciling task.
LEMMA SnapshotStep ==
    ASSUME NEW task \in Reconcilers,
           NEW op \in {"reconcile", "positions", "strays", "clear", "iterate"},
           NEW known \in SUBSET (AlgoIds \cup {NoAlgo} \cup Trades)
    PROVE  Step(op) \in StepsOf(task) /\ [Step(op) EXCEPT !.known = known] \in StepsOf(task)
BY DEF Step, StepsOf, StepType, Ops, OrderOps, TradeOps, PlacementOps, AlgoOps, SnapshotOps

\* A task that only reads its snapshot keeps the tasks' type.
LEMMA SnapTask ==
    ASSUME TypeOK, snap' \in [Reconcilers -> Snapshot],
           \A task \in Reconcilers : IsFiniteSet(snap'[task].algos),
           UNCHANGED <<loaded, configured, agenda, owner, up, crashes, cursor>>
    PROVE  TaskTypeOK'
BY DEF TypeOK, TaskTypeOK

\* Reading a snapshot and starting to apply it keep every type.
LEMMA FetchType ==
    ASSUME TypeOK, NEW task \in Reconcilers,
           FetchPositions(task) \/ FetchOrders(task) \/ FetchFails(task)
           \/ BeginReconcile(task)
    PROVE  TypeOK'
<1> AccountTypeOK /\ LedgerTypeOK /\ TaskTypeOK
  BY DEF TypeOK
<1>1. snap \in [Reconcilers -> Snapshot] /\ \A k \in Reconcilers : IsFiniteSet(snap[k].algos)
  BY DEF TaskTypeOK
<1>2. ASSUME FetchPositions(task) PROVE TypeOK'
  <2> DEFINE new == [Idle EXCEPT !.phase = "half", !.short = short]
  <2>1. new \in Snapshot /\ IsFiniteSet(new.algos)
    BY FS_EmptySet DEF Idle, Snapshot, AccountTypeOK
  <2>2. snap' = [snap EXCEPT ![task] = new]
    BY <1>2 DEF FetchPositions
  <2> HIDE DEF new
  <2>3. /\ snap' \in [Reconcilers -> Snapshot]
        /\ \A k \in Reconcilers : IsFiniteSet(snap'[k].algos)
    BY <1>1, <2>1, <2>2
  <2> QED
    BY <1>2, <2>3, SnapTask, AccountKept, LedgerKept DEF FetchPositions, TypeOK, ledger
<1>3. ASSUME FetchOrders(task) PROVE TypeOK'
  <2> DEFINE new == [snap[task] EXCEPT !.phase = "ready", !.orders = LiveOrders, !.algos = algos]
  <2>1. LiveOrders \subseteq OrderIds
    BY DEF LiveOrders
  <2>2. new \in Snapshot /\ new.algos = algos
    BY <1>1, <2>1 DEF Snapshot, AccountTypeOK
  <2>3. snap' = [snap EXCEPT ![task] = new]
    BY <1>1, <1>3 DEF FetchOrders
  <2> HIDE DEF new
  <2>4. /\ snap' \in [Reconcilers -> Snapshot]
        /\ \A k \in Reconcilers : IsFiniteSet(snap'[k].algos)
    BY <1>1, <2>2, <2>3 DEF AccountTypeOK
  <2> QED
    BY <1>3, <2>4, SnapTask, AccountKept, LedgerKept DEF FetchOrders, TypeOK, ledger
<1>4. ASSUME FetchFails(task) PROVE TypeOK'
  <2>1. /\ link' \in {"lost", "proving", "live"} /\ stream' \in Seq(Events)
        /\ halts' \subseteq Reasons /\ up' \in {up, "down"}
    BY <1>4, StreamLostType, NoSteps DEF FetchFails, AccountTypeOK, LedgerTypeOK
  <2>2. AccountTypeOK'
    BY <1>4, <2>1, FaultType DEF FetchFails, AccountTypeOK, keepMarket
  <2>3. LedgerTypeOK'
    BY <1>4, <2>1 DEF FetchFails, LedgerTypeOK
  <2>4. TaskTypeOK'
    BY <1>4, <2>1, SnapTypes DEF FetchFails, TaskTypeOK
  <2> QED BY <2>2, <2>3, <2>4 DEF TypeOK
<1>5. ASSUME BeginReconcile(task) PROVE TypeOK'
  <2> DEFINE recover == IF up = "recovering" THEN RecoverSteps ELSE <<>>
  <2>1. /\ owner' = task /\ snap' = [snap EXCEPT ![task].phase = "applying"]
        /\ agenda' = recover \o <<Step("reconcile")>>
        /\ UNCHANGED <<account, ledger, loaded, configured, up, crashes>>
    BY <1>5 DEF BeginReconcile, Take, Return
  <2>2. recover \in Seq(StepsOf(task))
    BY RecoverStepsType, NoSteps
  <2>3. <<Step("reconcile")>> \in Seq(StepsOf(task))
    BY SnapshotStep, OneStep
  <2>4. agenda' \in Seq(StepsOf(task))
    BY <2>1, <2>2, <2>3, ConcatProperties
  <2>5. TaskTypeOK'
    BY <2>1, <2>4, SnapTypes DEF TaskTypeOK, Owners, Reconcilers, ledger
  <2> QED BY <2>1, <2>5, AccountKept, LedgerKept DEF TypeOK
<1> QED
  BY <1>2, <1>3, <1>4, <1>5

\* A function applied to each member of a finite set, in some order, gives a sequence.
LEMMA MappedSet ==
    ASSUME NEW R, NEW S, NEW T, R \subseteq S, IsFiniteSet(R), NEW f \in [S -> T]
    PROVE  [i \in 1..Len(SetToSeq(R)) |-> f[SetToSeq(R)[i]]] \in Seq(T)
<1>1. SetToSeq(R) \in Seq(S)
  BY SetToSeqType, SeqMonotonic
<1> QED
  BY <1>1, MappedSteps

\* A position's turn in reconcile() is a step of a reconciling task.
LEMMA SnapshotTradeStep ==
    ASSUME NEW task \in Reconcilers, NEW p \in Trades
    PROVE  TradeStep("flat", p) \in StepsOf(task) /\ TradeStep("position", p) \in StepsOf(task)
BY DEF TradeStep, Step, StepsOf, StepType, Ops, OrderOps, TradeOps, PlacementOps, AlgoOps,
       SnapshotOps

\* Cancelling an order nobody remembers is a step.
LEMMA OrphanOrderStep ==
    ASSUME NEW task, NEW o \in OrderIds
    PROVE  OrderStep("cancel_order", o, NoTrade) \in StepsOf(task)
BY DEF OrderStep, Step, StepsOf, StepType, Ops, OrderOps, TradeOps, PlacementOps, AlgoOps,
       SnapshotOps

\* The first segment of reconcile() keeps every type.
LEMMA ReconcileType ==
    ASSUME TypeOK, Reconcile
    PROVE  TypeOK'
<1> AccountTypeOK /\ LedgerTypeOK /\ TaskTypeOK
  BY DEF TypeOK
<1> DEFINE closed == {t \in Held : taken.short[SymbolOf[t]] = 0}
           unknown == taken.orders \ loaded
           gone == SetToSeq(closed)
           lost == SetToSeq(unknown)
           flat == [t \in Trades |-> TradeStep("flat", t)]
           cancel == [o \in OrderIds |-> OrderStep("cancel_order", o, NoTrade)]
           flats == [i \in 1..Len(gone) |-> TradeStep("flat", gone[i])]
           cancels == [i \in 1..Len(lost) |-> OrderStep("cancel_order", lost[i], NoTrade)]
<1>1. agenda # <<>> /\ now.op \in SnapshotOps
  BY DEF Reconcile, Due, SnapshotOps
<1>2. owner \in Reconcilers /\ taken \in Snapshot
  BY <1>1, SnapshotNow
<1>3. closed \subseteq Trades /\ IsFiniteSet(closed)
  BY FS_Subset, AccountAssumption DEF Held
<1>4. unknown \subseteq OrderIds /\ IsFiniteSet(unknown)
  BY <1>2, OrderIdsFinite, FS_Subset DEF Snapshot
<1>5. flats \in Seq(StepsOf(owner))
  <2> HIDE DEF closed
  <2>1. flat \in [Trades -> StepsOf(owner)]
    BY <1>2, SnapshotTradeStep
  <2>2. [i \in 1..Len(gone) |-> flat[gone[i]]] \in Seq(StepsOf(owner))
    BY <1>3, <2>1, MappedSet
  <2>3. \A i \in 1..Len(gone) : flat[gone[i]] = TradeStep("flat", gone[i])
    <3>1. gone \in Seq(closed)
      BY <1>3, SetToSeqType
    <3> QED BY <1>3, <3>1, ElementOfSeq
  <2> QED BY <2>2, <2>3
<1>6. cancels \in Seq(StepsOf(owner))
  <2> HIDE DEF unknown
  <2>1. cancel \in [OrderIds -> StepsOf(owner)]
    BY OrphanOrderStep
  <2>2. [i \in 1..Len(lost) |-> cancel[lost[i]]] \in Seq(StepsOf(owner))
    BY <1>4, <2>1, MappedSet
  <2>3. \A i \in 1..Len(lost) : cancel[lost[i]] = OrderStep("cancel_order", lost[i], NoTrade)
    <3>1. lost \in Seq(unknown)
      BY <1>4, SetToSeqType
    <3> QED BY <1>4, <3>1, ElementOfSeq
  <2> QED BY <2>2, <2>3
<1>7. <<Step("positions")>> \in Seq(StepsOf(owner))
  BY <1>2, SnapshotStep, OneStep
<1>8. agenda' = (flats \o cancels \o <<Step("positions")>>) \o Tail(agenda)
  BY DEF Reconcile, Then
<1>9. agenda' \in Seq(StepsOf(owner))
  <2> HIDE DEF flats, cancels
  <2> QED BY <1>1, <1>5, <1>6, <1>7, <1>8, ConcatProperties, ThenType
<1>10. halts' \subseteq Reasons
  BY ReasonTypes DEF Reconcile, LedgerTypeOK
<1>11. AccountTypeOK' /\ UNCHANGED <<book, pos, keepTask>>
  BY AccountKept DEF Reconcile
<1> QED
  BY <1>9, <1>10, <1>11, HandlerTask, HandlerLedger DEF TypeOK, LedgerTypeOK

\* Starting the loop over the positions keeps every type.
LEMMA ReconcilePositionsType ==
    ASSUME TypeOK, ReconcilePositions
    PROVE  TypeOK'
<1> AccountTypeOK /\ LedgerTypeOK /\ TaskTypeOK
  BY DEF TypeOK
<1> DEFINE ps == SetToSeq(Held)
           iterate == [Step("iterate") EXCEPT !.known = Held]
           turn(i) == IF i % 2 = 1 THEN TradeStep("position", ps[(i + 1) \div 2])
                      ELSE iterate
           turns == [i \in 1..(2 * Len(ps)) |-> turn(i)]
           strays == [Step("strays") EXCEPT !.known = AlgosInUse]
<1>1. agenda # <<>> /\ now.op \in SnapshotOps
  BY DEF ReconcilePositions, Due, SnapshotOps
<1>2. owner \in Reconcilers
  BY <1>1, SnapshotNow
<1>3. Held \subseteq Trades /\ AlgosInUse \subseteq AlgoIds \cup {NoAlgo}
  BY DEF Held, AlgosInUse, LedgerTypeOK, PositionRow
<1>4. ps \in Seq(Trades)
  <2>1. IsFiniteSet(Held)
    BY <1>3, FS_Subset, AccountAssumption
  <2> QED BY <1>3, <2>1, SetToSeqType, SeqMonotonic
<1>5. iterate \in StepsOf(owner) /\ <<strays>> \in Seq(StepsOf(owner))
  BY <1>2, <1>3, SnapshotStep, OneStep
<1>6. turns \in Seq(StepsOf(owner))
  <2> HIDE DEF ps, iterate
  <2>1. Len(ps) \in Nat /\ \A k \in 1..Len(ps) : ps[k] \in Trades
    BY <1>4, LenProperties, ElementOfSeq
  <2>2. ASSUME NEW i \in 1..(2 * Len(ps)) PROVE turn(i) \in StepsOf(owner)
    <3>1. i % 2 = 1 => (i + 1) \div 2 \in 1..Len(ps)
      BY <2>1
    <3> QED BY <1>2, <1>5, <2>1, <3>1, SnapshotTradeStep
  <2>3. 2 * Len(ps) \in Nat
    BY <2>1
  <2>4. turns \in [1..(2 * Len(ps)) -> StepsOf(owner)]
    BY <2>2
  <2> QED BY <2>3, <2>4, SeqDef
<1>7. agenda' = (turns \o <<strays>>) \o Tail(agenda)
  BY DEF ReconcilePositions, Then
<1>8. agenda' \in Seq(StepsOf(owner))
  <2> HIDE DEF turns, strays
  <2> QED BY <1>1, <1>5, <1>6, <1>7, ConcatProperties, ThenType
<1>9. AccountTypeOK' /\ UNCHANGED <<book, pos, halts, keepTask>>
  BY AccountKept DEF ReconcilePositions
<1> QED
  BY <1>8, <1>9, HandlerTask, HandlerLedger DEF TypeOK, LedgerTypeOK

\* Comparing a position with its exchange row keeps every type.
LEMMA ReconcilePositionType ==
    ASSUME TypeOK, ReconcilePosition
    PROVE  TypeOK'
<1> AccountTypeOK /\ LedgerTypeOK /\ TaskTypeOK
  BY DEF TypeOK
<1> DEFINE p == now.trade
           s == SymbolOf[p]
           q == taken.short[s]
           changed == q # pos[p].qty
           listed == pos[p].stop \in taken.algos
           resized == listed /\ pos[p].stop.qty # q
           replace == changed \/ resized
           st == IF pos[p].st = "closing" /\ ~PendingReduce(s) THEN "open" ELSE pos[p].st
           row == [pos[p] EXCEPT !.qty = q, !.st = st, !.prot = @ /\ listed /\ ~replace]
           protect == IF listed /\ ~replace THEN <<>> ELSE <<Protect(p, replace)>>
           retrail == IF changed /\ pos[p].trail # NoAlgo THEN <<Retrail(p)>> ELSE <<>>
<1>1. agenda # <<>> /\ now.op \in SnapshotOps \cap TradeOps
  BY DEF ReconcilePosition, Due, SnapshotOps, TradeOps
<1>2. p \in Trades /\ s \in Symbols /\ q \in Nat
  BY <1>1, SnapshotNow, TradeNow, AccountAssumption DEF Snapshot
<1>3. pos[p] \in PositionRow /\ st \in {"none", "open", "closing", "closed"}
  BY <1>2 DEF LedgerTypeOK, PositionRow
<1>4. (pos[p].prot /\ listed /\ ~replace) \in BOOLEAN /\ replace \in BOOLEAN
  BY <1>3 DEF PositionRow
<1>5. row \in PositionRow
  <2> HIDE DEF q, st, listed, replace
  <2> QED BY <1>2, <1>3, <1>4 DEF PositionRow
<1>6. pos' = [pos EXCEPT ![p] = row]
  BY <1>2, <1>3 DEF ReconcilePosition, LedgerTypeOK, PositionRow
<1>7. pos' \in [Trades -> PositionRow]
  <2> HIDE DEF row
  <2> QED BY <1>2, <1>5, <1>6 DEF LedgerTypeOK
<1>8. halts' \subseteq Reasons
  BY <1>2, ReasonTypes DEF ReconcilePosition, LedgerTypeOK
<1>9. protect \in Seq(StepsOf(owner)) /\ retrail \in Seq(StepsOf(owner))
  <2>1. Protect(p, replace) \in StepsOf(owner) /\ Retrail(p) \in StepsOf(owner)
    BY <1>2, <1>4, ProtectType
  <2> QED BY <2>1, OneStep, NoSteps
<1>10. agenda' = (protect \o retrail) \o Tail(agenda)
  BY DEF ReconcilePosition, Then
<1>11. agenda' \in Seq(StepsOf(owner))
  <2> HIDE DEF protect, retrail
  <2> QED BY <1>1, <1>9, <1>10, ConcatProperties, ThenType
<1>12. AccountTypeOK' /\ UNCHANGED <<book, keepTask>>
  BY AccountKept DEF ReconcilePosition
<1> QED
  BY <1>7, <1>8, <1>11, <1>12, HandlerTask, HandlerLedger DEF TypeOK, LedgerTypeOK

\* Every step of a reconcile keeps every type.
LEMMA ReconcileStepType ==
    ASSUME TypeOK, ReconcileStep
    PROVE  TypeOK'
<1> AccountTypeOK /\ LedgerTypeOK /\ TaskTypeOK
  BY DEF TypeOK
<1>a. ASSUME NEW op, Due(op) PROVE agenda # <<>> /\ now.op = op
  BY <1>a DEF Due
<1>b. book \in [OrderIds -> BookRow] /\ pos \in [Trades -> PositionRow] /\ halts \subseteq Reasons
  BY DEF LedgerTypeOK
<1>1. ASSUME Recover PROVE TypeOK'
  <2> DEFINE o == now.order
  <2>1. agenda # <<>> /\ now.op = "recover" /\ now.op \in OrderOps
    BY <1>1, <1>a DEF Recover, OrderOps
  <2>2. o \in OrderIds /\ now \in StepsOf(owner)
    BY <2>1, OrderNow, NowType
  <2>3. [now EXCEPT !.op = "entry_fill"] \in StepsOf(owner)
    BY <2>1, <2>2 DEF StepsOf, StepType, Ops, OrderOps, TradeOps, PlacementOps, AlgoOps,
                      SnapshotOps
  <2>4. \A p \in PositionFor(o.trade) : OrderStep("exit_fill", o, p) \in StepsOf(owner)
    BY <2>2, PositionForTypes, StepOfOrder DEF PlacementOps, SnapshotOps, AlgoOps
  <2>5. AccountTypeOK'
    BY <1>1, OnlyFaults DEF Recover
  <2>6. book' \in [OrderIds -> BookRow] /\ halts' \subseteq Reasons
    BY <1>1, <1>b, BookTypes, ReasonTypes DEF Recover
  <2>7. \/ Then(<<>>) \/ Then(<<[now EXCEPT !.op = "entry_fill"]>>)
        \/ \E p \in PositionFor(o.trade) : Then(<<OrderStep("exit_fill", o, p)>>)
    BY <1>1 DEF Recover
  <2>8. agenda' \in Seq(StepsOf(owner))
    <3> HIDE DEF o
    <3> QED BY <2>1, <2>3, <2>4, <2>7, OneStep, NoSteps, ThenType DEF Then
  <2> QED
    BY <1>1, <1>b, <2>5, <2>6, <2>8, HandlerTask, HandlerLedger DEF Recover, TypeOK
<1>2. ASSUME CloseFlat PROVE TypeOK'
  <2>1. agenda # <<>> /\ now.op \in SnapshotOps
    BY <1>2, <1>a DEF CloseFlat, SnapshotOps
  <2>2. taken.algos \in SUBSET AlgoIds
    BY <2>1, SnapshotNow DEF Snapshot
  <2>3. AccountTypeOK'
    BY <1>2, OnlyFaults DEF CloseFlat
  <2>4. pos' \in [Trades -> PositionRow] /\ halts' \subseteq Reasons
    BY <1>2, <1>b, PosTypes, ReasonTypes DEF CloseFlat
  <2>5. agenda' \in Seq(StepsOf(owner))
    BY <1>2, <2>1, <2>2, CancelPositionAlgosType, ThenType DEF CloseFlat, Then
  <2> QED
    BY <1>2, <1>b, <2>3, <2>4, <2>5, HandlerTask, HandlerLedger DEF CloseFlat, TypeOK
<1>3. ASSUME CancelOrphanOrder PROVE TypeOK'
  <2>1. agenda # <<>> /\ now.order \in OrderIds
    BY <1>3, <1>a, OrderNow DEF CancelOrphanOrder, OrderOps
  <2>2. /\ orders' \in [OrderIds -> OrderRow] /\ stream' \in Seq(Events)
        /\ faults' \in 0..MaxFaults
    BY <1>3, <2>1, CancelWorkingType, FaultType DEF CancelOrphanOrder, AccountTypeOK
  <2>3. AccountTypeOK'
    BY <1>3, <2>2 DEF CancelOrphanOrder, AccountTypeOK
  <2>4. halts' \subseteq Reasons
    BY <1>3, <1>b, <2>1, ReasonTypes DEF CancelOrphanOrder
  <2>5. agenda' \in Seq(StepsOf(owner))
    BY <1>3, <2>1, NoSteps, ThenType DEF CancelOrphanOrder, Then
  <2> QED
    BY <1>3, <1>b, <2>3, <2>4, <2>5, HandlerTask, HandlerLedger DEF CancelOrphanOrder, TypeOK
<1>4. ASSUME ReconcileIterate PROVE TypeOK'
  <2>1. agenda' \in Seq(StepsOf(owner))
    BY <1>4, <1>a, NoSteps, SimpleSteps, ThenType DEF ReconcileIterate, Then, Return
  <2> QED
    BY <1>4, <1>b, <2>1, HandlerTask, HandlerLedger, AccountKept DEF ReconcileIterate, TypeOK
<1>5. ASSUME ReconcileStrays PROVE TypeOK'
  <2> DEFINE strays == taken.algos \ (now.known \cup AlgosInUse)
  <2>1. agenda # <<>> /\ now.op \in SnapshotOps
    BY <1>5, <1>a DEF ReconcileStrays, SnapshotOps
  <2>2. strays \subseteq AlgoIds /\ IsFiniteSet(strays) /\ owner \in Reconcilers
    BY <2>1, SnapshotNow, FS_Subset DEF Snapshot
  <2>3. CancelAlgos(SetToSeq(strays)) \in Seq(StepsOf(owner))
    <3> HIDE DEF strays
    <3>1. SetToSeq(strays) \in Seq(AlgoIds)
      BY <2>2, SetToSeqType, SeqMonotonic
    <3> QED BY <3>1, CancelAlgosType
  <2>4. <<Step("clear")>> \in Seq(StepsOf(owner))
    BY <2>2, SnapshotStep, OneStep
  <2>5. agenda' = (CancelAlgos(SetToSeq(strays)) \o <<Step("clear")>>) \o Tail(agenda)
    BY <1>5 DEF ReconcileStrays, Then
  <2>6. agenda' \in Seq(StepsOf(owner))
    BY <2>1, <2>3, <2>4, <2>5, ConcatProperties, ThenType
  <2> QED
    BY <1>5, <1>b, <2>6, HandlerTask, HandlerLedger, AccountKept DEF ReconcileStrays, TypeOK
<1>6. ASSUME ReconcileDone PROVE TypeOK'
  <2>1. agenda # <<>> /\ now.op \in SnapshotOps
    BY <1>6, <1>a DEF ReconcileDone, SnapshotOps
  <2>2. owner \in Reconcilers
    BY <2>1, SnapshotNow
  <2>3. link' \in {"lost", "proving", "live"}
    BY <1>6 DEF ReconcileDone, AccountTypeOK
  <2>4. AccountTypeOK'
    BY <1>6, <2>3 DEF ReconcileDone, AccountTypeOK, keepMarket
  <2>5. LedgerTypeOK'
    BY <1>6, <1>b DEF ReconcileDone, LedgerTypeOK
  <2>6. up' \in {"down", "recovering", "supervising", "running"}
    BY <1>6 DEF ReconcileDone, TaskTypeOK
  <2>7. agenda' = <<>> /\ owner' = "none" /\ snap' = [snap EXCEPT ![owner] = Idle]
    BY <1>6 DEF ReconcileDone, Return
  <2>8. TaskTypeOK'
    <3>1. /\ snap' \in [Reconcilers -> Snapshot]
          /\ \A k \in Reconcilers : IsFiniteSet(snap'[k].algos)
      BY <2>2, <2>7, SnapTypes
    <3>2. agenda' \in Seq(StepsOf(owner'))
      BY <2>7, NoSteps
    <3> QED
      BY <1>6, <2>6, <2>7, <3>1, <3>2 DEF ReconcileDone, TaskTypeOK, Owners
  <2> QED BY <2>4, <2>5, <2>8 DEF TypeOK
<1> QED
  BY <1>1, <1>2, <1>3, <1>4, <1>5, <1>6, FetchType, ReconcileType, ReconcilePositionsType,
     ReconcilePositionType DEF ReconcileStep

-----------------------------------------------------------------------------
\* A crash keeps the types it touches.
LEMMA DieType ==
    ASSUME TaskTypeOK, Die, cursor' = cursor
    PROVE  TaskTypeOK' /\ link' \in {"lost", "proving", "live"} /\ stream' \in Seq(Events)
<1>1. snap' \in [Reconcilers -> Snapshot] /\ \A k \in Reconcilers : IsFiniteSet(snap'[k].algos)
  BY IdleType DEF Die
<1>2. crashes' \in 0..MaxCrashes
  BY SignalAssumption DEF Die, TaskTypeOK
<1> QED
  BY <1>1, <1>2, NoSteps DEF Die, TaskTypeOK, Owners

\* Crashing, wherever it strikes, and booting keep every type.
LEMMA CrashStepType ==
    ASSUME TypeOK, CrashStep
    PROVE  TypeOK'
<1> AccountTypeOK /\ LedgerTypeOK /\ TaskTypeOK
  BY DEF TypeOK
<1>1. ASSUME Crash PROVE TypeOK'
  <2>1. TaskTypeOK' /\ AccountTypeOK'
    BY <1>1, DieType DEF Crash, ledger, AccountTypeOK, keepMarket
  <2> QED BY <1>1, <2>1, LedgerKept DEF Crash, TypeOK
<1>2. ASSUME CrashAfterSend PROVE TypeOK'
  <2>1. /\ TaskTypeOK' /\ LedgerTypeOK' /\ stream' \in Seq(Events)
        /\ link' \in {"lost", "proving", "live"}
    BY <1>2, DieType, LedgerKept DEF CrashAfterSend, ledger
  <2>2. CASE Due("submit") /\ orders' = Accepted(now.order, book[now.order].qty)
             /\ UNCHANGED <<algos, seen>>
    <3>1. now.order \in OrderIds
      BY <2>2, PlacementNow DEF Due, PlacementOps
    <3>2. book[now.order].qty \in Nat
      BY <3>1 DEF LedgerTypeOK, BookRow
    <3>3. orders' \in [OrderIds -> OrderRow]
      BY <2>2, <3>1, <3>2, AcceptedType
    <3> QED
      BY <1>2, <2>1, <2>2, <3>3 DEF CrashAfterSend, AccountTypeOK, TypeOK
  <2>3. CASE Due("place_stop") /\ algos' = algos \cup {now.algo}
             /\ seen' = seen \cup {now.algo} /\ UNCHANGED orders
    <3>1. now.algo \in AlgoIds
      BY <2>3, NowType DEF Due, StepsOf, AlgoOps
    <3>2. algos' \subseteq AlgoIds /\ IsFiniteSet(algos') /\ seen' \subseteq AlgoIds
      BY <2>3, <3>1, FS_AddElement DEF AccountTypeOK
    <3> QED
      BY <1>2, <2>1, <2>3, <3>2 DEF CrashAfterSend, AccountTypeOK, TypeOK
  <2> QED
    BY <1>2, <2>2, <2>3 DEF CrashAfterSend
<1>3. ASSUME CrashBetweenCommits PROVE TypeOK'
  <2> DEFINE o == now.order
             d == IF Due("entry_fill") THEN Unapplied(o) ELSE ExitDelta(o, now.trade)
             id == IF NextSignal.action = "open" THEN Entry(NextSignal.trade)
                   ELSE SignalExit(NextSignal.trade)
  <2>1. TaskTypeOK' /\ AccountTypeOK'
    BY <1>3, DieType DEF CrashBetweenCommits, AccountTypeOK, keepMarket
  <2>2. CASE Polling /\ intents' = intents \cup {id} /\ UNCHANGED book
    <3>1. id \in OrderIds
      BY <2>2, SignalTypes, IdTypes
    <3> HIDE DEF id
    <3>2. LedgerTypeOK'
      BY <1>3, <2>2, <3>1 DEF CrashBetweenCommits, LedgerTypeOK
    <3> QED BY <2>1, <3>2 DEF TypeOK
  <2>3. CASE /\ Due("entry_fill") \/ Due("exit_fill")
             /\ d > 0 /\ book' = Applied(o, d) /\ UNCHANGED intents
    <3>1. \A x \in BookRow : x.applied \in Nat
      BY DEF BookRow
    <3>2. agenda # <<>> /\ o \in OrderIds
      BY <2>3, OrderNow, PlacementNow DEF Due, OrderOps, PlacementOps
    <3>3. Unapplied(o) \in Int
      BY <3>2, UnappliedType
    <3>4. Due("exit_fill") => now.trade \in Trades /\ pos[now.trade].qty \in Nat
      BY PlacementNow DEF Due, PlacementOps, LedgerTypeOK, PositionRow
    <3>5. d \in Int
      BY <2>3, <3>3, <3>4 DEF ExitDelta
    <3> HIDE DEF d
    <3>6. book' \in [OrderIds -> BookRow]
      BY <2>3, <3>5, BookTypes
    <3>7. LedgerTypeOK'
      BY <1>3, <2>3, <3>6 DEF CrashBetweenCommits, LedgerTypeOK
    <3> QED BY <2>1, <3>7 DEF TypeOK
  <2> QED
    BY <1>3, <2>2, <2>3 DEF CrashBetweenCommits
<1>4. ASSUME Boot PROVE TypeOK'
  <2>1. loaded' \subseteq OrderIds
    BY <1>4 DEF Boot
  <2>2. TaskTypeOK'
    BY <1>4, <2>1, SnapTypes DEF Boot, TaskTypeOK, Reconcilers, ledger
  <2> QED BY <1>4, <2>2, AccountKept, LedgerKept DEF Boot, TypeOK
<1> QED
  BY <1>1, <1>2, <1>3, <1>4 DEF CrashStep

\* Whatever the exchange does between two segments keeps every type.
LEMMA ExchangeStepType ==
    ASSUME TypeOK, ExchangeStep
    PROVE  TypeOK'
BY AccountNextType, LedgerKept, TaskKept DEF ExchangeStep, TypeOK, ledger

\* The program starts well-typed.
LEMMA InitType ==
    ASSUME Init
    PROVE  TypeOK
<1>1. AccountTypeOK
  BY FS_EmptySet, NoSteps, AccountAssumption
  DEF Init, AccountInit, AccountTypeOK, OrderRow, OrderStatus, NeverSent, Requests
<1>2. 1 \in 1..(Len(Signals) + 1)
  BY SignalAssumption, LenProperties
<1>3. LedgerTypeOK
  BY <1>2 DEF Init, LedgerTypeOK, BookRow, BookStatus, NoEntry, PositionRow, NoPosition
<1>4. TaskTypeOK
  BY NoSteps, IdleType, SignalAssumption DEF Init, TaskTypeOK, Owners
<1> QED
  BY <1>1, <1>3, <1>4 DEF TypeOK

(* In every execution, for any number of trades, symbols, signals, faults and
   crashes, every variable keeps its shape: rows, halts and snapshots are
   well-formed, every segment a handler has still to run finds its objects set,
   only a reconciling task applies a snapshot, and the signal loop's lock never
   outlives its signal. *)
THEOREM TypeCorrect == Spec => []TypeOK
<1>1. Init => TypeOK
  BY InitType
<1>2. TypeOK /\ [Next]_vars => TypeOK'
  <2> SUFFICES ASSUME TypeOK, [Next]_vars PROVE TypeOK'
    OBVIOUS
  <2>1. CASE UNCHANGED vars
    BY <2>1, AccountKept, LedgerKept, TaskKept DEF TypeOK, vars, ledger
  <2>2. CASE Next
    BY <2>2, ExchangeStepType, SignalStepType, PlacementStepType, PositionStepType,
       StreamStepType, ReconcileStepType, CrashStepType DEF Next
  <2> QED BY <2>1, <2>2
<1> QED
  BY <1>1, <1>2, PTL DEF Spec
=============================================================================
