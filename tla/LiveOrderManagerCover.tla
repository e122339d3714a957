------------------------ MODULE LiveOrderManagerCover ------------------------
(***************************************************************************)
(* New before old: as long as nothing has crashed or triggered and no halt *)
(* calls for an operator, no step takes the last stop of a position.       *)
(*                                                                         *)
(* A position marked as protected has a stop that works (Protected), and a *)
(* stop is cancelled only where every position of its symbol is protected  *)
(* by another one (Spared): cancels are run at once, in front of the rest  *)
(* of the agenda (CancelsFirst), so that nothing comes in between.         *)
(***************************************************************************)
EXTENDS LiveOrderManagerSettled

\* A cancel waits only behind other cancels.
CancelsFirst ==
    \A i \in 1..Len(agenda) :
      agenda[i].op = "cancel_algo" => \A j \in 1..i : agenda[j].op = "cancel_algo"

\* Stops and trailing stops are told apart by their numbers, and are the position's own.
OwnTrails ==
    \A t \in Trades :
      /\ pos[t].stop \in AlgoIds => pos[t].stop.n = 0
      /\ pos[t].trail \in AlgoIds => pos[t].trail.trade = t /\ pos[t].trail.n # 0

\* A position the exchange no longer has is the only one of its symbol.
FlatAlone ==
    \A x \in Todo : x.op = "flat" =>
      \A p \in Held : SymbolOf[p] = SymbolOf[x.trade] => p = x.trade

\* A placement under way: it is about a position that is held, its id is the
\* position's already, and it replaces a structure stop.
Placing ==
    agenda # <<>> =>
      /\ now.op \in {"protect", "place_stop"} => now.trade \in Held
      /\ now.op = "place_stop" =>
           /\ now.algo = pos[now.trade].stop
           /\ now.old \in AlgoIds => now.old.n = 0

\* A position marked as protected has a stop that works; the one a placement under
\* way may fall back on works too.
Protected == \A p \in Held : pos[p].prot => pos[p].stop \in algos
OldKept ==
    agenda # <<>> /\ now.op = "place_stop" /\ now.kept /\ now.old # NoAlgo => now.old \in algos

\* Every position of the symbol is protected by another stop.
Sheltered(a) ==
    \A p \in Held : SymbolOf[p] = SymbolOfId(a) => pos[p].prot /\ pos[p].stop # a
Spared == \A x \in Todo : x.op = "cancel_algo" => Sheltered(x.algo)

\* The inductive invariant: what protects a position is known as long as nothing
\* has disturbed the program.
CoverInv ==
    /\ CancelsFirst /\ OwnTrails /\ FlatAlone /\ Placing
    /\ Undisturbed => Protected /\ OldKept /\ Spared

-----------------------------------------------------------------------------
(***************************************************************************)
(* Segments that take no stop.                                             *)
(***************************************************************************)

\* No stop goes, unless something has disturbed the program.
Gentle == Undisturbed' => Undisturbed /\ algos \subseteq algos'

\* A position marked as protected was so before, by the same stop.
MarksKept ==
    \A p \in Held' : pos'[p].prot =>
      p \in Held /\ pos[p].prot /\ pos'[p].stop = pos[p].stop

\* A step that may follow without further ado.
Mild(x) ==
    /\ x.op \notin {"cancel_algo", "place_stop", "flat"}
    /\ x.op = "protect" => x.trade \in Held'

\* What a segment has to keep besides its agenda.
CoverKept ==
    /\ Undisturbed' => Protected'
    /\ OwnTrails' /\ (now.op \in FlatOps => Held' \subseteq Held)

\* The program is never less disturbed than it was.
LEMMA GentleSegment ==
    ASSUME UNCHANGED <<crashes, triggers>>, halts \subseteq halts', algos \subseteq algos'
    PROVE  Gentle
BY DEF Gentle, Undisturbed

\* Nothing happens to the positions.
LEMMA PosKept ==
    ASSUME CoverInv, UNCHANGED pos
    PROVE  MarksKept /\ OwnTrails' /\ Held' = Held
BY DEF CoverInv, OwnTrails, MarksKept, Held

\* Marks that are kept still tell of a stop that works.
LEMMA StillProtected ==
    ASSUME CoverInv, Gentle, MarksKept
    PROVE  Undisturbed' => Protected'
BY DEF CoverInv, Gentle, MarksKept, Protected

\* A segment that takes no stop and keeps the marks keeps the cover,
LEMMA MarksCover ==
    ASSUME CoverInv, Gentle, MarksKept, OwnTrails', Held' \subseteq Held \/ now.op \notin FlatOps
    PROVE  CoverKept
BY StillProtected DEF CoverKept

\* and so does one that leaves the positions alone.
LEMMA SameCover ==
    ASSUME CoverInv, Gentle, UNCHANGED pos
    PROVE  CoverKept
BY PosKept, MarksCover

\* The due step is one of those to do.
LEMMA FirstTodo ==
    ASSUME TypeOK'
    PROVE  agenda' # <<>> => now' \in Todo'
<1> SUFFICES ASSUME agenda' # <<>> PROVE now' \in Todo'
  OBVIOUS
<1>1. agenda' \in Seq(StepsOf(owner'))
  BY DEF TypeOK, TaskTypeOK
<1>2. 1 \in 1..Len(agenda') /\ now' = agenda'[1]
  BY <1>1, EmptySeq, LenProperties DEF now
<1> QED BY <1>2 DEF Todo, StepsIn

\* An agenda of mild steps has nothing to cancel and nothing to place.
LEMMA MildCover ==
    ASSUME CoverInv, TypeOK', Undisturbed' => Protected', OwnTrails', FlatAlone',
           \A x \in Todo' : /\ x.op \notin {"cancel_algo", "place_stop"}
                            /\ x.op = "protect" => x.trade \in Held'
    PROVE  CoverInv'
<1>1. \A i \in 1..Len(agenda') : agenda'[i].op # "cancel_algo"
  BY DEF Todo, StepsIn
<1>2. agenda' # <<>> => now' \in Todo'
  BY FirstTodo
<1>3. CancelsFirst'
  BY <1>1 DEF CancelsFirst
<1>4. Placing' /\ OldKept'
  BY <1>2 DEF Placing, OldKept
<1>5. Spared'
  BY DEF Spared
<1> QED BY <1>3, <1>4, <1>5 DEF CoverInv

\* The steps behind the due one: no cancel, unless the due one is one, and none
\* that has to be first.
LEMMA LaterMild ==
    ASSUME SettledInv, CoverInv, agenda # <<>>, NEW x \in Later
    PROVE  /\ now.op # "cancel_algo" => x.op # "cancel_algo"
           /\ x.op \notin {"protect", "place_stop"}
           /\ x.op = "flat" => now.op \in FlatOps
           /\ x \in Todo
<1>1. /\ Len(agenda) \in Nat \ {0} /\ now = agenda[1] /\ now \in Todo /\ Later \subseteq Todo
  BY AgendaParts DEF SettledInv
<1>2. PICK i \in 2..Len(agenda) : x = agenda[i]
  BY DEF Later
<1>3. i \in 1..Len(agenda) /\ i > 1 /\ 1 \in 1..i
  BY <1>1, <1>2
<1>4. now.op # "cancel_algo" => x.op # "cancel_algo"
  BY <1>1, <1>2, <1>3 DEF CoverInv, CancelsFirst
<1>5. StepPlaced(i)
  BY <1>3 DEF SettledInv, ShapeSound
<1>6. x.op \notin {"protect", "place_stop"}
  BY <1>2, <1>3, <1>5 DEF StepPlaced, FirstOps
<1>7. x.op = "flat" => now.op \in FlatOps
  BY <1>1, <1>2, <1>5 DEF StepPlaced, SettledInv, ShapeSound
<1> QED BY <1>1, <1>4, <1>6, <1>7

\* The only position of its symbol stays so.
LEMMA AloneKept ==
    ASSUME SettledInv, CoverInv, agenda # <<>>, now.op \in FlatOps => Held' \subseteq Held,
           NEW new, \A x \in new : x.op # "flat", Todo' \subseteq new \cup Later
    PROVE  FlatAlone'
<1>1. ASSUME NEW x \in Todo', x.op = "flat" PROVE x \in Todo /\ Held' \subseteq Held
  BY <1>1, LaterMild
<1> QED BY <1>1 DEF CoverInv, FlatAlone

\* A segment that puts mild steps in front, or leaves only those.
LEMMA SegmentCover ==
    ASSUME SettledInv, CoverInv, TypeOK', agenda # <<>>, CoverKept, now.op # "cancel_algo",
           NEW new, \A x \in new : Mild(x), Todo' \subseteq new \cup Later
    PROVE  CoverInv'
<1>1. \A x \in Todo' : /\ x.op \notin {"cancel_algo", "place_stop"}
                       /\ x.op = "protect" => x.trade \in Held'
  BY LaterMild DEF Mild
<1>2. FlatAlone'
  BY AloneKept DEF Mild, CoverKept
<1> QED BY <1>1, <1>2, MildCover DEF CoverKept

\* What is behind the due step, as a list.
LEMMA TailSteps ==
    ASSUME TypeOK, agenda # <<>>
    PROVE  /\ Tail(agenda) \in Seq(StepsOf(owner)) /\ StepsIn(Tail(agenda)) = Later
           /\ Len(Tail(agenda)) = Len(agenda) - 1 /\ Len(agenda) \in Nat \ {0}
           /\ \A i \in 1..Len(Tail(agenda)) : i + 1 \in 2..Len(agenda) /\ Tail(agenda)[i] = agenda[i + 1]
<1>1. agenda \in Seq(StepsOf(owner)) /\ Len(agenda) \in Nat \ {0}
  BY AgendaParts
<1>2. Tail(agenda) \in Seq(StepsOf(owner)) /\ Len(Tail(agenda)) = Len(agenda) - 1
      /\ \A i \in 1..Len(Tail(agenda)) : Tail(agenda)[i] = agenda[i + 1]
  BY <1>1, HeadTailProperties
<1>3. \A i \in 1..Len(Tail(agenda)) : i + 1 \in 2..Len(agenda)
  BY <1>1, <1>2
<1>4. ASSUME NEW i \in 2..Len(agenda) PROVE agenda[i] \in StepsIn(Tail(agenda))
  <2>1. i - 1 \in 1..Len(Tail(agenda)) /\ (i - 1) + 1 = i
    BY <1>1, <1>2
  <2> QED BY <1>2, <2>1 DEF StepsIn
<1>5. StepsIn(Tail(agenda)) = Later
  BY <1>2, <1>3, <1>4 DEF StepsIn, Later
<1> QED BY <1>1, <1>2, <1>3, <1>5

\* Lists of steps in front of others, whatever the steps are.
LEMMA JoinSteps ==
    ASSUME NEW S, NEW T, NEW steps \in Seq(S), NEW rest \in Seq(T)
    PROVE  /\ StepsIn(steps \o rest) = StepsIn(steps) \cup StepsIn(rest)
           /\ Len(steps) \in Nat /\ Len(rest) \in Nat
           /\ Len(steps \o rest) = Len(steps) + Len(rest)
           /\ \A i \in 1..Len(steps \o rest) :
                /\ i <= Len(steps) => i \in 1..Len(steps) /\ (steps \o rest)[i] = steps[i]
                /\ i > Len(steps) =>
                     /\ i - Len(steps) \in 1..Len(rest)
                     /\ (steps \o rest)[i] = rest[i - Len(steps)]
<1> DEFINE U == S \cup T
<1>1. steps \in Seq(U) /\ rest \in Seq(U)
  BY SeqMonotonic
<1> HIDE DEF U
<1>2. StepsIn(steps \o rest) = StepsIn(steps) \cup StepsIn(rest)
  BY <1>1, ConcatSteps
<1>3. /\ Len(steps) \in Nat /\ Len(rest) \in Nat
      /\ Len(steps \o rest) = Len(steps) + Len(rest)
      /\ \A i \in 1..Len(steps \o rest) :
           (steps \o rest)[i] = IF i <= Len(steps) THEN steps[i] ELSE rest[i - Len(steps)]
  BY <1>1, ConcatProperties, LenProperties
<1> QED BY <1>2, <1>3

\* Steps in front of those behind the due one.
LEMMA TodoThen ==
    ASSUME TypeOK, agenda # <<>>, NEW S, NEW steps \in Seq(S), agenda' = steps \o Tail(agenda)
    PROVE  Todo' = StepsIn(steps) \cup Later
<1>1. PICK rest \in Seq(StepsOf(owner)) : rest = Tail(agenda) /\ StepsIn(rest) = Later
  BY TailSteps
<1>2. StepsIn(steps \o rest) = StepsIn(steps) \cup StepsIn(rest)
  BY JoinSteps
<1> QED BY <1>1, <1>2 DEF Todo

\* One step in front.
LEMMA FrontStep ==
    ASSUME NEW x, NEW T, NEW rest \in Seq(T), agenda' = <<x>> \o rest
    PROVE  /\ agenda' # <<>> /\ now' = x /\ Todo' = {x} \cup StepsIn(rest)
           /\ \A i \in 1..Len(agenda') : agenda'[i] \in {x} \cup StepsIn(rest)
<1>1. /\ <<x>> \in Seq({x}) /\ Len(<<x>>) = 1 /\ <<x>>[1] = x
  OBVIOUS
<1>2. PICK s \in Seq({x}) : s = <<x>> /\ Len(s) = 1 /\ s[1] = x
  BY <1>1
<1>3. /\ StepsIn(s \o rest) = StepsIn(s) \cup StepsIn(rest)
      /\ Len(s \o rest) = Len(s) + Len(rest) /\ Len(rest) \in Nat
      /\ \A i \in 1..Len(s \o rest) : i <= Len(s) => (s \o rest)[i] = s[i]
  BY JoinSteps
<1>4. Todo' = {x} \cup StepsIn(rest)
  <2>1. StepsIn(s) = {x}
    BY <1>2, SingleStep
  <2> QED BY <1>2, <1>3, <2>1 DEF Todo
<1>5. Len(agenda') # 0 /\ agenda'[1] = x
  <2>1. 1 \in 1..Len(s \o rest) /\ 1 <= Len(s)
    BY <1>2, <1>3
  <2> QED BY <1>2, <1>3, <2>1
<1>6. agenda' # <<>> /\ now' = x
  BY <1>5 DEF now
<1> QED BY <1>4, <1>6 DEF Todo, StepsIn

\* Nothing more to do,
LEMMA CoverDone ==
    ASSUME SettledInv, CoverInv, TypeOK', agenda # <<>>, CoverKept, now.op # "cancel_algo",
           Then(<<>>) \/ Return(<<>>)
    PROVE  CoverInv'
<1>1. StepsIn(<<>>) = {}
  BY DEF StepsIn
<1>2. Todo' \subseteq {} \cup Later
  <2>1. CASE Then(<<>>)
    <3>1. <<>> \in Seq({}) /\ agenda' = <<>> \o Tail(agenda)
      BY <2>1 DEF Then
    <3> QED BY <1>1, <3>1, TodoThen DEF SettledInv
  <2>2. CASE Return(<<>>)
    BY <1>1, <2>2 DEF Return, Todo
  <2> QED BY <2>1, <2>2
<1>3. PICK new : new = {}
  OBVIOUS
<1>4. Todo' \subseteq new \cup Later /\ \A z \in new : Mild(z)
  BY <1>2, <1>3
<1> QED BY <1>4, SegmentCover

\* one more step,
LEMMA CoverOne ==
    ASSUME SettledInv, CoverInv, TypeOK', agenda # <<>>, CoverKept, now.op # "cancel_algo",
           NEW x, Mild(x), Then(<<x>>) \/ Return(<<x>>)
    PROVE  CoverInv'
<1>1. StepsIn(<<x>>) = {x}
  BY SingleStep
<1>2. Todo' \subseteq {x} \cup Later
  <2>1. CASE Then(<<x>>)
    <3>1. <<x>> \in Seq({x}) /\ agenda' = <<x>> \o Tail(agenda)
      BY <2>1 DEF Then
    <3> QED BY <1>1, <3>1, TodoThen DEF SettledInv
  <2>2. CASE Return(<<x>>)
    BY <1>1, <2>2 DEF Return, Todo
  <2> QED BY <2>1, <2>2
<1>3. PICK new : new = {x}
  OBVIOUS
<1>4. Todo' \subseteq new \cup Later /\ \A z \in new : Mild(z)
  BY <1>2, <1>3
<1> QED BY <1>4, SegmentCover

\* or two.
LEMMA CoverTwo ==
    ASSUME SettledInv, CoverInv, TypeOK', agenda # <<>>, CoverKept, now.op # "cancel_algo",
           NEW x, NEW y, Mild(x), Mild(y), Then(<<x, y>>) \/ Return(<<x, y>>)
    PROVE  CoverInv'
<1>1. StepsIn(<<x, y>>) \subseteq {x, y} /\ <<x, y>> \in Seq({x, y})
  BY DEF StepsIn
<1>2. Todo' \subseteq {x, y} \cup Later
  <2>1. CASE Then(<<x, y>>)
    <3>1. agenda' = <<x, y>> \o Tail(agenda)
      BY <2>1 DEF Then
    <3> QED BY <1>1, <3>1, TodoThen DEF SettledInv
  <2>2. CASE Return(<<x, y>>)
    BY <1>1, <2>2 DEF Return, Todo
  <2> QED BY <2>1, <2>2
<1>3. PICK new : new = {x, y}
  OBVIOUS
<1>4. Todo' \subseteq new \cup Later /\ \A z \in new : Mild(z)
  BY <1>2, <1>3
<1> QED BY <1>4, SegmentCover

\* A step of the exchange or of a task beside the lock.
LEMMA CoverAside ==
    ASSUME CoverInv, Gentle, UNCHANGED <<agenda, pos>>
    PROVE  CoverInv'
<1>1. Todo' = Todo /\ Held' = Held /\ now' = now
  BY DEF Todo, Held, now
<1>2. CancelsFirst' /\ OwnTrails' /\ FlatAlone' /\ Placing'
  BY <1>1 DEF CoverInv, CancelsFirst, OwnTrails, FlatAlone, Placing
<1>3. Undisturbed' => Protected' /\ OldKept' /\ Spared'
  BY <1>1 DEF CoverInv, Gentle, Protected, OldKept, Spared, Sheltered
<1> QED BY <1>2, <1>3 DEF CoverInv

\* A handler begins with the lock free: nothing was left to do.
LEMMA CoverStart ==
    ASSUME CoverInv, TypeOK', Gentle, MarksKept, OwnTrails',
           \A x \in Todo' : x.op \notin {"cancel_algo", "place_stop", "protect", "flat"}
    PROVE  CoverInv'
BY MildCover, StillProtected DEF FlatAlone

\* Only the state of a position changes, and none is opened that was not held.
LEMMA StatusKept ==
    ASSUME TypeOK, CoverInv, NEW p \in Trades, NEW st, pos' = [pos EXCEPT ![p].st = st],
           p \in Held \/ st \notin {"open", "closing"}
    PROVE  MarksKept /\ OwnTrails' /\ Held' \subseteq Held
<1>1. pos \in [Trades -> PositionRow]
  BY DEF TypeOK, LedgerTypeOK
<1>2. \A t \in Trades :
        /\ pos'[t].prot = pos[t].prot /\ pos'[t].stop = pos[t].stop
        /\ pos'[t].trail = pos[t].trail
        /\ pos'[t].st = IF t = p THEN st ELSE pos[t].st
  BY <1>1 DEF PositionRow
<1>3. Held' \subseteq Held
  BY <1>2 DEF Held
<1>4. MarksKept
  BY <1>2, <1>3 DEF MarksKept, Held
<1>5. OwnTrails'
  BY <1>2 DEF CoverInv, OwnTrails
<1> QED BY <1>3, <1>4, <1>5

\* The names of the steps a segment makes.
LEMMA StepOps ==
    ASSUME NEW op, NEW o, NEW p
    PROVE  OrderStep(op, o, p).op = op /\ TradeStep(op, p).op = op /\ Step(op).op = op
BY DEF OrderStep, TradeStep, Step

-----------------------------------------------------------------------------
(***************************************************************************)
(* Signals, orders and what became of them.                                *)
(***************************************************************************)

\* An exit marks its position as closing and sends an order.
LEMMA BeginExitCover ==
    ASSUME SettledInv, CoverInv, TypeOK', NEW o, NEW p \in Held, BeginExit(o, p)
    PROVE  CoverInv'
<1>1. TypeOK /\ p \in Trades
  BY DEF SettledInv, Held
<1>2. MarksKept /\ OwnTrails'
  BY <1>1, StatusKept DEF BeginExit
<1>3. Gentle
  BY GentleSegment DEF BeginExit, account
<1>4. Todo' = {OrderStep("submit", o, p)}
  BY SingleStep DEF BeginExit, Return, Todo
<1> QED BY <1>2, <1>3, <1>4, StepOps, CoverStart

\* The signal loop, the protection sync and the end of a handler.
LEMMA SignalStepCover ==
    ASSUME SettledInv, CoverInv, TypeOK', SignalStep
    PROVE  CoverInv'
<1>1. CASE DeclineEntry \/ CloseNothing \/ Release
  BY <1>1, GentleSegment, CoverAside DEF DeclineEntry, CloseNothing, Release, account, volatile
<1>2. CASE OpenShort
  <2>1. Gentle /\ MarksKept /\ OwnTrails'
    BY <1>2, GentleSegment, PosKept DEF OpenShort, account
  <2>2. PICK x, y : /\ x.op = "configure" /\ y.op = "submit"
                    /\ Return(<<y>>) \/ Return(<<x, y>>)
    BY <1>2, StepOps DEF OpenShort
  <2>3. Todo' \subseteq {x, y}
    BY <2>2 DEF Return, Todo, StepsIn
  <2> QED BY <2>1, <2>2, <2>3, CoverStart
<1>3. CASE Configure
  <2>1. agenda # <<>> /\ now.op = "configure"
    BY <1>3 DEF Configure, Due
  <2>2. Gentle /\ UNCHANGED pos
    BY <1>3, GentleSegment DEF Configure, keepMarket, keepStream
  <2>3. Then(<<>>) \/ Return(<<>>)
    BY <1>3 DEF Configure
  <2> QED BY <2>1, <2>2, <2>3, SameCover, CoverDone
<1>4. CASE CloseShort
  BY <1>4, PositionForHeld, BeginExitCover DEF CloseShort
<1>5. ASSUME NEW p \in Trades, ProtectiveExit(p) PROVE CoverInv'
  BY <1>5, BeginExitCover DEF ProtectiveExit
<1>6. ASSUME NEW p \in Trades, SyncTrail(p) PROVE CoverInv'
  <2>1. Gentle /\ MarksKept /\ OwnTrails'
    BY <1>6, GentleSegment, PosKept DEF SyncTrail, account, ledger
  <2>2. Todo' = {TradeStep("trail", p)}
    BY <1>6, SingleStep DEF SyncTrail, Return, Todo
  <2> QED BY <2>1, <2>2, StepOps, CoverStart
<1> QED BY <1>1, <1>2, <1>3, <1>4, <1>5, <1>6 DEF SignalStep

\* The due step runs on as another of the same order and position.
LEMMA NowRuns ==
    ASSUME SettledInv, agenda # <<>>, NEW op \in {"settle", "resolve", "pending_check",
                                                  "exit_check", "entry_fill", "exit_fill"}
    PROVE  Mild([now EXCEPT !.op = op])
<1>1. op \in Ops
  BY DEF Ops, OrderOps, PlacementOps
<1>2. [now EXCEPT !.op = op].op = op
  BY <1>1, NowAs
<1> QED BY <1>2 DEF Mild

\* An order is accepted, refused or not answered.
LEMMA SubmitCover ==
    ASSUME SettledInv, CoverInv, TypeOK', SubmitAccepted \/ SubmitRefused \/ SubmitTimedOut
    PROVE  CoverInv'
<1>1. agenda # <<>> /\ now.op = "submit" /\ TypeOK /\ now.trade \in Trades
  <2>1. agenda # <<>> /\ now.op = "submit" /\ TypeOK
    BY DEF SubmitAccepted, SubmitRefused, SubmitTimedOut, Due, SettledInv
  <2> QED BY <2>1, PlacementNow DEF PlacementOps
<1>2. Gentle
  BY GentleSegment DEF SubmitAccepted, SubmitRefused, SubmitTimedOut, keepTask, keepMarket
<1>3. now.op \notin FlatOps
  BY <1>1 DEF FlatOps
<1>4. CASE SubmitAccepted
  <2>1. CoverKept
    BY <1>2, <1>4, SameCover DEF SubmitAccepted
  <2> QED BY <1>1, <1>4, <2>1, NowRuns, CoverOne DEF SubmitAccepted
<1>5. CASE SubmitRefused
  <2>1. CASE UNCHANGED pos
    <3>1. CoverKept
      BY <1>2, <2>1, SameCover
    <3> QED BY <1>1, <1>5, <3>1, CoverDone DEF SubmitRefused
  <2>2. CASE /\ IsExit(now.order) \/ now.order.role = "em"
             /\ pos[now.trade].qty > 0
             /\ pos' = [pos EXCEPT ![now.trade].st = "open"]
    <3>1. now.trade \in Held
      BY <1>1, <2>2, NowFacts DEF StepHeld, AskOps, Closable
    <3>2. CoverKept
      BY <1>1, <1>2, <1>3, <2>2, <3>1, StatusKept, MarksCover
    <3> QED BY <1>1, <1>5, <3>2, CoverDone DEF SubmitRefused
  <2> QED BY <1>5, <2>1, <2>2 DEF SubmitRefused
<1>6. CASE SubmitTimedOut
  <2>1. CoverKept
    BY <1>2, <1>6, SameCover DEF SubmitTimedOut
  <2>2. Then(<<>>) \/ Then(<<[now EXCEPT !.op = "resolve"]>>)
    BY <1>6 DEF SubmitTimedOut
  <2> QED BY <1>1, <2>1, <2>2, NowRuns, CoverDone, CoverOne
<1> QED BY <1>4, <1>5, <1>6

\* What follows an order that has settled.
LEMMA SettledCover ==
    ASSUME SettledInv, CoverInv, TypeOK', agenda # <<>>, now.op = "settle", CoverKept,
           Then(Settled(now))
    PROVE  CoverInv'
<1>1. Then(<<>>) \/ Then(<<[now EXCEPT !.op = "entry_fill"]>>)
                 \/ Then(<<[now EXCEPT !.op = "exit_fill"]>>)
  BY DEF Settled
<1> QED BY <1>1, NowRuns, CoverDone, CoverOne

\* An entry is abandoned.
LEMMA AbortCover ==
    ASSUME SettledInv, CoverInv, TypeOK', agenda # <<>>, now.op # "cancel_algo", CoverKept,
           NEW o, Return(Abort(o))
    PROVE  CoverInv'
<1>1. PICK x, y : /\ x = OrderStep("abort_cancel", o, o.trade)
                  /\ y = OrderStep("abort_query", o, o.trade)
  OBVIOUS
<1>2. x.op = "abort_cancel" /\ y.op = "abort_query"
  BY <1>1, StepOps
<1>3. Return(<<x, y>>)
  BY <1>1 DEF Abort
<1> QED BY <1>2, <1>3, CoverTwo DEF Mild

\* The program waits for the order, and asks for one that was not answered.
LEMMA SettleCover ==
    ASSUME SettledInv, CoverInv, TypeOK',
           SettleKnown \/ SettleTimedOut \/ ResolveFound \/ ResolveFailed
    PROVE  CoverInv'
<1>1. agenda # <<>> /\ now.op \in {"settle", "resolve"} /\ TypeOK /\ now.trade \in Trades
  <2>1. agenda # <<>> /\ now.op \in {"settle", "resolve"} /\ TypeOK
    BY DEF SettleKnown, SettleTimedOut, ResolveFound, ResolveFailed, Due, SettledInv
  <2> QED BY <2>1, PlacementNow DEF PlacementOps
<1>2. Gentle
  BY GentleSegment
  DEF SettleKnown, SettleTimedOut, ResolveFound, ResolveFailed, keepTask, keepMarket, account
<1>3. now.op \notin FlatOps
  BY <1>1 DEF FlatOps
<1>4. UNCHANGED pos => CoverKept
  BY <1>2, SameCover
<1>5. CASE SettleKnown
  BY <1>1, <1>4, <1>5, SettledCover DEF SettleKnown, Due
<1>6. CASE SettleTimedOut
  <2>1. CASE UNCHANGED pos /\ Return(Abort(now.order))
    BY <1>1, <1>4, <2>1, AbortCover
  <2>2. CASE /\ IsExit(now.order) /\ Then(<<>>)
             /\ pos' = [pos EXCEPT ![now.trade].st = "open"]
    <3>1. now.trade \in Held
      BY <1>1, <1>6, <2>2, NowFacts DEF StepHeld, SettleTimedOut, Due
    <3>2. CoverKept
      BY <1>1, <1>2, <1>3, <2>2, <3>1, StatusKept, MarksCover
    <3> QED BY <1>1, <2>2, <3>2, CoverDone
  <2>3. CASE UNCHANGED pos /\ Then(Settled(now))
    BY <1>1, <1>4, <1>6, <2>3, SettledCover DEF SettleTimedOut, Due
  <2> QED BY <1>6, <2>1, <2>2, <2>3 DEF SettleTimedOut
<1>7. CASE ResolveFound
  <2>1. CoverKept
    BY <1>4, <1>7 DEF ResolveFound
  <2>2. \/ Then(<<[now EXCEPT !.op = "settle"], [now EXCEPT !.op = "pending_check"]>>)
        \/ Then(<<[now EXCEPT !.op = "exit_fill"], [now EXCEPT !.op = "exit_check"]>>)
    BY <1>7 DEF ResolveFound
  <2> QED BY <1>1, <2>1, <2>2, NowRuns, CoverTwo
<1>8. CASE ResolveFailed
  <2>1. CoverKept
    BY <1>4, <1>8 DEF ResolveFailed
  <2>2. Return(Abort(now.order)) \/ Then(<<>>)
    BY <1>8 DEF ResolveFailed
  <2> QED BY <1>1, <2>1, <2>2, AbortCover, CoverDone
<1> QED BY <1>5, <1>6, <1>7, <1>8

\* What is looked at once an order has ended, and the steps of an abort.
LEMMA CheckCover ==
    ASSUME SettledInv, CoverInv, TypeOK',
           PendingCheck \/ ExitCheck \/ AbortCancel \/ AbortQuery \/ FlattenCheck
    PROVE  CoverInv'
<1>1. agenda # <<>> /\ TypeOK
      /\ now.op \in {"pending_check", "exit_check", "abort_cancel", "abort_query", "flatten_check"}
  BY DEF PendingCheck, ExitCheck, AbortCancel, AbortQuery, FlattenCheck, Due, SettledInv
<1>2. Gentle
  BY GentleSegment
  DEF PendingCheck, ExitCheck, AbortCancel, AbortQuery, FlattenCheck, keepTask, keepMarket, account
<1>3. now.op \notin FlatOps
  BY <1>1 DEF FlatOps
<1>4. CoverKept
  <2>1. CASE UNCHANGED pos
    BY <1>2, <2>1, SameCover
  <2>2. CASE /\ ExitCheck /\ pos[now.trade].qty > 0
             /\ pos' = [pos EXCEPT ![now.trade].st = "open"]
    <3>1. now.trade \in Trades
      BY <1>1, <2>2, PlacementNow DEF ExitCheck, Due, PlacementOps
    <3>2. now.trade \in Held
      BY <1>1, <2>2, NowFacts DEF ExitCheck, Due, StepHeld, Closable
    <3> QED BY <1>1, <1>2, <1>3, <2>2, <3>1, <3>2, StatusKept, MarksCover
  <2> QED
    BY <2>1, <2>2 DEF PendingCheck, ExitCheck, AbortCancel, AbortQuery, FlattenCheck
<1>5. CASE Then(<<>>)
  BY <1>1, <1>4, <1>5, CoverDone
<1>6. CASE AbortQuery /\ ~Then(<<>>)
  <2>1. PICK u : Then(<<OrderStep("submit", u, now.order.trade),
                        [OrderStep("flatten_check", now.order, now.order.trade)
                           EXCEPT !.other = u]>>)
    BY <1>6 DEF AbortQuery
  <2>2. PICK x, y : /\ x = OrderStep("submit", u, now.order.trade)
                    /\ y = [OrderStep("flatten_check", now.order, now.order.trade)
                              EXCEPT !.other = u]
    OBVIOUS
  <2>3. x.op = "submit" /\ y.op = "flatten_check"
    BY <2>2 DEF OrderStep, Step
  <2>4. Then(<<x, y>>)
    BY <2>1, <2>2
  <2> QED BY <1>1, <1>4, <2>3, <2>4, CoverTwo DEF Mild
<1>7. CASE Return(<<Step("raise")>>)
  <2>1. Mild(Step("raise"))
    BY StepOps DEF Mild
  <2> QED BY <1>1, <1>4, <1>7, <2>1, CoverOne
<1> QED
  BY <1>5, <1>6, <1>7 DEF PendingCheck, ExitCheck, AbortCancel, AbortQuery, FlattenCheck

\* An exception leaves the handler.
LEMMA RaiseCover ==
    ASSUME SettledInv, CoverInv, TypeOK', Raise
    PROVE  CoverInv'
<1>1. agenda # <<>> /\ now.op = "raise" /\ Return(<<>>)
  BY DEF Raise, Due
<1>2. UNCHANGED <<pos, crashes, triggers, algos>>
  BY DEF Raise, keepMarket
<1>3. halts \subseteq halts'
  BY DEF Raise, StreamLost
<1>4. CoverKept
  BY <1>2, <1>3, GentleSegment, SameCover
<1> QED BY <1>1, <1>4, CoverDone

\* Every step of placing an order.
LEMMA PlacementStepCover ==
    ASSUME SettledInv, CoverInv, TypeOK', PlacementStep
    PROVE  CoverInv'
BY SubmitCover, SettleCover, CheckCover, RaiseCover DEF PlacementStep

-----------------------------------------------------------------------------
(***************************************************************************)
(* Fills, stops and trails.                                                *)
(***************************************************************************)

\* An entry fill creates a position or makes it grow: it is closed again, or protected.
LEMMA EntryFillCover ==
    ASSUME SettledInv, CoverInv, TypeOK', EntryFillApplied
    PROVE  CoverInv'
<1>1. agenda # <<>> /\ now.op = "entry_fill" /\ TypeOK
  BY DEF EntryFillApplied, Due, SettledInv
<1>2. PICK t \in Trades : t = now.order.trade
  BY <1>1, OrderNow, TradeOfOrder DEF OrderOps
<1>3. PICK d : pos' = [pos EXCEPT ![t] = IF t \in Held THEN [pos[t] EXCEPT !.qty = @ + d]
                                         ELSE [NoPosition EXCEPT !.st = "open", !.qty = d]]
  BY <1>2 DEF EntryFillApplied
<1>4. /\ pos \in [Trades -> PositionRow]
      /\ \A x \in Trades : x # t => pos'[x] = pos[x]
      /\ pos'[t] = IF t \in Held THEN [pos[t] EXCEPT !.qty = @ + d]
                   ELSE [NoPosition EXCEPT !.st = "open", !.qty = d]
  BY <1>1, <1>3 DEF TypeOK, LedgerTypeOK
<1>5. /\ t \in Held => /\ pos'[t].prot = pos[t].prot /\ pos'[t].stop = pos[t].stop
                       /\ pos'[t].trail = pos[t].trail /\ pos'[t].st = pos[t].st
      /\ t \notin Held => /\ pos'[t].prot = FALSE /\ pos'[t].stop = NoAlgo
                          /\ pos'[t].trail = NoAlgo /\ pos'[t].st = "open"
  BY <1>4 DEF PositionRow, NoPosition
<1>6. MarksKept /\ OwnTrails' /\ t \in Held'
  <2>1. t \in Held'
    BY <1>4, <1>5 DEF Held
  <2>2. MarksKept
    BY <1>4, <1>5 DEF MarksKept, Held
  <2>3. OwnTrails'
    <3>1. \A x \in Trades :
            /\ pos'[x].stop \in AlgoIds => pos'[x].stop = pos[x].stop
            /\ pos'[x].trail \in AlgoIds => pos'[x].trail = pos[x].trail
      BY <1>4, <1>5, NoAlgoAssumption
    <3> QED BY <3>1 DEF CoverInv, OwnTrails
  <2> QED BY <2>1, <2>2, <2>3
<1>7. Gentle
  BY GentleSegment DEF EntryFillApplied, account, keepTask
<1>8. CoverKept
  BY <1>1, <1>6, <1>7, MarksCover DEF FlatOps
<1>9. CASE Then(<<TradeStep("emergency", t)>>)
  BY <1>1, <1>8, <1>9, StepOps, CoverOne DEF Mild
<1>10. ASSUME NEW force, Then(<<Protect(t, force), TradeStep("review", t)>>)
       PROVE  CoverInv'
  <2>1. Protect(t, force).op = "protect" /\ Protect(t, force).trade = t
    BY DEF Protect, TradeStep, Step
  <2>2. Mild(Protect(t, force)) /\ Mild(TradeStep("review", t))
    BY <1>6, <2>1, StepOps DEF Mild
  <2> QED BY <1>1, <1>8, <1>10, <2>2, CoverTwo
<1> QED BY <1>2, <1>9, <1>10 DEF EntryFillApplied

\* A fill without a price abandons the entry, with an exception.
LEMMA EntryUnpricedCover ==
    ASSUME SettledInv, CoverInv, TypeOK', EntryFillUnpriced
    PROVE  CoverInv'
<1>1. agenda # <<>> /\ now.op = "entry_fill"
  BY DEF EntryFillUnpriced, Due
<1>2. CoverKept
  BY GentleSegment, SameCover DEF EntryFillUnpriced, keepMarket, keepTask
<1>3. PICK x, y, z : /\ x.op = "abort_cancel" /\ y.op = "abort_query" /\ z.op = "raise"
                     /\ agenda' = <<x, y>> \o <<z>>
  BY StepOps DEF EntryFillUnpriced, Return, Abort
<1>4. Todo' \subseteq {x, y, z} \cup Later
  <2>1. /\ <<x, y>> \in Seq({x, y, z}) /\ StepsIn(<<x, y>>) \subseteq {x, y}
        /\ <<z>> \in Seq({x, y, z}) /\ StepsIn(<<z>>) = {z}
    BY DEF StepsIn
  <2>2. PICK s \in Seq({x, y, z}) : s = <<x, y>> /\ StepsIn(s) \subseteq {x, y}
    BY <2>1
  <2>3. PICK t \in Seq({x, y, z}) : t = <<z>> /\ StepsIn(t) = {z}
    BY <2>1
  <2>4. StepsIn(s \o t) = StepsIn(s) \cup StepsIn(t)
    BY ConcatSteps
  <2> QED BY <1>3, <2>2, <2>3, <2>4 DEF Todo
<1>5. PICK new : new = {x, y, z}
  OBVIOUS
<1>6. Todo' \subseteq new \cup Later /\ \A u \in new : Mild(u)
  BY <1>3, <1>4, <1>5 DEF Mild
<1> QED BY <1>1, <1>2, <1>6, SegmentCover

\* Fills that change nothing, the review of an entry, an emergency and its alarm,
\* a trailing stop that is not needed or not placed.
LEMMA PlainCover ==
    ASSUME SettledInv, CoverInv, TypeOK',
           \/ EntryFillNothing \/ Review \/ Emergency \/ Alarm
           \/ ExitFillUnpriced \/ ExitFillNothing \/ TrailSkipped \/ TrailFailed
    PROVE  CoverInv'
<1>1. agenda # <<>> /\ now.op # "cancel_algo"
  BY DEF EntryFillNothing, Review, Emergency, Alarm, ExitFillUnpriced, ExitFillNothing,
         TrailSkipped, TrailFailed, Due
<1>2. UNCHANGED <<pos, crashes, triggers>> /\ halts \subseteq halts'
  BY DEF EntryFillNothing, Review, Emergency, Alarm, ExitFillUnpriced, ExitFillNothing,
         TrailSkipped, TrailFailed, account, keepTask, keepMarket
<1>3. algos \subseteq algos'
  <2>1. CASE TrailFailed
    BY <2>1 DEF TrailFailed, PlaceUnconfirmed, AcceptStop
  <2>2. CASE ~TrailFailed
    BY <2>2 DEF EntryFillNothing, Review, Emergency, Alarm, ExitFillUnpriced, ExitFillNothing,
                TrailSkipped, account, keepMarket
  <2> QED BY <2>1, <2>2
<1>4. CoverKept
  BY <1>2, <1>3, GentleSegment, SameCover
<1>5. CASE Then(<<>>)
  BY <1>1, <1>4, <1>5, CoverDone
<1>6. CASE Then(<<TradeStep("emergency", now.trade)>>)
  BY <1>1, <1>4, <1>6, StepOps, CoverOne DEF Mild
<1>7. CASE Emergency
  <2>1. PICK x, y : x.op = "submit" /\ y.op = "alarm" /\ Then(<<x, y>>)
    BY <1>7, StepOps DEF Emergency
  <2> QED BY <1>1, <1>4, <2>1, CoverTwo DEF Mild
<1> QED
  BY <1>5, <1>6, <1>7
  DEF EntryFillNothing, Review, Alarm, ExitFillUnpriced, ExitFillNothing, TrailSkipped, TrailFailed

\* Only the stop and the mark of one position change.
LEMMA StopSet ==
    ASSUME TypeOK, NEW p \in Held, NEW a, NEW prot,
           pos' = [pos EXCEPT ![p].stop = a, ![p].prot = prot]
    PROVE  /\ Held' = Held /\ p \in Trades
           /\ \A t \in Trades : /\ pos'[t].trail = pos[t].trail
                                /\ t # p => pos'[t].stop = pos[t].stop /\ pos'[t].prot = pos[t].prot
           /\ pos'[p].stop = a /\ pos'[p].prot = prot
<1>1. p \in Trades /\ pos \in [Trades -> PositionRow]
  BY DEF Held, TypeOK, LedgerTypeOK
<1>2. \A t \in Trades :
        /\ pos'[t].trail = pos[t].trail /\ pos'[t].st = pos[t].st
        /\ t # p => pos'[t].stop = pos[t].stop /\ pos'[t].prot = pos[t].prot
  BY <1>1 DEF PositionRow
<1>3. pos'[p].stop = a /\ pos'[p].prot = prot
  BY <1>1 DEF PositionRow
<1> QED BY <1>1, <1>2, <1>3 DEF Held

\* A position is given the id of its next stop, and the stop is to be placed.
LEMMA ProtectBeginCover ==
    ASSUME SettledInv, CoverInv, TypeOK', ProtectBegin
    PROVE  CoverInv'
<1>1. agenda # <<>> /\ now.op = "protect" /\ TypeOK
  BY DEF ProtectBegin, Due, SettledInv
<1>2. PICK p \in Held : p = now.trade /\ now \in StepType
  BY <1>1, NowFacts DEF CoverInv, Placing
<1> DEFINE x == [now EXCEPT !.op = "place_stop", !.algo = StopFor(p),
                            !.old = pos[p].stop, !.kept = pos[p].prot]
<1>3. CASE Then(<<>>) /\ UNCHANGED pos
  <2>1. CoverKept
    BY <1>3, GentleSegment, SameCover DEF ProtectBegin, account, keepTask
  <2> QED BY <1>1, <1>3, <2>1, CoverDone
<1>4. CASE /\ Then(<<x>>)
           /\ pos' = [pos EXCEPT ![p].stop = StopFor(p), ![p].prot = FALSE]
  <2>1. /\ Held' = Held /\ p \in Trades
        /\ \A t \in Trades : /\ pos'[t].trail = pos[t].trail
                             /\ t # p => pos'[t].stop = pos[t].stop /\ pos'[t].prot = pos[t].prot
        /\ pos'[p].stop = StopFor(p) /\ pos'[p].prot = FALSE
    <3>1. p \in Trades /\ pos \in [Trades -> PositionRow]
      BY <1>1 DEF Held, TypeOK, LedgerTypeOK
    <3> HIDE DEF x
    <3>2. \A t \in Trades :
            /\ pos'[t].trail = pos[t].trail /\ pos'[t].st = pos[t].st
            /\ t # p => pos'[t].stop = pos[t].stop /\ pos'[t].prot = pos[t].prot
      BY <1>4, <3>1 DEF PositionRow
    <3>3. pos'[p].stop = StopFor(p) /\ pos'[p].prot = FALSE
      BY <1>4, <3>1 DEF PositionRow
    <3> QED BY <3>1, <3>2, <3>3 DEF Held
  <2>2. x.op = "place_stop" /\ x.trade = p /\ x.algo = StopFor(p) /\ x.old = pos[p].stop
        /\ x.kept = pos[p].prot
    BY <1>2 DEF StepType
  <2>3. Gentle
    BY <1>4, GentleSegment DEF ProtectBegin, account, keepTask
  <2>4. OwnTrails'
    BY <2>1 DEF CoverInv, OwnTrails, StopFor
  <2>5. Undisturbed' => Protected'
    BY <2>1, <2>3 DEF CoverInv, Gentle, Protected, Held
  <2> HIDE DEF x
  <2>6. PICK rest \in Seq(StepsOf(owner)) :
          rest = Tail(agenda) /\ StepsIn(rest) = Later
    BY <1>1, TailSteps
  <2>7. /\ agenda' = <<x>> \o rest /\ agenda' # <<>> /\ now' = x /\ Todo' = {x} \cup Later
        /\ \A i \in 1..Len(agenda') : agenda'[i] \in {x} \cup Later
    BY <1>4, <2>6, FrontStep DEF Then
  <2>8. \A y \in Todo' : y.op \notin {"cancel_algo", "flat"}
    BY <1>1, <2>2, <2>7, LaterMild DEF FlatOps
  <2>9. CancelsFirst' /\ FlatAlone' /\ (Undisturbed' => Spared')
    BY <1>1, <2>2, <2>7, <2>8, LaterMild DEF CancelsFirst, FlatAlone, Spared
  <2>10. Placing'
    BY <1>2, <2>1, <2>2, <2>7 DEF Placing, CoverInv, OwnTrails
  <2>11. Undisturbed' => OldKept'
    BY <1>2, <2>2, <2>3, <2>7 DEF OldKept, CoverInv, Protected, Gentle
  <2> QED BY <2>4, <2>5, <2>9, <2>10, <2>11 DEF CoverInv
<1> QED BY <1>2, <1>3, <1>4 DEF ProtectBegin

\* Cancels of stops no position depends on, in front of steps of other kinds.
LEMMA CancelsCover ==
    ASSUME CoverInv, TypeOK', Undisturbed' => Protected', OwnTrails', FlatAlone',
           NEW as \in Seq(AlgoIds), NEW S, NEW rest \in Seq(S),
           agenda' = CancelAlgos(as) \o rest,
           \A x \in StepsIn(rest) : x.op \notin {"cancel_algo", "place_stop", "protect"},
           Undisturbed' => \A i \in 1..Len(as) : Sheltered(as[i])'
    PROVE  CoverInv'
<1>1. PICK c \in Seq(StepType) :
        /\ c = CancelAlgos(as) /\ Len(c) = Len(as)
        /\ \A i \in 1..Len(c) : i \in 1..Len(as) /\ c[i].op = "cancel_algo" /\ c[i].algo = as[i]
  BY CancelAlgosSteps
<1>2. PICK m \in Nat, n \in Nat : m = Len(c) /\ n = Len(agenda')
  <2>1. Len(c) \in Nat /\ Len(rest) \in Nat /\ Len(c \o rest) = Len(c) + Len(rest)
    BY JoinSteps
  <2>2. agenda' = c \o rest
    BY <1>1
  <2>3. Len(c) \in Nat /\ Len(agenda') \in Nat
    BY <2>1, <2>2
  <2> QED BY <2>3
<1>3. /\ Todo' = StepsIn(c) \cup StepsIn(rest)
      /\ \A i \in 1..n :
           /\ i <= m => i \in 1..Len(c) /\ agenda'[i] = c[i]
           /\ i > m => i - m \in 1..Len(rest) /\ agenda'[i] = rest[i - m]
  <2>1. /\ StepsIn(c \o rest) = StepsIn(c) \cup StepsIn(rest)
        /\ \A i \in 1..Len(c \o rest) :
             /\ i <= Len(c) => i \in 1..Len(c) /\ (c \o rest)[i] = c[i]
             /\ i > Len(c) => /\ i - Len(c) \in 1..Len(rest)
                               /\ (c \o rest)[i] = rest[i - Len(c)]
    BY JoinSteps
  <2>2. agenda' = c \o rest
    BY <1>1
  <2> QED BY <1>2, <2>1, <2>2 DEF Todo
<1>4. /\ \A i \in 1..n : i <= m => agenda'[i].op = "cancel_algo"
      /\ \A i \in 1..n : i > m => agenda'[i].op # "cancel_algo"
  <2>1. ASSUME NEW i \in 1..n, i <= m PROVE agenda'[i].op = "cancel_algo"
    BY <1>1, <1>3, <2>1
  <2>2. ASSUME NEW i \in 1..n, i > m PROVE agenda'[i].op # "cancel_algo"
    <3>1. agenda'[i] \in StepsIn(rest)
      BY <1>3, <2>2 DEF StepsIn
    <3> QED BY <3>1
  <2> QED BY <2>1, <2>2
<1>5. CancelsFirst'
  <2>1. ASSUME NEW i \in 1..n, agenda'[i].op = "cancel_algo", NEW j \in 1..i
        PROVE  agenda'[j].op = "cancel_algo"
    <3>1. ~(i > m)
      BY <1>4, <2>1
    <3>2. j \in 1..n /\ j <= m
      BY <3>1
    <3> QED BY <1>4, <3>2
  <2> QED BY <1>2, <2>1 DEF CancelsFirst
<1>6. \A x \in Todo' : x.op \notin {"place_stop", "protect"}
  BY <1>1, <1>3 DEF StepsIn
<1>7. Placing' /\ OldKept'
  <2>1. agenda' # <<>> => now' \in Todo'
    BY FirstTodo
  <2> QED BY <1>6, <2>1 DEF Placing, OldKept
<1>8. Undisturbed' => Spared'
  <2>1. ASSUME Undisturbed', NEW x \in Todo', x.op = "cancel_algo" PROVE Sheltered(x.algo)'
    <3>1. x \in StepsIn(c)
      BY <1>3, <2>1
    <3>2. PICK i \in 1..Len(c) : x = c[i]
      BY <3>1 DEF StepsIn
    <3>3. i \in 1..Len(as) /\ x.algo = as[i]
      BY <1>1, <3>2
    <3> QED BY <2>1, <3>3
  <2> QED BY <2>1 DEF Spared
<1> QED BY <1>5, <1>7, <1>8 DEF CoverInv

\* At most the one that a new stop replaces.
LEMMA SupersededCover ==
    ASSUME SettledInv, CoverInv, TypeOK', agenda # <<>>, now.op \notin FlatOps,
           Undisturbed' => Protected', OwnTrails', NEW old \in AlgoIds \cup {NoAlgo}, NEW a,
           Then(IF Superseded(old, a) THEN CancelAlgos(<<old>>) ELSE <<>>),
           Undisturbed' /\ old \in AlgoIds /\ old # a => Sheltered(old)'
    PROVE  CoverInv'
<1>1. now.op # "cancel_algo"
  BY DEF FlatOps
<1>2. CASE Superseded(old, a)
  <2>1. old \in AlgoIds /\ old # a
    BY <1>2 DEF Superseded
  <2>2. PICK as \in Seq(AlgoIds) : as = <<old>> /\ \A i \in 1..Len(as) : as[i] = old
    <3>1. <<old>> \in Seq(AlgoIds)
      BY <2>1, OneStep
    <3>2. \A i \in 1..Len(<<old>>) : <<old>>[i] = old
      OBVIOUS
    <3> QED BY <3>1, <3>2
  <2>3. agenda' = CancelAlgos(as) \o Tail(agenda)
    BY <1>2, <2>2 DEF Then
  <2>4. PICK rest \in Seq(StepsOf(owner)) : rest = Tail(agenda) /\ StepsIn(rest) = Later
    BY TailSteps DEF SettledInv
  <2>5. \A x \in Later : x.op \notin {"cancel_algo", "place_stop", "protect", "flat"}
    BY <1>1, LaterMild
  <2>6. FlatAlone'
    <3>1. PICK c \in Seq(StepType) :
            c = CancelAlgos(as) /\ \A i \in 1..Len(c) : c[i].op = "cancel_algo"
      BY CancelAlgosSteps
    <3>2. Todo' = StepsIn(c) \cup Later
      BY <2>3, <3>1, TodoThen DEF SettledInv
    <3> QED BY <2>5, <3>1, <3>2 DEF FlatAlone, StepsIn
  <2>7. Undisturbed' => \A i \in 1..Len(as) : Sheltered(as[i])'
    BY <2>1, <2>2
  <2> QED BY <2>3, <2>4, <2>5, <2>6, <2>7, CancelsCover
<1>3. CASE ~Superseded(old, a)
  BY <1>1, <1>3, CoverDone DEF CoverKept
<1> QED BY <1>2, <1>3

\* A stop was placed: the one it replaces is cancelled.
LEMMA PlaceStopAcceptedCover ==
    ASSUME SettledInv, CoverInv, TypeOK', PlaceStopAccepted
    PROVE  CoverInv'
<1>1. agenda # <<>> /\ now.op = "place_stop" /\ TypeOK /\ now \in StepType /\ StepHeld(now)
  BY NowFacts DEF PlaceStopAccepted, Due, SettledInv
<1>2. PICK p \in Held, a \in AlgoIds, old \in AlgoIds \cup {NoAlgo} :
        /\ p = now.trade /\ a = now.algo /\ old = now.old
        /\ a = pos[p].stop
  <2>1. now.trade \in Held /\ now.algo = pos[now.trade].stop /\ now.algo \in AlgoIds
    BY <1>1, NowFacts DEF CoverInv, Placing, StepsOf, AlgoOps
  <2>2. now.old \in AlgoIds \cup {NoAlgo}
    BY <1>1 DEF StepType
  <2> QED BY <2>1, <2>2
<1>3. /\ algos' = algos \cup {a}
      /\ pos' = [pos EXCEPT ![p].prot = TRUE]
      /\ Then(IF Superseded(old, a) THEN CancelAlgos(<<old>>) ELSE <<>>)
  BY <1>2 DEF PlaceStopAccepted, AcceptStop
<1>4. /\ Held' = Held /\ p \in Trades /\ pos'[p].prot = TRUE
      /\ \A t \in Trades : /\ pos'[t].trail = pos[t].trail /\ pos'[t].stop = pos[t].stop
                           /\ t # p => pos'[t].prot = pos[t].prot
  <2>1. p \in Trades /\ pos \in [Trades -> PositionRow]
    BY <1>1 DEF Held, TypeOK, LedgerTypeOK
  <2>2. /\ pos'[p].prot = TRUE
        /\ \A t \in Trades : /\ pos'[t].trail = pos[t].trail /\ pos'[t].stop = pos[t].stop
                             /\ pos'[t].st = pos[t].st
                             /\ t # p => pos'[t].prot = pos[t].prot
    BY <1>3, <2>1 DEF PositionRow
  <2> QED BY <2>1, <2>2 DEF Held
<1>5. Gentle
  BY <1>3, GentleSegment DEF PlaceStopAccepted, keepTask
<1>6. Undisturbed' => Protected'
  BY <1>2, <1>3, <1>4, <1>5 DEF CoverInv, Gentle, Protected, Held
<1>7. OwnTrails'
  BY <1>4 DEF CoverInv, OwnTrails
<1>8. old \in AlgoIds /\ old # a => Sheltered(old)'
  <2> SUFFICES ASSUME old \in AlgoIds, old # a, NEW q \in Held', SymbolOf[q] = SymbolOfId(old)
               PROVE  pos'[q].prot /\ pos'[q].stop # old
    BY DEF Sheltered
  <2>1. SymbolOfId(old) = SymbolOf[p]
    BY <1>1, <1>2 DEF StepHeld, SymbolOfId
  <2>2. q = p
    BY <1>4, <2>1 DEF SettledInv, HeldSound, OneHeld
  <2> QED BY <1>2, <1>4, <2>2
<1> QED BY <1>1, <1>3, <1>6, <1>7, <1>8, SupersededCover DEF FlatOps

\* A stop was not placed: the old one is still the position's, or it is closed.
LEMMA PlaceStopFailedCover ==
    ASSUME SettledInv, CoverInv, TypeOK', PlaceStopFailed
    PROVE  CoverInv'
<1>1. agenda # <<>> /\ now.op = "place_stop" /\ TypeOK /\ now \in StepType
  BY NowFacts DEF PlaceStopFailed, Due, SettledInv
<1>2. PICK p \in Held : p = now.trade
  BY <1>1 DEF CoverInv, Placing
<1>3. Gentle
  BY GentleSegment DEF PlaceStopFailed, PlaceUnconfirmed, AcceptStop, keepTask
<1>4. CoverKept
  <2>1. CASE UNCHANGED pos
    BY <1>3, <2>1, SameCover
  <2>2. CASE /\ now.old # NoAlgo /\ now.kept
             /\ pos' = [pos EXCEPT ![p].stop = now.old, ![p].prot = TRUE]
    <3>1. /\ Held' = Held /\ p \in Trades
          /\ \A t \in Trades : /\ pos'[t].trail = pos[t].trail
                               /\ t # p => pos'[t].stop = pos[t].stop /\ pos'[t].prot = pos[t].prot
          /\ pos'[p].stop = now.old /\ pos'[p].prot = TRUE
      BY <1>1, <2>2, StopSet
    <3>2. Undisturbed => now.old \in algos
      BY <1>1, <2>2 DEF CoverInv, OldKept
    <3>3. Undisturbed' => Protected'
      BY <1>3, <3>1, <3>2 DEF CoverInv, Gentle, Protected, Held
    <3>4. OwnTrails'
      BY <1>1, <3>1 DEF CoverInv, OwnTrails, Placing
    <3> QED BY <1>1, <3>3, <3>4 DEF CoverKept, FlatOps
  <2> QED BY <1>2, <2>1, <2>2 DEF PlaceStopFailed
<1>5. Then(<<>>) \/ Then(<<TradeStep("emergency", p)>>)
  BY <1>2 DEF PlaceStopFailed
<1> QED BY <1>1, <1>4, <1>5, StepOps, CoverDone, CoverOne DEF Mild

\* A stop that goes is not one a position is protected by.
LEMMA OtherStops ==
    ASSUME SettledInv, CoverInv, Undisturbed, NEW a \in AlgoIds, Sheltered(a), NEW p \in Held,
           pos[p].prot
    PROVE  pos[p].stop \in algos \ {a} /\ pos[p].stop \in StopsAt(SymbolOf[p])
<1>1. pos[p].stop \in algos /\ p \in Trades /\ algos \subseteq AlgoIds
  BY DEF CoverInv, Protected, Held, SettledInv, TypeOK, AccountTypeOK
<1>2. pos[p].stop.trade = p
  BY <1>1 DEF SettledInv, HeldSound, OwnStops
<1>3. pos[p].stop # a
  BY <1>2 DEF Sheltered, SymbolOfId
<1> QED BY <1>1, <1>2, <1>3 DEF StopsAt, SymbolOfId

\* A stop is cancelled, or the cancel fails and halts.
LEMMA CancelAlgoCover ==
    ASSUME SettledInv, CoverInv, TypeOK', CancelAlgo
    PROVE  CoverInv'
<1>1. agenda # <<>> /\ now.op = "cancel_algo" /\ TypeOK /\ Then(<<>>) /\ UNCHANGED pos
  BY DEF CancelAlgo, Due, SettledInv
<1>2. PICK a \in AlgoIds : a = now.algo
  BY <1>1, NowFacts DEF StepsOf, AlgoOps
<1>3. Undisturbed' => Undisturbed
  BY DEF CancelAlgo, Undisturbed, keepTask
<1>4. algos \ {a} \subseteq algos'
  BY <1>2 DEF CancelAlgo, DropStop
<1>5. Undisturbed' => Sheltered(a)
  BY <1>1, <1>2, <1>3, NowFacts DEF CoverInv, Spared
<1>6. Undisturbed' => Protected'
  BY <1>1, <1>3, <1>4, <1>5, OtherStops DEF Protected, Held
<1>7. agenda' = Tail(agenda) /\ Todo' = Later
  <2>1. agenda' = <<>> \o Tail(agenda) /\ <<>> \in Seq({}) /\ StepsIn(<<>>) = {}
    BY <1>1 DEF Then, StepsIn
  <2>2. agenda' = Tail(agenda)
    BY <1>1, <2>1, TailSteps, ConcatEmptySeq
  <2> QED BY <1>1, <2>2, TailSteps DEF Todo
<1>8. CancelsFirst'
  <2>1. ASSUME NEW i \in 1..Len(agenda'), agenda'[i].op = "cancel_algo", NEW j \in 1..i
        PROVE  agenda'[j].op = "cancel_algo"
    <3>1. /\ Len(agenda') = Len(agenda) - 1 /\ Len(agenda) \in Nat
          /\ \A k \in 1..Len(agenda') : agenda'[k] = agenda[k + 1]
      BY <1>1, <1>7, TailSteps
    <3>2. i + 1 \in 1..Len(agenda) /\ j + 1 \in 1..(i + 1) /\ j \in 1..Len(agenda')
      BY <3>1
    <3> QED BY <2>1, <3>1, <3>2 DEF CoverInv, CancelsFirst
  <2> QED BY <2>1 DEF CancelsFirst
<1>9. Held' = Held /\ OwnTrails'
  BY <1>1, PosKept
<1>10. FlatAlone'
  BY <1>1, <1>7, <1>9, LaterMild DEF CoverInv, FlatAlone
<1>11. Placing' /\ OldKept'
  BY <1>1, <1>7, FirstTodo, LaterMild DEF Placing, OldKept
<1>12. Undisturbed' => Spared'
  BY <1>1, <1>3, <1>7, <1>9, LaterMild DEF CoverInv, Spared, Sheltered
<1> QED BY <1>6, <1>8, <1>9, <1>10, <1>11, <1>12 DEF CoverInv

\* What _cancel_position_algos cancels is the position's.
LEMMA PositionCancels ==
    ASSUME NEW p, NEW among \in SUBSET AlgoIds
    PROVE  \E as \in Seq(AlgoIds) :
             /\ CancelPositionAlgos(p, among) = CancelAlgos(as)
             /\ \A i \in 1..Len(as) : as[i] \in {pos[p].stop, pos[p].trail}
<1> DEFINE one == IF pos[p].trail \in among THEN <<pos[p].trail>> ELSE <<>>
           two == IF pos[p].stop \in among THEN <<pos[p].stop>> ELSE <<>>
           own == {pos[p].stop, pos[p].trail} \cap AlgoIds
<1>1. one \in Seq(own)
  <2>1. CASE pos[p].trail \in among
    <3>1. pos[p].trail \in own
      BY <2>1
    <3> QED BY <2>1, <3>1, OneStep
  <2>2. CASE pos[p].trail \notin among
    BY <2>2, NoSteps
  <2> QED BY <2>1, <2>2
<1>2. two \in Seq(own)
  <2>1. CASE pos[p].stop \in among
    <3>1. pos[p].stop \in own
      BY <2>1
    <3> QED BY <2>1, <3>1, OneStep
  <2>2. CASE pos[p].stop \notin among
    BY <2>2, NoSteps
  <2> QED BY <2>1, <2>2
<1>3. CancelPositionAlgos(p, among) = CancelAlgos(one \o two)
  BY DEF CancelPositionAlgos
<1> HIDE DEF one, two
<1>4. one \o two \in Seq(own)
  BY <1>1, <1>2, ConcatProperties
<1>5. one \o two \in Seq(AlgoIds)
  BY <1>4, SeqMonotonic
<1>6. \A i \in 1..Len(one \o two) : (one \o two)[i] \in own
  BY <1>4, ElementOfSeq
<1> QED BY <1>3, <1>5, <1>6

\* A position ends and its stops are cancelled: it was the only one of its symbol.
LEMMA ClosedCover ==
    ASSUME SettledInv, CoverInv, TypeOK', agenda # <<>>, now.op # "cancel_algo", Gentle,
           NEW p \in Trades, pos'[p].st = "closed", MarksKept, OwnTrails', Held' \subseteq Held,
           \A q \in Held : SymbolOf[q] = SymbolOf[p] => q = p,
           NEW among \in SUBSET AlgoIds, Then(CancelPositionAlgos(p, among))
    PROVE  CoverInv'
<1>1. PICK as \in Seq(AlgoIds) :
        /\ CancelPositionAlgos(p, among) = CancelAlgos(as)
        /\ \A i \in 1..Len(as) : as[i] \in {pos[p].stop, pos[p].trail}
  BY PositionCancels
<1>2. PICK rest \in Seq(StepsOf(owner)) : rest = Tail(agenda) /\ StepsIn(rest) = Later
  BY TailSteps DEF SettledInv
<1>3. agenda' = CancelAlgos(as) \o rest
  BY <1>1, <1>2 DEF Then
<1>4. \A x \in StepsIn(rest) : x.op \notin {"cancel_algo", "place_stop", "protect"}
  BY <1>2, LaterMild
<1>5. \A i \in 1..Len(as) : Sheltered(as[i])'
  <2> SUFFICES ASSUME NEW i \in 1..Len(as), NEW q \in Held', SymbolOf[q] = SymbolOfId(as[i])
               PROVE  FALSE
    BY DEF Sheltered
  <2>1. as[i] \in AlgoIds /\ as[i].trade = p
    <3>1. as[i] \in AlgoIds
      BY ElementOfSeq
    <3>2. /\ pos[p].stop \in AlgoIds => pos[p].stop.trade = p
          /\ pos[p].trail \in AlgoIds => pos[p].trail.trade = p
      BY DEF SettledInv, HeldSound, OwnStops, CoverInv, OwnTrails
    <3>3. as[i] = pos[p].stop \/ as[i] = pos[p].trail
      BY <1>1
    <3> QED BY <3>1, <3>2, <3>3
  <2>2. q = p
    BY <2>1 DEF SymbolOfId
  <2> QED BY <2>2 DEF Held
<1>6. FlatAlone'
  <2>1. PICK c \in Seq(StepType) :
          c = CancelAlgos(as) /\ \A i \in 1..Len(c) : c[i].op = "cancel_algo"
    BY CancelAlgosSteps
  <2>2. Todo' = StepsIn(c) \cup Later
    BY <1>2, <1>3, <2>1, TodoThen DEF SettledInv
  <2>3. \A x \in StepsIn(c) : x.op # "flat"
    BY <2>1 DEF StepsIn
  <2> QED BY <2>2, <2>3, AloneKept
<1> QED BY <1>3, <1>4, <1>5, <1>6, StillProtected, CancelsCover

\* An exit fill closes the position or reduces it, and protects what is left.
LEMMA ExitFillCover ==
    ASSUME SettledInv, CoverInv, TypeOK', ExitFillApplied
    PROVE  CoverInv'
<1>1. agenda # <<>> /\ now.op = "exit_fill" /\ TypeOK /\ now.op \notin FlatOps
  BY DEF ExitFillApplied, Due, SettledInv, FlatOps
<1>2. PICK p \in Trades : p = now.trade
  BY <1>1, PlacementNow DEF PlacementOps
<1>3. p \in Held
  <2>1. pos[p].qty \in Nat /\ Unapplied(now.order) \in Int
    <3>1. now.order \in OrderIds
      BY <1>1, PlacementNow DEF PlacementOps
    <3>2. LedgerTypeOK /\ pos \in [Trades -> PositionRow]
      BY <1>1 DEF TypeOK, LedgerTypeOK
    <3>3. pos[p].qty \in Nat
      BY <3>2 DEF PositionRow
    <3> QED BY <3>1, <3>2, <3>3, UnappliedType
  <2>2. ExitDelta(now.order, p) > 0
    BY <1>2 DEF ExitFillApplied
  <2>3. pos[p].qty # 0
    BY <2>1, <2>2 DEF ExitDelta
  <2> QED BY <1>1, <1>2, <2>3, NowFacts DEF StepHeld, Closable
<1>4. PICK left, st : /\ pos' = [pos EXCEPT ![p].qty = left, ![p].st = st]
                      /\ \/ /\ st = "open"
                            /\ Then(<<Protect(p, TRUE), Retrail(p)>>)
                         \/ /\ st = "closed"
                            /\ Then(CancelPositionAlgos(p, AlgoIds))
  BY <1>2 DEF ExitFillApplied
<1>5. /\ \A t \in Trades : /\ pos'[t].trail = pos[t].trail /\ pos'[t].stop = pos[t].stop
                           /\ pos'[t].prot = pos[t].prot
                           /\ t # p => pos'[t].st = pos[t].st
      /\ pos'[p].st = st
  <2>1. pos \in [Trades -> PositionRow]
    BY <1>1 DEF TypeOK, LedgerTypeOK
  <2> QED BY <1>4, <2>1 DEF PositionRow
<1>6. Held' \subseteq Held /\ (st = "open" => p \in Held')
  BY <1>3, <1>5 DEF Held
<1>7. MarksKept /\ OwnTrails'
  <2>1. MarksKept
    BY <1>5, <1>6 DEF MarksKept, Held
  <2>2. OwnTrails'
    BY <1>5 DEF CoverInv, OwnTrails
  <2> QED BY <2>1, <2>2
<1>8. Gentle
  BY GentleSegment DEF ExitFillApplied, account, keepTask
<1>9. CASE st = "open" /\ Then(<<Protect(p, TRUE), Retrail(p)>>)
  <2>1. Protect(p, TRUE).op = "protect" /\ Protect(p, TRUE).trade = p /\ Retrail(p).op = "trail"
    BY ProtectParts, RetrailParts
  <2>2. Mild(Protect(p, TRUE)) /\ Mild(Retrail(p))
    BY <1>6, <1>9, <2>1 DEF Mild
  <2>3. CoverKept
    BY <1>6, <1>7, <1>8, MarksCover
  <2> QED BY <1>1, <1>9, <2>2, <2>3, CoverTwo
<1>10. CASE st = "closed" /\ Then(CancelPositionAlgos(p, AlgoIds))
  <2>1. \A q \in Held : SymbolOf[q] = SymbolOf[p] => q = p
    BY <1>3 DEF SettledInv, HeldSound, OneHeld
  <2> QED BY <1>1, <1>5, <1>6, <1>7, <1>8, <1>10, <2>1, ClosedCover
<1> QED BY <1>4, <1>9, <1>10

\* Only the trailing stop of a position changes.
LEMMA TrailSet ==
    ASSUME SettledInv, CoverInv, NEW p \in Trades, NEW a, pos' = [pos EXCEPT ![p].trail = a],
           a \in AlgoIds => a.trade = p /\ a.n # 0
    PROVE  /\ MarksKept /\ OwnTrails' /\ Held' = Held
           /\ \A t \in Trades : pos'[t].stop = pos[t].stop /\ pos'[t].prot = pos[t].prot
<1>1. pos \in [Trades -> PositionRow]
  BY DEF SettledInv, TypeOK, LedgerTypeOK
<1>2. \A t \in Trades : /\ pos'[t].stop = pos[t].stop /\ pos'[t].prot = pos[t].prot
                        /\ pos'[t].st = pos[t].st
                        /\ pos'[t].trail = IF t = p THEN a ELSE pos[t].trail
  BY <1>1 DEF PositionRow
<1>3. Held' = Held
  BY <1>2 DEF Held
<1>4. MarksKept
  BY <1>2, <1>3 DEF MarksKept, Held
<1>5. OwnTrails'
  BY <1>2 DEF CoverInv, OwnTrails
<1> QED BY <1>2, <1>3, <1>4, <1>5

\* The position a trailing stop is moved for is protected by its structure stop.
LEMMA TrailSheltered ==
    ASSUME SettledInv, CoverInv, NEW p \in Held, pos[p].prot, NEW old \in AlgoIds,
           pos[p].trail = old, Undisturbed
    PROVE  Sheltered(old)
<1>1. p \in Trades /\ old.trade = p /\ old.n # 0
  BY DEF Held, CoverInv, OwnTrails
<1>2. pos[p].stop # old
  BY <1>1 DEF CoverInv, OwnTrails
<1> QED BY <1>1, <1>2 DEF Sheltered, SymbolOfId, SettledInv, HeldSound, OneHeld

\* The trailing stop is moved: the old one is cancelled.
LEMMA TrailPlacedCover ==
    ASSUME SettledInv, CoverInv, TypeOK', TrailPlaced
    PROVE  CoverInv'
<1>1. agenda # <<>> /\ now.op = "trail" /\ TypeOK
  BY DEF TrailPlaced, Due, SettledInv
<1>2. PICK p \in Held : p = now.trade /\ pos[p].prot
  BY <1>1 DEF TrailPlaced, Trailable
<1>3. PICK a \in NewTrails(p) :
        /\ algos' = algos \cup {a} /\ pos' = [pos EXCEPT ![p].trail = a]
        /\ Then(IF Superseded(pos[p].trail, a) THEN CancelAlgos(<<pos[p].trail>>) ELSE <<>>)
  BY <1>2 DEF TrailPlaced, AcceptStop
<1>4. a.trade = p /\ a.n # 0
  <2>1. PICK i \in 1..MaxTrails : a = [trade |-> p, n |-> i, qty |-> pos[p].qty]
    BY <1>3 DEF NewTrails
  <2> QED BY <2>1, AccountAssumption
<1>5. p \in Trades /\ pos[p].trail \in AlgoIds \cup {NoAlgo}
  BY <1>1, PosTypes DEF Held, PositionRow, TypeOK, LedgerTypeOK
<1>6. /\ MarksKept /\ OwnTrails' /\ Held' = Held
      /\ \A t \in Trades : pos'[t].stop = pos[t].stop /\ pos'[t].prot = pos[t].prot
  BY <1>3, <1>4, <1>5, TrailSet
<1>7. Gentle
  BY <1>3, GentleSegment DEF TrailPlaced, keepTask
<1>8. ASSUME NEW old \in AlgoIds, old = pos[p].trail, Undisturbed' PROVE Sheltered(old)'
  <2>1. Sheltered(old)
    BY <1>2, <1>7, <1>8, TrailSheltered DEF Gentle
  <2> QED BY <1>6, <2>1 DEF Sheltered, Held
<1>9. PICK old \in AlgoIds \cup {NoAlgo} : old = pos[p].trail
  BY <1>5
<1> QED BY <1>1, <1>3, <1>6, <1>7, <1>8, <1>9, StillProtected, SupersededCover DEF FlatOps

\* The trailing stop is taken away, or stays with a halt.
LEMMA TrailDisarmedCover ==
    ASSUME SettledInv, CoverInv, TypeOK', TrailDisarmed
    PROVE  CoverInv'
<1>1. agenda # <<>> /\ now.op = "trail" /\ TypeOK /\ Then(<<>>)
  BY DEF TrailDisarmed, Due, SettledInv
<1>2. PICK p \in Held : p = now.trade /\ pos[p].prot
  BY <1>1 DEF TrailDisarmed, Trailable
<1>3. PICK old \in AlgoIds \cup {NoAlgo} : old = pos[p].trail /\ p \in Trades
  BY <1>1, PosTypes DEF Held, PositionRow, TypeOK, LedgerTypeOK
<1>4. MarksKept /\ OwnTrails' /\ Held' = Held
      /\ \A t \in Trades : pos'[t].stop = pos[t].stop /\ pos'[t].prot = pos[t].prot
  <2>1. CASE UNCHANGED pos
    BY <2>1, PosKept
  <2>2. CASE pos' = [pos EXCEPT ![p].trail = NoAlgo]
    BY <1>3, <2>2, NoAlgoAssumption, TrailSet
  <2> QED BY <1>2, <2>1, <2>2 DEF TrailDisarmed
<1>5. Undisturbed' => Undisturbed
  BY DEF TrailDisarmed, Undisturbed, keepTask
<1>6. algos \ {old} \subseteq algos'
  BY <1>2, <1>3 DEF TrailDisarmed, DropStop
<1>7. Undisturbed' => Protected'
  <2> SUFFICES ASSUME Undisturbed', NEW q \in Held', pos'[q].prot PROVE pos'[q].stop \in algos'
    BY DEF Protected
  <2>1. q \in Held /\ q \in Trades /\ pos[q].prot /\ pos'[q].stop = pos[q].stop
    BY <1>4 DEF Held
  <2>2. CASE old = NoAlgo
    BY <1>5, <1>6, <2>1, <2>2, NoAlgoAssumption
    DEF CoverInv, Protected, SettledInv, TypeOK, AccountTypeOK
  <2>3. CASE old \in AlgoIds
    BY <1>2, <1>3, <1>5, <1>6, <2>1, <2>3, TrailSheltered, OtherStops
  <2> QED BY <2>1, <2>2, <2>3
<1>8. CoverKept
  BY <1>1, <1>4, <1>7 DEF CoverKept, FlatOps
<1> QED BY <1>1, <1>8, CoverDone

\* Every step about a position.
LEMMA PositionStepCover ==
    ASSUME SettledInv, CoverInv, TypeOK', PositionStep
    PROVE  CoverInv'
BY EntryFillCover, EntryUnpricedCover, PlainCover, ProtectBeginCover, PlaceStopAcceptedCover,
   PlaceStopFailedCover, CancelAlgoCover, ExitFillCover, TrailPlacedCover, TrailDisarmedCover
DEF PositionStep

-----------------------------------------------------------------------------
(***************************************************************************)
(* The reconcile, the stream, the crash.                                   *)
(***************************************************************************)

\* A reconcile begins, at the start with the orders to recover.
LEMMA BeginReconcileCover ==
    ASSUME SettledInv, CoverInv, TypeOK', NEW task, BeginReconcile(task)
    PROVE  CoverInv'
<1>1. Gentle /\ MarksKept /\ OwnTrails'
  BY GentleSegment, PosKept DEF BeginReconcile, account, ledger
<1>2. ASSUME NEW x \in Todo' PROVE x.op \in {"recover", "reconcile"}
  <2> DEFINE e == Step("reconcile")
  <2>1. <<e>> \in Seq({e}) /\ StepsIn(<<e>>) = {e} /\ e.op = "reconcile"
    BY SingleStep, StepOps
  <2>2. RecoverSteps \in Seq(StepType) /\ \A y \in StepsIn(RecoverSteps) : y.op = "recover"
    BY RecoverOps, LockFree DEF BeginReconcile, Take, StepsIn
  <2>3. <<>> \in Seq(StepType) /\ StepsIn(<<>>) = {}
    BY DEF StepsIn
  <2> HIDE DEF e
  <2>4. PICK t \in Seq({e}) : t = <<e>> /\ StepsIn(t) = {e}
    BY <2>1
  <2>5. CASE agenda' = RecoverSteps \o <<e>>
    <3>1. PICK s \in Seq(StepType) : s = RecoverSteps
      BY <2>2
    <3>2. StepsIn(s \o t) = StepsIn(s) \cup StepsIn(t)
      BY JoinSteps
    <3> QED BY <2>1, <2>2, <2>5, <2>4, <3>1, <3>2 DEF Todo
  <2>6. CASE agenda' = <<>> \o <<e>>
    <3>1. PICK s \in Seq(StepType) : s = <<>> /\ StepsIn(s) = {}
      BY <2>3
    <3>2. StepsIn(s \o t) = StepsIn(s) \cup StepsIn(t)
      BY JoinSteps
    <3> QED BY <2>1, <2>6, <2>4, <3>1, <3>2 DEF Todo
  <2> QED BY <2>5, <2>6 DEF BeginReconcile, Return, e
<1> QED BY <1>1, <1>2, CoverStart

\* The orders in flight, the orders no row knows, and the check of the loop.
LEMMA ReconcilePlainCover ==
    ASSUME SettledInv, CoverInv, TypeOK', Recover \/ CancelOrphanOrder \/ ReconcileIterate
    PROVE  CoverInv'
<1>1. agenda # <<>> /\ now.op # "cancel_algo"
  BY DEF Recover, CancelOrphanOrder, ReconcileIterate, Due
<1>2. Gentle /\ UNCHANGED pos
  BY GentleSegment
  DEF Recover, CancelOrphanOrder, ReconcileIterate, keepMarket, keepTask, account
<1>3. CoverKept
  BY <1>2, SameCover
<1>4. CASE Then(<<>>)
  BY <1>1, <1>3, <1>4, CoverDone
<1>5. CASE Recover /\ ~Then(<<>>)
  <2>1. \/ Then(<<[now EXCEPT !.op = "entry_fill"]>>)
        \/ \E p : Then(<<OrderStep("exit_fill", now.order, p)>>)
    BY <1>5 DEF Recover
  <2>2. CASE Then(<<[now EXCEPT !.op = "entry_fill"]>>)
    BY <1>1, <1>3, <2>2, NowRuns, CoverOne
  <2>3. ASSUME NEW p, Then(<<OrderStep("exit_fill", now.order, p)>>) PROVE CoverInv'
    BY <1>1, <1>3, <2>3, StepOps, CoverOne DEF Mild
  <2> QED BY <2>1, <2>2, <2>3
<1>6. CASE Return(<<Step("raise")>>)
  BY <1>1, <1>3, <1>6, StepOps, CoverOne DEF Mild
<1> QED BY <1>4, <1>5, <1>6 DEF Recover, CancelOrphanOrder, ReconcileIterate

\* A reconcile looks for positions the account no longer has: each of them is the
\* only one of its symbol.
LEMMA ReconcileCover ==
    ASSUME SettledInv, CoverInv, TypeOK', Reconcile
    PROVE  CoverInv'
<1> DEFINE closed == {t \in Held : taken.short[SymbolOf[t]] = 0}
           unknown == taken.orders \ loaded
           gone == SetToSeq(closed)
           lost == SetToSeq(unknown)
           flats == [i \in 1..Len(gone) |-> TradeStep("flat", gone[i])]
           cancels == [i \in 1..Len(lost) |-> OrderStep("cancel_order", lost[i], NoTrade)]
           e == Step("positions")
<1>1. agenda # <<>> /\ now.op = "reconcile" /\ TypeOK
  BY DEF Reconcile, Due, SettledInv
<1>2. Len(agenda) = 1 /\ Later = {}
  BY <1>1, NowFacts, AgendaParts DEF EndOps
<1>3. gone \in Seq(closed) /\ lost \in Seq(unknown)
  <2>1. IsFiniteSet(closed)
    BY FS_Subset, AccountAssumption DEF Held
  <2>2. IsFiniteSet(unknown)
    BY <1>1, SnapshotNow, OrderIdsFinite, FS_Subset DEF SnapshotOps, Snapshot
  <2> HIDE DEF closed, unknown
  <2> QED BY <2>1, <2>2, SetToSeqType
<1>4. /\ flats \in Seq({TradeStep("flat", t) : t \in closed})
      /\ cancels \in Seq({OrderStep("cancel_order", o, NoTrade) : o \in unknown})
  <2>1. /\ Len(gone) \in Nat /\ \A i \in 1..Len(gone) : gone[i] \in closed
        /\ Len(lost) \in Nat /\ \A i \in 1..Len(lost) : lost[i] \in unknown
    BY <1>3, LenProperties, ElementOfSeq
  <2> HIDE DEF closed, unknown, gone, lost
  <2>2. /\ flats \in [1..Len(gone) -> {TradeStep("flat", t) : t \in closed}]
        /\ cancels \in [1..Len(lost) -> {OrderStep("cancel_order", o, NoTrade) : o \in unknown}]
    BY <2>1
  <2> HIDE DEF flats, cancels
  <2> QED BY <2>1, <2>2, LengthOf
<1>5. <<e>> \in Seq({e}) /\ StepsIn(<<e>>) = {e} /\ e.op = "positions"
  BY SingleStep, StepOps
<1>6. agenda' = (flats \o cancels \o <<e>>) \o Tail(agenda)
  BY DEF Reconcile, Then
<1> HIDE DEF flats, cancels, e
<1>7. Todo' = StepsIn(flats) \cup StepsIn(cancels) \cup {e}
  <2> DEFINE S == {TradeStep("flat", t) : t \in closed}
             T == {OrderStep("cancel_order", o, NoTrade) : o \in unknown}
             U == S \cup T \cup {e}
  <2>1. flats \in Seq(U) /\ cancels \in Seq(U) /\ <<e>> \in Seq(U)
    BY <1>4, <1>5, SeqMonotonic
  <2> HIDE DEF U
  <2>2. PICK f \in Seq(U), c \in Seq(U), l \in Seq(U) : f = flats /\ c = cancels /\ l = <<e>>
    BY <2>1
  <2>3. PICK g \in Seq(U) : g = f \o c /\ StepsIn(g) = StepsIn(f) \cup StepsIn(c)
    BY ConcatProperties, ConcatSteps
  <2>4. g \o l \in Seq(U) /\ StepsIn(g \o l) = StepsIn(g) \cup StepsIn(l)
    BY ConcatProperties, ConcatSteps
  <2>5. StepsIn(l) = {e} /\ agenda' = (g \o l) \o Tail(agenda)
    BY <1>5, <1>6, <2>2, <2>3
  <2>6. Todo' = StepsIn(g \o l) \cup Later
    BY <1>1, <2>4, <2>5, TodoThen
  <2> QED BY <1>2, <2>2, <2>3, <2>4, <2>5, <2>6
<1>8. /\ \A x \in StepsIn(flats) : x.op = "flat" /\ x.trade \in Held
      /\ \A x \in StepsIn(cancels) : x.op = "cancel_order"
  <2>1. /\ \A x \in StepsIn(flats) : \E t \in closed : x = TradeStep("flat", t)
        /\ \A x \in StepsIn(cancels) : \E o \in unknown : x = OrderStep("cancel_order", o, NoTrade)
    BY <1>4, ElementOfSeq DEF StepsIn
  <2>2. \A t \in closed : TradeStep("flat", t).op = "flat" /\ TradeStep("flat", t).trade = t
    BY DEF TradeStep, Step
  <2> QED BY <2>1, <2>2, StepOps
<1>9. Gentle /\ MarksKept /\ OwnTrails' /\ Held' = Held
  BY GentleSegment, PosKept DEF Reconcile, account, keepTask
<1>10. FlatAlone'
  BY <1>5, <1>7, <1>8, <1>9 DEF FlatAlone, SettledInv, HeldSound, OneHeld
<1> QED BY <1>5, <1>7, <1>8, <1>9, <1>10, StillProtected, MildCover

\* A position the account no longer has is closed.
LEMMA CloseFlatCover ==
    ASSUME SettledInv, CoverInv, TypeOK', CloseFlat
    PROVE  CoverInv'
<1>1. agenda # <<>> /\ now.op = "flat" /\ TypeOK
  BY DEF CloseFlat, Due, SettledInv
<1>2. PICK p \in Trades : p = now.trade
  BY <1>1, TradeNow DEF TradeOps
<1>3. PICK among \in SUBSET AlgoIds : among = taken.algos
  BY <1>1, SnapshotNow DEF SnapshotOps, Snapshot
<1>4. pos' = [pos EXCEPT ![p].st = "closed"] /\ Then(CancelPositionAlgos(p, among))
  BY <1>2, <1>3 DEF CloseFlat
<1>5. pos'[p].st = "closed"
  BY <1>1, <1>2, <1>4 DEF TypeOK, LedgerTypeOK, PositionRow
<1>6. MarksKept /\ OwnTrails' /\ Held' \subseteq Held
  <2>1. PICK st : st = "closed" /\ st \notin {"open", "closing"}
    OBVIOUS
  <2>2. pos' = [pos EXCEPT ![p].st = st]
    BY <1>4, <2>1
  <2> QED BY <1>1, <2>1, <2>2, StatusKept
<1>7. Gentle
  BY GentleSegment DEF CloseFlat, keepMarket, keepTask
<1>8. \A q \in Held : SymbolOf[q] = SymbolOf[p] => q = p
  BY <1>1, <1>2, NowFacts DEF CoverInv, FlatAlone
<1> QED BY <1>1, <1>4, <1>5, <1>6, <1>7, <1>8, ClosedCover

\* The positions are taken in turn.
LEMMA ReconcilePositionsCover ==
    ASSUME SettledInv, CoverInv, TypeOK', ReconcilePositions
    PROVE  CoverInv'
<1> DEFINE ps == SetToSeq(Held)
           iterate == [Step("iterate") EXCEPT !.known = Held]
           turns == TurnsOf(ps, iterate)
           e == [Step("strays") EXCEPT !.known = AlgosInUse]
<1>1. agenda # <<>> /\ now.op = "positions" /\ TypeOK
  BY DEF ReconcilePositions, Due, SettledInv
<1>2. agenda' = (turns \o <<e>>) \o Tail(agenda)
  BY DEF ReconcilePositions, Then, TurnsOf
<1>3. Held \subseteq Trades /\ IsFiniteSet(Held)
  BY FS_Subset, AccountAssumption DEF Held
<1>4. ps \in Seq(Trades) /\ \A i, j \in 1..Len(ps) : ps[i] = ps[j] => i = j
  BY <1>3, Enumerated, SeqMonotonic
<1>5. iterate \in StepType /\ iterate.op = "iterate"
  BY <1>3 DEF Step, StepType, Ops, SnapshotOps
<1>6. e.op = "strays" /\ <<e>> \in Seq({e}) /\ StepsIn(<<e>>) = {e}
  <2>1. e.op = "strays"
    BY DEF Step
  <2> QED BY <2>1, SingleStep
<1> HIDE DEF ps, iterate, e
<1>7. /\ turns \in Seq(StepType)
      /\ \A i \in 1..Len(turns) : turns[i].op \in {"iterate", "position"}
  BY <1>4, <1>5, TurnSteps
<1> HIDE DEF turns
<1>8. \A x \in StepsIn(turns) : Mild(x)
  BY <1>7 DEF StepsIn, Mild
<1>9. Todo' = (StepsIn(turns) \cup {e}) \cup Later
  <2> DEFINE U == StepType \cup {e}
  <2>1. turns \in Seq(U) /\ <<e>> \in Seq(U)
    BY <1>6, <1>7, SeqMonotonic
  <2> HIDE DEF U
  <2>2. PICK s \in Seq(U), l \in Seq(U) : s = turns /\ l = <<e>>
    BY <2>1
  <2>3. s \o l \in Seq(U) /\ StepsIn(s \o l) = StepsIn(s) \cup StepsIn(l)
    BY ConcatProperties, ConcatSteps
  <2>4. agenda' = (s \o l) \o Tail(agenda)
    BY <1>2, <2>2
  <2>5. Todo' = StepsIn(s \o l) \cup Later
    BY <1>1, <2>3, <2>4, TodoThen
  <2> QED BY <1>6, <2>2, <2>3, <2>5
<1>10. CoverKept
  BY GentleSegment, SameCover DEF ReconcilePositions, account, keepTask
<1>11. Mild(e)
  BY <1>6 DEF Mild
<1>12. \A x \in StepsIn(turns) \cup {e} : Mild(x)
  BY <1>8, <1>11
<1> QED BY <1>1, <1>9, <1>10, <1>12, SegmentCover

\* One position is compared with the account.
LEMMA ReconcilePositionCover ==
    ASSUME SettledInv, CoverInv, TypeOK', ReconcilePosition
    PROVE  CoverInv'
<1>1. agenda # <<>> /\ now.op = "position" /\ TypeOK /\ now.op \notin FlatOps
  BY DEF ReconcilePosition, Due, SettledInv, FlatOps
<1>2. PICK p \in Held : p = now.trade /\ p \in Trades
  BY <1>1, NowFacts DEF StepHeld, Held
<1>3. PICK q, st, keep, replace :
        /\ pos' = [pos EXCEPT ![p].qty = q, ![p].st = st, ![p].prot = @ /\ keep]
        /\ st \in {pos[p].st, "open"}
        /\ \E one \in {<<>>, <<Protect(p, replace)>>}, two \in {<<>>, <<Retrail(p)>>} :
             Then(one \o two)
  <2> DEFINE s == SymbolOf[p]
             q == taken.short[s]
             changed == q # pos[p].qty
             listed == pos[p].stop \in taken.algos
             resized == listed /\ pos[p].stop.qty # q
             replace == changed \/ resized
             st == IF pos[p].st = "closing" /\ ~PendingReduce(s) THEN "open" ELSE pos[p].st
             keep == listed /\ ~replace
  <2>1. pos' = [pos EXCEPT ![p].qty = q, ![p].st = st, ![p].prot = @ /\ keep]
    <3>1. pos \in [Trades -> PositionRow]
      BY <1>1 DEF TypeOK, LedgerTypeOK
    <3>2. pos' = [pos EXCEPT ![p].qty = q,
                    ![p].st = IF @ = "closing" /\ ~PendingReduce(s) THEN "open" ELSE @,
                    ![p].prot = @ /\ listed /\ ~replace]
      BY <1>2 DEF ReconcilePosition
    <3> HIDE DEF q, listed, replace
    <3> QED BY <1>2, <3>1, <3>2 DEF PositionRow
  <2>2. Then((IF listed /\ ~replace THEN <<>> ELSE <<Protect(p, replace)>>)
             \o (IF changed /\ pos[p].trail # NoAlgo THEN <<Retrail(p)>> ELSE <<>>))
    BY <1>2 DEF ReconcilePosition
  <2>3. st \in {pos[p].st, "open"}
    OBVIOUS
  <2> HIDE DEF q, st, keep, replace, listed, changed
  <2> QED BY <2>1, <2>2, <2>3
<1>4. /\ \A t \in Trades : /\ pos'[t].trail = pos[t].trail /\ pos'[t].stop = pos[t].stop
                           /\ t # p => pos'[t].st = pos[t].st /\ pos'[t].prot = pos[t].prot
      /\ pos'[p].st = st /\ pos'[p].prot = (pos[p].prot /\ keep)
  <2>1. pos \in [Trades -> PositionRow]
    BY <1>1 DEF TypeOK, LedgerTypeOK
  <2> QED BY <1>2, <1>3, <2>1 DEF PositionRow
<1>5. Held' = Held
  BY <1>2, <1>3, <1>4 DEF Held
<1>6. MarksKept /\ OwnTrails'
  <2>1. MarksKept
    BY <1>4, <1>5 DEF MarksKept, Held
  <2>2. OwnTrails'
    BY <1>4 DEF CoverInv, OwnTrails
  <2> QED BY <2>1, <2>2
<1>7. Gentle
  BY GentleSegment DEF ReconcilePosition, account, keepTask
<1>8. CoverKept
  BY <1>5, <1>6, <1>7, MarksCover
<1>9. Protect(p, replace).op = "protect" /\ Protect(p, replace).trade = p /\ Retrail(p).op = "trail"
  BY RetrailParts, <1>2 DEF Protect, TradeStep, Step
<1>10. PICK x, y : x = Protect(p, replace) /\ y = Retrail(p) /\ Mild(x) /\ Mild(y)
  BY <1>5, <1>9 DEF Mild
<1>11. PICK one \in {<<>>, <<x>>}, two \in {<<>>, <<y>>} : Then(one \o two)
  BY <1>3, <1>10
<1>12. /\ one \in Seq({x, y}) /\ two \in Seq({x, y})
       /\ StepsIn(one) \subseteq {x, y} /\ StepsIn(two) \subseteq {x, y}
  <2>1. StepsIn(<<>>) = {}
    BY DEF StepsIn
  <2>2. StepsIn(<<x>>) = {x} /\ StepsIn(<<y>>) = {y}
    BY SingleStep
  <2>3. <<>> \in Seq({x, y}) /\ <<x>> \in Seq({x, y}) /\ <<y>> \in Seq({x, y})
    OBVIOUS
  <2>4. one = <<>> \/ one = <<x>>
    OBVIOUS
  <2>5. two = <<>> \/ two = <<y>>
    OBVIOUS
  <2> QED BY <2>1, <2>2, <2>3, <2>4, <2>5
<1>13. one \o two \in Seq({x, y}) /\ StepsIn(one \o two) \subseteq {x, y}
  BY <1>12, ConcatProperties, ConcatSteps
<1>14. Todo' \subseteq {x, y} \cup Later
  <2>1. agenda' = (one \o two) \o Tail(agenda)
    BY <1>11 DEF Then
  <2> QED BY <1>1, <1>13, <2>1, TodoThen
<1>15. \A z \in {x, y} : Mild(z)
  BY <1>10
<1> QED BY <1>1, <1>8, <1>14, <1>15, SegmentCover

\* The orphan sweep cancels no stop of a position, and every position has been
\* protected before.
LEMMA ReconcileStraysCover ==
    ASSUME SettledInv, CoverInv, TypeOK', ReconcileStrays
    PROVE  CoverInv'
<1> DEFINE strays == taken.algos \ (now.known \cup AlgosInUse)
           orphans == SetToSeq(strays)
           e == Step("clear")
<1>1. agenda # <<>> /\ now.op = "strays" /\ TypeOK
  BY DEF ReconcileStrays, Due, SettledInv
<1>2. Len(agenda) = 1 /\ Tail(agenda) = <<>> /\ Todo = {now} /\ Later = {}
  BY <1>1, NowFacts, AgendaParts DEF EndOps
<1>3. strays \subseteq AlgoIds /\ IsFiniteSet(strays)
  BY <1>1, SnapshotNow, FS_Subset DEF SnapshotOps, Snapshot
<1>4. orphans \in Seq(AlgoIds) /\ StepsIn(orphans) = strays
  <2> HIDE DEF strays
  <2> QED BY <1>3, Enumerated, SeqMonotonic
<1>5. PICK as \in Seq(AlgoIds) : as = orphans /\ StepsIn(as) = strays
  BY <1>4
<1>6. PICK rest \in Seq({e}) : rest = <<e>> /\ StepsIn(rest) = {e} /\ e.op = "clear"
  <2>1. e.op = "clear"
    BY StepOps
  <2> HIDE DEF e
  <2>2. <<e>> \in Seq({e}) /\ StepsIn(<<e>>) = {e}
    BY SingleStep
  <2> QED BY <2>1, <2>2
<1>7. agenda' = (CancelAlgos(orphans) \o <<e>>) \o <<>>
  BY <1>2 DEF ReconcileStrays, Then
<1> HIDE DEF e, orphans
<1>8. PICK c \in Seq(StepType) :
        c = CancelAlgos(as) /\ \A i \in 1..Len(c) : c[i].op = "cancel_algo"
  BY CancelAlgosSteps
<1>9. agenda' = c \o rest /\ Todo' = StepsIn(c) \cup {e}
  <2> DEFINE U == StepType \cup {e}
  <2>1. c \in Seq(U) /\ rest \in Seq(U)
    BY <1>8, SeqMonotonic
  <2> HIDE DEF U
  <2>2. c \o rest \in Seq(U)
    BY <2>1, ConcatProperties
  <2>3. agenda' = c \o rest
    BY <1>5, <1>6, <1>7, <1>8, <2>2, ConcatEmptySeq
  <2>4. PICK s \in Seq(U), l \in Seq(U) : s = c /\ l = rest
    BY <2>1
  <2>5. StepsIn(s \o l) = StepsIn(s) \cup StepsIn(l)
    BY ConcatSteps
  <2> QED BY <1>6, <2>3, <2>4, <2>5 DEF Todo
<1>10. Gentle /\ MarksKept /\ OwnTrails' /\ Held' = Held /\ UNCHANGED pos
  BY GentleSegment, PosKept DEF ReconcileStrays, account, keepTask
<1>11. FlatAlone'
  BY <1>6, <1>8, <1>9 DEF FlatAlone, StepsIn
<1>12. \A p \in Held : Undisturbed => pos[p].prot
  <2>1. ~Closing /\ \A p \in Held : ~Protecting(p)
    BY <1>1, <1>2 DEF Closing, Protecting
  <2>2. Undisturbed => ~(crashes > 0) /\ Manual \notin halts
    BY DEF Undisturbed
  <2> QED BY <2>1, <2>2 DEF SettledInv, ProtSound
<1>13. ASSUME Undisturbed', NEW i \in 1..Len(as) PROVE Sheltered(as[i])'
  <2>1. as[i] \in strays
    BY <1>5 DEF StepsIn
  <2>2. \A p \in Held : pos[p].stop # as[i]
    BY <2>1 DEF AlgosInUse
  <2> QED BY <1>10, <1>12, <1>13, <2>2 DEF Sheltered, Gentle
<1> QED BY <1>6, <1>8, <1>9, <1>10, <1>11, <1>13, StillProtected, CancelsCover

\* The end of a reconcile takes back none of the halts that call for an operator.
LEMMA ReconcileDoneCover ==
    ASSUME SettledInv, CoverInv, TypeOK', ReconcileDone
    PROVE  CoverInv'
<1>1. agenda # <<>> /\ now.op = "clear" /\ Return(<<>>)
  BY DEF ReconcileDone, Due
<1>2. Manual \in halts => Manual \in halts'
  BY KeptReasons DEF ReconcileDone
<1>3. Gentle /\ UNCHANGED pos
  BY <1>2 DEF ReconcileDone, keepMarket, Gentle, Undisturbed
<1> QED BY <1>1, <1>3, SameCover, CoverDone

\* Every step of a reconcile.
LEMMA ReconcileStepCover ==
    ASSUME SettledInv, CoverInv, TypeOK', ReconcileStep
    PROVE  CoverInv'
<1>1. ASSUME NEW task \in Reconcilers,
             FetchPositions(task) \/ FetchOrders(task) \/ FetchFails(task)
      PROVE  CoverInv'
  <2>1. UNCHANGED <<agenda, pos, crashes, triggers, algos>>
    BY <1>1 DEF FetchPositions, FetchOrders, FetchFails, account, ledger, keepMarket
  <2>2. halts \subseteq halts'
    BY <1>1 DEF FetchPositions, FetchOrders, FetchFails, StreamLost, ledger, Reconcilers
  <2> QED BY <2>1, <2>2, GentleSegment, CoverAside
<1> QED
  BY <1>1, BeginReconcileCover, ReconcilePlainCover, ReconcileCover, CloseFlatCover,
     ReconcilePositionsCover, ReconcilePositionCover, ReconcileStraysCover, ReconcileDoneCover
  DEF ReconcileStep

\* The exchange takes a stop only by a trigger.
LEMMA ExchangeStepCover ==
    ASSUME SettledInv, CoverInv, ExchangeStep
    PROVE  CoverInv'
<1>1. UNCHANGED <<agenda, pos, crashes, halts>> /\ AccountNext
  BY DEF ExchangeStep, ledger, volatile
<1>2. CASE UNCHANGED triggers /\ algos \subseteq algos'
  BY <1>1, <1>2, GentleSegment, CoverAside
<1>3. CASE triggers' = triggers - 1
  <2>1. triggers \in 0..MaxTriggers /\ MaxTriggers \in Nat
    BY AccountAssumption DEF SettledInv, TypeOK, AccountTypeOK
  <2>2. Gentle
    BY <1>3, <2>1 DEF Gentle, Undisturbed
  <2> QED BY <1>1, <2>2, CoverAside
<1> QED
  BY <1>1, <1>2, <1>3
  DEF AccountNext, Fill, Expire, CancelWorking, Trigger, LateArrival, Arrive, AcceptStop

\* The stream: an event is handled, the connection is lost and comes back.
LEMMA StreamStepCover ==
    ASSUME SettledInv, CoverInv, TypeOK', StreamStep
    PROVE  CoverInv'
<1>1. CASE HandleEvent
  <2>1. Gentle /\ MarksKept /\ OwnTrails'
    BY <1>1, GentleSegment, PosKept DEF HandleEvent, keepMarket
  <2>2. \/ Return(<<>>)
        \/ \E x : x.op \in {"entry_fill", "exit_fill"} /\ Return(<<x>>)
    <3>1. \/ Return(<<>>)
          \/ \E o, t : \/ Return(<<OrderStep("entry_fill", o, t)>>)
                       \/ Return(<<OrderStep("exit_fill", o, t)>>)
      BY <1>1 DEF HandleEvent
    <3> QED BY <3>1, StepOps
  <2>3. \A x \in Todo' : x.op \in {"entry_fill", "exit_fill"}
    BY <2>2, SingleStep DEF Return, Todo, StepsIn
  <2> QED BY <2>1, <2>3, CoverStart
<1>2. CASE DropStream \/ Reconnect
  <2>1. UNCHANGED <<agenda, pos, crashes, triggers, algos>> /\ halts \subseteq halts'
    BY <1>2 DEF DropStream, Reconnect, StreamLost, keepMarket, volatile, ledger
  <2> QED BY <2>1, GentleSegment, CoverAside
<1> QED BY <1>1, <1>2 DEF StreamStep

\* The process dies with its agenda, and starts again.
LEMMA CrashStepCover ==
    ASSUME SettledInv, CoverInv, TypeOK', CrashStep
    PROVE  CoverInv'
<1>1. CASE Boot
  BY <1>1, GentleSegment, CoverAside DEF Boot, account, ledger
<1>2. CASE Crash \/ CrashAfterSend \/ CrashBetweenCommits
  <2>1. agenda' = <<>> /\ UNCHANGED pos /\ crashes' = crashes + 1
    BY <1>2 DEF Crash, CrashAfterSend, CrashBetweenCommits, Die, ledger
  <2>2. Gentle
    BY <2>1 DEF Gentle, Undisturbed, SettledInv, TypeOK, TaskTypeOK
  <2>3. Todo' = {}
    BY <2>1, OverParts
  <2> QED BY <2>1, <2>2, <2>3, PosKept, CoverStart
<1> QED BY <1>1, <1>2 DEF CrashStep

-----------------------------------------------------------------------------
\* At the start nothing is held and nothing is to be done.
LEMMA InitCover ==
    ASSUME Init
    PROVE  CoverInv
<1>1. agenda = <<>> /\ Len(agenda) = 0 /\ Todo = {}
  BY DEF Init, Todo, StepsIn
<1>2. Held = {}
  BY DEF Init, Held, NoPosition
<1>3. OwnTrails
  BY NoAlgoAssumption DEF Init, OwnTrails, NoPosition
<1> QED
  BY <1>1, <1>2, <1>3
  DEF CoverInv, CancelsFirst, FlatAlone, Placing, Protected, OldKept, Spared

\* A step of the program, or none.
LEMMA NextCover ==
    ASSUME SettledInv, CoverInv, TypeOK', [Next]_vars
    PROVE  CoverInv'
<1>1. CASE UNCHANGED vars
  BY <1>1, GentleSegment, CoverAside DEF vars, account, ledger, volatile
<1>2. CASE Next
  BY <1>2, ExchangeStepCover, SignalStepCover, PlacementStepCover, PositionStepCover,
     StreamStepCover, ReconcileStepCover, CrashStepCover
  DEF Next
<1> QED BY <1>1, <1>2

-----------------------------------------------------------------------------
(***************************************************************************)
(* No step takes the last stop.                                            *)
(***************************************************************************)

\* Where no stop goes the cover stays.
LEMMA StopsKept ==
    ASSUME algos \subseteq algos'
    PROVE  KeepsCover
BY DEF KeepsCover, StopsAt

\* Only a cancel and the end of a trail take a stop, and the market.
LEMMA StopsTaken ==
    ASSUME TypeOK, [Next]_vars
    PROVE  algos \subseteq algos' \/ CancelAlgo \/ TrailDisarmed \/ triggers' # triggers
<1>1. CASE UNCHANGED vars
  BY <1>1 DEF vars, account
<1>2. CASE ExchangeStep
  <2>1. triggers \in Nat
    BY AccountAssumption DEF TypeOK, AccountTypeOK
  <2>2. \A n \in Nat : n - 1 # n
    OBVIOUS
  <2> QED BY <1>2, <2>1, <2>2
  DEF ExchangeStep, AccountNext, Fill, Expire, CancelWorking, Trigger, LateArrival, Arrive, AcceptStop
<1>3. CASE SignalStep
  BY <1>3
  DEF SignalStep, DeclineEntry, OpenShort, Configure, CloseShort, CloseNothing, Release,
      ProtectiveExit, SyncTrail, BeginExit, account, keepMarket
<1>4. CASE PlacementStep
  BY <1>4
  DEF PlacementStep, SubmitAccepted, SubmitRefused, SubmitTimedOut, SettleKnown, SettleTimedOut,
      ResolveFound, ResolveFailed, PendingCheck, ExitCheck, AbortCancel, AbortQuery, FlattenCheck,
      Raise, account, keepMarket
<1>5. CASE PositionStep
  <2>1. CASE \/ EntryFillApplied \/ EntryFillUnpriced \/ EntryFillNothing \/ Review
             \/ ProtectBegin \/ PlaceStopAccepted \/ Emergency \/ Alarm
    BY <2>1
    DEF EntryFillApplied, EntryFillUnpriced, EntryFillNothing, Review, ProtectBegin,
        PlaceStopAccepted, Emergency, Alarm, AcceptStop, account, keepMarket
  <2>2. CASE \/ PlaceStopFailed \/ ExitFillApplied \/ ExitFillUnpriced \/ ExitFillNothing
             \/ TrailSkipped \/ TrailPlaced \/ TrailFailed
    BY <2>2
    DEF PlaceStopFailed, PlaceUnconfirmed, ExitFillApplied, ExitFillUnpriced, ExitFillNothing,
        TrailSkipped, TrailPlaced, TrailFailed, AcceptStop, account, keepMarket
  <2> QED BY <1>5, <2>1, <2>2 DEF PositionStep
<1>6. CASE StreamStep
  BY <1>6 DEF StreamStep, HandleEvent, DropStream, Reconnect, keepMarket
<1>7. CASE ReconcileStep
  BY <1>7
  DEF ReconcileStep, FetchPositions, FetchOrders, FetchFails, BeginReconcile, Recover, Reconcile,
      CloseFlat, CancelOrphanOrder, ReconcilePositions, ReconcilePosition, ReconcileIterate,
      ReconcileStrays, ReconcileDone, account, keepMarket
<1>8. CASE CrashStep
  BY <1>8 DEF CrashStep, Crash, CrashAfterSend, CrashBetweenCommits, Boot, account, keepMarket
<1> QED BY <1>1, <1>2, <1>3, <1>4, <1>5, <1>6, <1>7, <1>8 DEF Next

\* A cancelled stop leaves the one every position of its symbol is protected by.
LEMMA CancelKeepsCover ==
    ASSUME SettledInv, CoverInv, Undisturbed, CancelAlgo \/ TrailDisarmed
    PROVE  KeepsCover
<1>1. PICK a \in AlgoIds \cup {NoAlgo} :
        algos \ {a} \subseteq algos' /\ (a \in AlgoIds => Sheltered(a))
  <2>1. CASE CancelAlgo
    <3>1. agenda # <<>> /\ now.op = "cancel_algo"
      BY <2>1 DEF CancelAlgo, Due
    <3>2. now \in Todo /\ now.algo \in AlgoIds
      BY <3>1, NowFacts DEF StepsOf, AlgoOps
    <3>3. Sheltered(now.algo)
      BY <3>1, <3>2 DEF CoverInv, Spared
    <3>4. algos \ {now.algo} \subseteq algos'
      BY <2>1 DEF CancelAlgo, DropStop
    <3> QED BY <3>2, <3>3, <3>4
  <2>2. CASE TrailDisarmed
    <3>1. PICK p \in Held : p = now.trade /\ pos[p].prot
      BY <2>2 DEF TrailDisarmed, Trailable
    <3>2. pos[p].trail \in AlgoIds \cup {NoAlgo}
      BY PosTypes DEF Held, PositionRow, SettledInv, TypeOK, LedgerTypeOK
    <3>3. algos \ {pos[p].trail} \subseteq algos'
      BY <2>2, <3>1 DEF TrailDisarmed, DropStop
    <3>4. pos[p].trail \in AlgoIds => Sheltered(pos[p].trail)
      BY <3>1, TrailSheltered
    <3> QED BY <3>2, <3>3, <3>4
  <2> QED BY <2>1, <2>2
<1>2. algos \subseteq AlgoIds
  BY DEF SettledInv, TypeOK, AccountTypeOK
<1>3. CASE a = NoAlgo
  BY <1>1, <1>2, <1>3, NoAlgoAssumption, StopsKept
<1>4. CASE a \in AlgoIds
  <2> SUFFICES ASSUME NEW t \in Held, StopsAt(SymbolOf[t]) # {}
               PROVE  StopsAt(SymbolOf[t])' # {}
    BY DEF KeepsCover
  <2>1. CASE SymbolOf[t] = SymbolOfId(a)
    <3>1. pos[t].prot
      BY <1>1, <1>4, <2>1 DEF Sheltered
    <3>2. pos[t].stop \in algos \ {a} /\ pos[t].stop \in StopsAt(SymbolOf[t])
      BY <1>1, <1>4, <3>1, OtherStops
    <3> QED BY <1>1, <3>2 DEF StopsAt
  <2>2. CASE SymbolOf[t] # SymbolOfId(a)
    BY <1>1, <2>2 DEF StopsAt
  <2> QED BY <2>1, <2>2
<1> QED BY <1>1, <1>3, <1>4

\* The last stop of a position is taken by no step, unless the market triggers it,
\* whatever requests are refused, lost or late: "Replace new-before-old so the
\* residual short is never naked" (oms.py 1243) holds until a halt calls for an
\* operator.
THEOREM CoveredUntilAlarm ==
    ASSUME StreamOnly
    PROVE  Spec => CoverUntilAlarm
<1>1. Init => CoverInv
  BY InitCover
<1>2. SettledInv /\ CoverInv /\ TypeOK' /\ [Next]_vars => CoverInv'
  BY NextCover
<1>3. ASSUME SettledInv, CoverInv, [Next]_vars PROVE Undisturbed => KeepsCover
  <2>1. CASE triggers' # triggers
    BY <2>1 DEF KeepsCover
  <2> QED BY <1>3, <2>1, StopsTaken, StopsKept, CancelKeepsCover DEF SettledInv
<1>4. SettledInv /\ CoverInv /\ [Next]_vars => [Undisturbed => KeepsCover]_vars
  BY <1>3
<1>5. Spec => []SettledInv /\ []TypeOK
  BY SettledInvariant, TypeCorrect
<1> QED BY <1>1, <1>2, <1>4, <1>5, PTL DEF Spec, CoverUntilAlarm
=============================================================================
