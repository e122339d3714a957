----------------------- MODULE LiveOrderManagerSettled -----------------------
(***************************************************************************)
(* What the order manager promises once it is at rest: the books agree     *)
(* with the account, every position has a working stop of its quantity, no *)
(* stop is left behind, and a short without a stop has halted the program. *)
(*                                                                         *)
(* It is proved for the program without the periodic reconcile             *)
(* (StreamOnly): with it the run torn_snapshot shows the promise broken.   *)
(*                                                                         *)
(* The argument.  Whatever changes a short or a stop puts an event into    *)
(* the stream that makes the program read the account again, so as long as *)
(* no such event waits a snapshot is the account (SnapshotFresh).  Calm is *)
(* a state in which no event, halt or snapshot still being read promises   *)
(* to repair the books.  The program enters it only when it begins to      *)
(* apply a fresh snapshot, and from there on every segment leaves the      *)
(* books right, leaves on the agenda what will put them right, or ends the *)
(* calm (CalmSound).                                                       *)
(***************************************************************************)
EXTENDS LiveOrderManagerTypes

\* The tasks that run: the private stream, and no periodic reconcile.
StreamOnly == Background = {"private"}

StepsIn(steps) == {steps[i] : i \in 1..Len(steps)}
Todo == StepsIn(agenda)
Later == {agenda[i] : i \in 2..Len(agenda)}
Final == agenda[Len(agenda)]

\* Steps that end a handler, and steps only found in front.
EndOps == {"reconcile", "positions", "strays", "clear", "raise"}
FirstOps == {"configure", "settle", "resolve", "entry_fill", "exit_fill",
             "protect", "place_stop"}
\* What a reconcile does before it looks at its positions, and in their turns.
FlatOps == {"flat", "cancel_order", "cancel_algo", "positions"}
TurnOps == {"position", "iterate", "protect", "place_stop", "cancel_algo", "trail",
            "emergency", "submit", "settle", "resolve", "exit_fill", "exit_check",
            "alarm", "strays"}
ClearOps == {"cancel_algo", "clear"}
TradedOps == TradeOps \cup PlacementOps
AskOps == {"submit", "settle", "resolve"}
\* In its turns a reconcile sends orders only to close a position.
CloseOps == AskOps \cup {"exit_fill", "exit_check"}

Reconciling == owner \in Reconcilers /\ snap[owner].phase = "applying"

\* The task whose snapshots count, and how far it is with one.
Watcher == IF up = "running" THEN "private" ELSE "startup"
Looking == snap[Watcher].phase

\* An event waits that makes the program read the account.
Hint == \E i \in 1..Len(stream) : stream[i].fill

\* Who holds the lock and who reads the account while the process starts,
\* runs, loses the stream and gets it back.
LockSound ==
    /\ owner = "none" => agenda = <<>>
    /\ owner # "periodic" /\ snap["periodic"].phase = "idle"
    /\ \A task \in Reconcilers : snap[task].phase = "applying" => owner = task
    /\ owner = "startup" => snap["startup"].phase = "applying"
    /\ up = "running" =>
         /\ snap["startup"].phase = "idle" /\ owner # "startup"
         /\ link # "live" => StreamFailed \in halts
         /\ link = "lost" => snap["private"].phase = "idle"
         /\ link = "proving" => snap["private"].phase # "idle"
    /\ up # "running" => snap["private"].phase = "idle" /\ owner \in {"none", "startup"}
    /\ up \in {"down", "recovering"} => link = "lost"
    /\ up = "down" => owner = "none" /\ snap["startup"].phase = "idle"
    /\ up = "supervising" =>
         link # "live" /\ (link = "proving" <=> snap["startup"].phase # "idle")

\* A snapshot is the account as long as no event says otherwise.
SnapshotFresh ==
    link # "lost" /\ ~Hint =>
      /\ Looking \in {"half", "ready", "applying"} => snap[Watcher].short = short
      /\ Looking \in {"ready", "applying"} => snap[Watcher].algos = algos

\* Which step may stand where on the agenda.
StepPlaced(i) ==
    LET x == agenda[i]
        behind == (i + 1)..Len(agenda)
    IN /\ x.op \in EndOps => i = Len(agenda)
       /\ i > 1 => x.op \notin FirstOps /\ (x.op = "submit" => IsEntry(x.order))
       /\ x.op \in SnapshotOps \cup {"cancel_order"} => Reconciling
       /\ x.op = "flat" =>
            Final.op = "positions" /\ taken.short[SymbolOf[x.trade]] = 0
       /\ (x.op \in AskOps /\ IsEntry(x.order)) \/ x.op = "configure" => owner = "signal"
       /\ x.op \in {"position", "iterate"} =>
            /\ Final.op = "strays"
            /\ \A j \in behind : agenda[j].op \in {"position", "iterate", "strays"}
       /\ x.op \in TradedOps =>
            \A j \in behind : agenda[j].op = "position" => agenda[j].trade # x.trade

ShapeSound ==
    /\ \A i \in 1..Len(agenda) : StepPlaced(i)
    /\ Reconciling => agenda # <<>> /\ Final.op \in EndOps
    /\ agenda # <<>> /\ Final.op = "positions" => \A x \in Todo : x.op \in FlatOps
    /\ agenda # <<>> /\ Final.op = "strays" => \A x \in Todo : x.op \in TurnOps
    /\ agenda # <<>> /\ Final.op = "clear" => \A x \in Todo : x.op \in ClearOps

\* A step that may open a position again is about one that is held, or empty.
Closable(p) == p \in Held \/ pos[p].qty = 0
StepHeld(x) ==
    /\ x.op = "position" => x.trade \in Held
    /\ x.op \in {"submit", "settle"} /\ IsExit(x.order) => x.trade \in Held
    /\ x.op \in {"protect", "place_stop", "review", "emergency", "exit_fill", "exit_check"}
         => Closable(x.trade)
    /\ x.op \in AskOps /\ x.order.role = "em" => Closable(x.trade)
    /\ x.op = "resolve" /\ ~IsEntry(x.order) => Closable(x.trade)
    /\ x.op = "protect" => x.force \/ ~pos[x.trade].prot
    /\ x.op = "place_stop" =>
         /\ x.old = NoAlgo \/ ~x.kept \/ x.force
         /\ x.old \in AlgoIds => x.old.trade = x.trade
    /\ x.op \in {"abort_cancel", "abort_query", "flatten_check"} => Manual \in halts

\* A symbol has at most one position.
OneHeld == \A t, u \in Held : SymbolOf[t] = SymbolOf[u] => t = u
\* The stop of a position was placed for it.
OwnStops == \A t \in Trades : pos[t].stop \in AlgoIds => pos[t].stop.trade = t
HeldSound == OneHeld /\ OwnStops /\ \A x \in Todo : StepHeld(x)

\* The due step is about to give p a stop; some step will close a position and halt.
Protecting(p) == agenda # <<>> /\ now.op \in {"protect", "place_stop"} /\ now.trade = p
Closing == \E x \in Todo : x.op \in {"emergency", "alarm"}
ProtSound ==
    \A p \in Held : pos[p].prot \/ crashes > 0 \/ Manual \in halts \/ Closing \/ Protecting(p)
ClosingSound ==
    agenda # <<>> /\ Final.op = "strays" /\ (\E x \in Todo : x.op \in CloseOps) =>
      Closing \/ Manual \in halts

\* No event, halt, snapshot or step is going to repair the books.
Doomed == \E x \in Todo : x.op \in {"emergency", "alarm", "raise"}
Calm ==
    /\ up \in {"supervising", "running"}
    /\ Manual \notin halts
    /\ link # "lost" /\ ~(link = "live" /\ StreamFailed \in halts)
    /\ \A a \in algos : CancelUnresolved(a) \notin halts
    /\ ~Hint /\ Looking \in {"idle", "applying"}
    /\ ~Doomed

Covered(p) == pos[p].stop \in algos /\ pos[p].stop.qty = pos[p].qty
Agrees(p) == pos[p].qty = short[SymbolOf[p]]
Flat(s) == HeldAt(s) = {} => short[s] = 0
Turning(p) == \E x \in Todo : x.op = "position" /\ x.trade = p
Replacing(a) == agenda # <<>> /\ now.op = "place_stop" /\ now.old = a
Cancelling(a) == \E x \in Todo : x.op = "cancel_algo" /\ x.algo = a

\* Between reconciles: a position is covered or being protected, the books
\* agree or a stop is about to be placed or cancelled (and an event will say
\* so), and a stop that is not recorded is being replaced or cancelled.
Moving == (\E p \in Trades : Protecting(p)) \/ (\E a \in algos : Cancelling(a))
IdleSound ==
    /\ \A p \in Held : Covered(p) \/ Protecting(p)
    /\ Moving \/ ((\A p \in Held : Agrees(p)) /\ (\A s \in Symbols : Flat(s)))
    /\ \A a \in algos : a \in Recorded \/ Replacing(a) \/ Cancelling(a)

\* While a snapshot is applied: what is done already, by the stage it is in.
StraysSound ==
    /\ \A s \in Symbols : Flat(s)
    /\ \A p \in Held : Turning(p) \/ (Agrees(p) /\ (Covered(p) \/ Protecting(p)))
    /\ \A a \in algos : a \in Recorded \/ Replacing(a) \/ a \notin Final.known
ClearSound ==
    /\ \A s \in Symbols : Flat(s)
    /\ \A p \in Held : Agrees(p) /\ Covered(p)
    /\ \A a \in algos : a \in Recorded \/ Cancelling(a)
ApplySound ==
    /\ agenda # <<>> /\ Final.op \in EndOps \ {"raise"}
    /\ Final.op = "reconcile" => Len(agenda) = 1
    /\ Final.op = "positions" => \A s \in Symbols : Flat(s)
    /\ Final.op = "strays" => StraysSound
    /\ Final.op = "clear" => ClearSound

CalmSound ==
    Calm => /\ Looking = "idle" => IdleSound
            /\ Looking = "applying" => ApplySound

SettledInv ==
    /\ TypeOK
    /\ LockSound /\ SnapshotFresh /\ ShapeSound /\ HeldSound /\ ProtSound /\ ClosingSound
    /\ CalmSound

-----------------------------------------------------------------------------
(***************************************************************************)
(* Agendas.                                                                *)
(***************************************************************************)

\* The due step, the steps behind it and the last one.
LEMMA AgendaParts ==
    ASSUME TypeOK, agenda # <<>>
    PROVE  /\ agenda \in Seq(StepsOf(owner)) /\ Len(agenda) \in Nat \ {0}
           /\ now = agenda[1] /\ Todo = {now} \cup Later
           /\ now \in Todo /\ Later \subseteq Todo /\ Final \in Todo
           /\ Final = now \/ Final \in Later
           /\ Len(agenda) = 1 => Final = now /\ Later = {} /\ Tail(agenda) = <<>>
           /\ Len(agenda) # 1 => Final \in Later
           /\ \A x \in Todo : x \in StepsOf(owner)
<1>1. agenda \in Seq(StepsOf(owner)) /\ Len(agenda) \in Nat \ {0} /\ now = agenda[1]
  BY EmptySeq, LenProperties DEF TypeOK, TaskTypeOK, now
<1>2. Todo = {now} \cup Later
  BY <1>1 DEF Todo, StepsIn, Later
<1>3. Final = now \/ Final \in Later
  BY <1>1 DEF Final, Later
<1>4. Len(agenda) = 1 => Final = now /\ Later = {} /\ Tail(agenda) = <<>>
  <2> SUFFICES ASSUME Len(agenda) = 1 PROVE Final = now /\ Later = {} /\ Tail(agenda) = <<>>
    OBVIOUS
  <2>1. Final = now /\ Later = {}
    BY <1>1 DEF Final, Later
  <2>2. Tail(agenda) \in Seq(StepsOf(owner)) /\ Len(Tail(agenda)) = 0
    BY <1>1, HeadTailProperties
  <2> QED BY <2>1, <2>2, EmptySeq
<1>5. Len(agenda) # 1 => Final \in Later
  BY <1>1 DEF Final, Later
<1>6. \A x \in Todo : x \in StepsOf(owner)
  BY <1>1 DEF Todo, StepsIn
<1> QED BY <1>1, <1>2, <1>3, <1>4, <1>5, <1>6

\* What two lists hold together, and one of a single element.
LEMMA ConcatSteps ==
    ASSUME NEW S, NEW s \in Seq(S), NEW t \in Seq(S)
    PROVE  StepsIn(s \o t) = StepsIn(s) \cup StepsIn(t)
<1> DEFINE r == s \o t
           m == Len(s)
           n == Len(t)
<1>1. /\ m \in Nat /\ n \in Nat /\ Len(r) = m + n
      /\ \A i \in 1..Len(r) : r[i] = IF i <= m THEN s[i] ELSE t[i - m]
  BY ConcatProperties, LenProperties
<1> HIDE DEF r, m, n
<1>2. ASSUME NEW i \in 1..Len(r) PROVE r[i] \in StepsIn(s) \cup StepsIn(t)
  <2>1. CASE i <= m
    <3>1. i \in 1..m
      BY <1>1, <2>1
    <3> QED BY <1>1, <2>1, <3>1 DEF StepsIn, m
  <2>2. CASE ~(i <= m)
    <3>1. i - m \in 1..n
      BY <1>1, <2>2
    <3> QED BY <1>1, <2>2, <3>1 DEF StepsIn, n
  <2> QED BY <2>1, <2>2
<1>3. ASSUME NEW i \in 1..m PROVE s[i] \in StepsIn(r)
  <2>1. i \in 1..Len(r) /\ i <= m
    BY <1>1
  <2> QED BY <1>1, <2>1 DEF StepsIn
<1>4. ASSUME NEW i \in 1..n PROVE t[i] \in StepsIn(r)
  <2>1. i + m \in 1..Len(r) /\ ~(i + m <= m) /\ (i + m) - m = i
    BY <1>1
  <2> QED BY <1>1, <2>1 DEF StepsIn
<1>5. StepsIn(r) \subseteq StepsIn(s) \cup StepsIn(t)
  BY <1>2 DEF StepsIn
<1>6. StepsIn(s) \subseteq StepsIn(r) /\ StepsIn(t) \subseteq StepsIn(r)
  BY <1>3, <1>4 DEF StepsIn, m, n
<1> QED BY <1>5, <1>6 DEF r

\* One step.
LEMMA SingleStep ==
    ASSUME NEW x
    PROVE  StepsIn(<<x>>) = {x}
<1>1. 1 \in 1..Len(<<x>>) /\ <<x>>[1] = x /\ Len(<<x>>) = 1
  OBVIOUS
<1> QED BY <1>1 DEF StepsIn

\* A segment puts steps in front of those behind it.
LEMMA AgendaThen ==
    ASSUME TypeOK, agenda # <<>>, NEW steps \in Seq(StepType),
           agenda' = steps \o Tail(agenda)
    PROVE  /\ Len(steps) \in Nat /\ Len(agenda') = Len(steps) + Len(agenda) - 1
           /\ \A i \in 1..Len(agenda') :
                /\ i <= Len(steps) => i \in 1..Len(steps) /\ agenda'[i] = steps[i]
                /\ i > Len(steps) =>
                     /\ i - Len(steps) + 1 \in 2..Len(agenda)
                     /\ agenda'[i] = agenda[i - Len(steps) + 1]
           /\ Todo' = StepsIn(steps) \cup Later
           /\ Len(agenda) # 1 => agenda' # <<>> /\ Final' = Final
           /\ Len(agenda) = 1 => agenda' = steps
           /\ steps # <<>> => agenda' # <<>> /\ now' = steps[1] /\ steps[1] \in StepsIn(steps)
           /\ steps = <<>> /\ agenda' # <<>> => now' \in Later
<1>1. agenda \in Seq(StepsOf(owner)) /\ Len(agenda) \in Nat \ {0}
  BY AgendaParts
<1>2. /\ Len(steps) \in Nat /\ Len(agenda') = Len(steps) + Len(agenda) - 1
      /\ \A i \in 1..Len(steps) : agenda'[i] = steps[i]
      /\ \A i \in 1..Len(agenda') : i > Len(steps) => agenda'[i] = agenda[i - Len(steps) + 1]
  BY <1>1, HeadTailProperties, ConcatProperties, LenProperties
<1>3. \A i \in 1..Len(agenda') : i > Len(steps) => i - Len(steps) + 1 \in 2..Len(agenda)
  BY <1>1, <1>2
<1>4. Todo' = StepsIn(steps) \cup Later
  <2>1. ASSUME NEW x \in Todo' PROVE x \in StepsIn(steps) \cup Later
    <3>1. PICK i \in 1..Len(agenda') : x = agenda'[i]
      BY DEF Todo, StepsIn
    <3>2. CASE i > Len(steps)
      BY <1>2, <1>3, <3>1, <3>2 DEF Later
    <3>3. CASE i <= Len(steps)
      BY <1>2, <3>1, <3>3 DEF StepsIn
    <3> QED BY <1>2, <3>2, <3>3
  <2>2. ASSUME NEW x \in StepsIn(steps) PROVE x \in Todo'
    BY <1>1, <1>2 DEF Todo, StepsIn
  <2>3. ASSUME NEW x \in Later PROVE x \in Todo'
    <3>1. PICK j \in 2..Len(agenda) : x = agenda[j]
      BY DEF Later
    <3>2. j + Len(steps) - 1 \in 1..Len(agenda') /\ j + Len(steps) - 1 > Len(steps)
      BY <1>1, <1>2
    <3>3. agenda'[j + Len(steps) - 1] = x
      BY <1>1, <1>2, <3>1, <3>2
    <3> QED BY <3>2, <3>3 DEF Todo, StepsIn
  <2> QED BY <2>1, <2>2, <2>3
<1>5. Len(agenda) # 1 => agenda' # <<>> /\ Final' = Final
  <2> SUFFICES ASSUME Len(agenda) # 1 PROVE agenda' # <<>> /\ Final' = Final
    OBVIOUS
  <2>0. /\ Len(agenda) \in Nat /\ Len(agenda) > 1 /\ Len(steps) \in Nat
        /\ Len(agenda') = Len(steps) + Len(agenda) - 1
    <3>1. Len(agenda) \in Nat /\ Len(agenda) > 1
      <4>1. Len(agenda) \in Nat /\ Len(agenda) # 0 /\ Len(agenda) # 1
        BY <1>1
      <4>2. \A n \in Nat : n # 0 /\ n # 1 => n > 1
        OBVIOUS
      <4> QED BY ONLY <4>1, <4>2
    <3>2. Len(steps) \in Nat /\ Len(agenda') = Len(steps) + Len(agenda) - 1
      BY ONLY <1>2
    <3> QED BY ONLY <3>1, <3>2
  <2>1. Len(agenda') \in 1..Len(agenda') /\ Len(agenda') > Len(steps)
    BY ONLY <2>0
  <2>2. agenda'[Len(agenda')] = agenda[Len(agenda') - Len(steps) + 1]
    BY <1>2, <2>1
  <2>3. Len(agenda') - Len(steps) + 1 = Len(agenda) /\ Len(agenda') # 0
    BY ONLY <2>0
  <2> QED BY <2>2, <2>3 DEF Final
<1>6. Len(agenda) = 1 => agenda' = steps
  BY AgendaParts, ConcatEmptySeq
<1>7. steps # <<>> => agenda' # <<>> /\ now' = steps[1] /\ steps[1] \in StepsIn(steps)
  <2> SUFFICES ASSUME steps # <<>>
               PROVE  agenda' # <<>> /\ now' = steps[1] /\ steps[1] \in StepsIn(steps)
    OBVIOUS
  <2>1. 1 \in 1..Len(steps)
    BY <1>2, EmptySeq
  <2>2. 1 \in 1..Len(agenda')
    BY <1>1, <1>2, <2>1
  <2> QED BY <1>2, <2>1, <2>2 DEF now, StepsIn
<1>8. steps = <<>> /\ agenda' # <<>> => now' \in Later
  <2> SUFFICES ASSUME steps = <<>>, agenda' # <<>> PROVE now' \in Later
    OBVIOUS
  <2>1. agenda' = Tail(agenda) /\ Tail(agenda) \in Seq(StepsOf(owner))
    BY <1>1, HeadTailProperties, ConcatEmptySeq
  <2>2. Len(agenda') # 0 /\ now' = agenda'[1]
    BY <2>1, EmptySeq DEF now
  <2>3. Len(steps) = 0
    OBVIOUS
  <2>4. 1 \in 1..Len(agenda') /\ 1 > Len(steps) /\ 1 - Len(steps) + 1 = 2 /\ 2 \in 2..Len(agenda)
    BY <1>1, <1>2, <2>2, <2>3
  <2> QED BY <1>2, <2>2, <2>4 DEF Later
<1> QED BY <1>2, <1>3, <1>4, <1>5, <1>6, <1>7, <1>8

-----------------------------------------------------------------------------
(***************************************************************************)
(* Where a segment may put the steps it leaves behind.                     *)
(***************************************************************************)

\* A step that may stand in front of those behind the due one.
Fits(x) ==
    /\ x.op \notin EndOps \cup SnapshotOps \cup {"cancel_order", "configure"}
    /\ x.op \in AskOps /\ IsEntry(x.order) => owner = "signal"
    /\ x.op \in TradedOps =>
         (now.op \in TradedOps /\ x.trade = now.trade) \/ now.op \notin TurnOps
    /\ now.op \in FlatOps => x.op \in FlatOps
    /\ now.op \in TurnOps /\ owner \in Reconcilers => x.op \in TurnOps
    /\ x.op \in CloseOps /\ now.op \in TurnOps => now.op \in CloseOps \cup {"emergency"}
    /\ now.op # "cancel_algo"

\* A step that need not be the first one.
Trailing(x) == x.op \notin FirstOps /\ (x.op = "submit" => IsEntry(x.order))

Follows(steps) ==
    /\ \A i \in 1..Len(steps) : Fits(steps[i])
    /\ \A i \in 2..Len(steps) : Trailing(steps[i])

\* No step, one step, two steps.
LEMMA FollowNone == Follows(<<>>)
BY DEF Follows

\* One step that fits where the due one stood.
LEMMA FollowOne ==
    ASSUME NEW x, Fits(x)
    PROVE  Follows(<<x>>)
BY DEF Follows

\* Two of them, the second of a kind found behind another.
LEMMA FollowTwo ==
    ASSUME NEW x, NEW y, Fits(x), Fits(y), Trailing(y)
    PROVE  Follows(<<x, y>>)
BY DEF Follows

\* A function over the first n numbers is a sequence of length n.
LEMMA LengthOf ==
    ASSUME NEW S, NEW n \in Nat, NEW f \in [1..n -> S]
    PROVE  f \in Seq(S) /\ Len(f) = n
<1>1. f \in Seq(S)
  BY SeqDef
<1>2. Len(f) \in Nat /\ DOMAIN f = 1..Len(f)
  BY <1>1, LenProperties
<1>3. \A i \in Int : i \in 1..n <=> i \in 1..Len(f)
  BY <1>2
<1>4. Len(f) = n
  <2>1. Len(f) > 0 => Len(f) \in 1..n
    BY <1>2, <1>3
  <2>2. n > 0 => n \in 1..Len(f)
    BY <1>2, <1>3
  <2> QED BY <1>2, <2>1, <2>2
<1> QED BY <1>1, <1>4

\* Cancellations of stops may stand anywhere.
LEMMA CancelAlgosSteps ==
    ASSUME NEW as \in Seq(AlgoIds)
    PROVE  /\ Len(CancelAlgos(as)) = Len(as)
           /\ CancelAlgos(as) \in Seq(StepType)
           /\ \A i \in 1..Len(CancelAlgos(as)) :
                /\ i \in 1..Len(as) /\ CancelAlgos(as)[i].op = "cancel_algo"
                /\ CancelAlgos(as)[i].algo = as[i]
<1>1. Len(as) \in Nat /\ \A i \in 1..Len(as) : as[i] \in AlgoIds
  BY LenProperties, ElementOfSeq
<1>2. CancelAlgos(as) = [i \in 1..Len(as) |-> [Step("cancel_algo") EXCEPT !.algo = as[i]]]
  BY DEF CancelAlgos
<1>3. \A i \in 1..Len(as) : /\ [Step("cancel_algo") EXCEPT !.algo = as[i]] \in StepType
                            /\ [Step("cancel_algo") EXCEPT !.algo = as[i]].op = "cancel_algo"
                            /\ [Step("cancel_algo") EXCEPT !.algo = as[i]].algo = as[i]
  BY <1>1 DEF Step, StepType, Ops, AlgoOps
<1>4. CancelAlgos(as) \in Seq(StepType) /\ Len(CancelAlgos(as)) = Len(as)
  <2> DEFINE f == [i \in 1..Len(as) |-> [Step("cancel_algo") EXCEPT !.algo = as[i]]]
  <2>1. f \in [1..Len(as) -> StepType]
    BY <1>3
  <2> HIDE DEF f
  <2>2. f \in Seq(StepType) /\ Len(f) = Len(as)
    BY <1>1, <2>1, LengthOf
  <2> QED BY <1>2, <2>2 DEF f
<1> QED BY <1>2, <1>3, <1>4

\* Cancels of conditional orders, wherever the due step is not one itself.
LEMMA FollowCancels ==
    ASSUME TypeOK, NEW as \in Seq(AlgoIds), now.op # "cancel_algo"
    PROVE  Follows(CancelAlgos(as))
<1> DEFINE steps == CancelAlgos(as)
<1>1. Len(steps) \in Nat /\ \A i \in 1..Len(steps) : steps[i].op = "cancel_algo"
  BY CancelAlgosSteps, LenProperties
<1> HIDE DEF steps
<1>2. ASSUME NEW i \in 1..Len(steps) PROVE Fits(steps[i]) /\ Trailing(steps[i])
  BY <1>1 DEF Fits, Trailing, CloseOps, EndOps, SnapshotOps, AskOps, TradedOps, TradeOps, PlacementOps,
              FlatOps, TurnOps, FirstOps
<1>3. Follows(steps)
  BY <1>1, <1>2 DEF Follows
<1> QED BY <1>3 DEF steps

\* Steps that fit keep the agenda in shape.
LEMMA ShapeThen ==
    ASSUME TypeOK, TypeOK', ShapeSound, agenda # <<>>, now.op \notin EndOps,
           NEW steps \in Seq(StepType), Follows(steps),
           agenda' = steps \o Tail(agenda), UNCHANGED <<owner, snap, up>>
    PROVE  ShapeSound'
<1> DEFINE n == Len(steps)
<1>1. /\ n \in Nat /\ Len(agenda) \in Nat /\ Len(agenda') \in Nat
      /\ Len(agenda') = n + Len(agenda) - 1
  <2>1. Len(agenda) \in Nat /\ Len(agenda') \in Nat
    BY LenProperties DEF TypeOK, TaskTypeOK
  <2> QED BY <2>1, AgendaThen
<1>2. \A i \in 1..Len(agenda') :
        /\ i <= n => i \in 1..n /\ agenda'[i] = steps[i]
        /\ i > n => i - n + 1 \in 2..Len(agenda) /\ agenda'[i] = agenda[i - n + 1]
  BY AgendaThen
<1>3. /\ Len(agenda) # 1 => agenda' # <<>> /\ Final' = Final
      /\ Len(agenda) = 1 => agenda' = steps /\ Final = now
      /\ Todo' = StepsIn(steps) \cup Later
  BY AgendaThen, AgendaParts
<1>4. /\ now = agenda[1] /\ 1 \in 1..Len(agenda) /\ StepPlaced(1) /\ Final \in Todo
      /\ \A i \in 2..Len(agenda) : agenda[i] \in Later /\ StepPlaced(i)
  BY <1>1, AgendaParts DEF ShapeSound, Later
<1>5. \A x \in StepsIn(steps) : Fits(x)
  BY DEF Follows, StepsIn
<1>6. Reconciling' = Reconciling /\ (owner \in Reconcilers /\ Reconciling => taken' = taken)
  BY DEF Reconciling, taken
<1>7. Reconciling => Len(agenda) # 1
  BY <1>3 DEF ShapeSound
<1>8. Len(agenda) # 1 /\ Final.op = "positions" => now.op \in FlatOps
  BY AgendaParts DEF ShapeSound
<1>9. Len(agenda) # 1 /\ Final.op = "strays" => now.op \in TurnOps /\ owner \in Reconcilers
  <2> SUFFICES ASSUME Len(agenda) # 1, Final.op = "strays"
               PROVE  now.op \in TurnOps /\ owner \in Reconcilers
    OBVIOUS
  <2>1. now.op \in TurnOps
    BY AgendaParts DEF ShapeSound
  <2>2. Len(agenda) \in 1..Len(agenda) /\ StepPlaced(Len(agenda))
    BY <1>1, <1>4 DEF ShapeSound
  <2>3. Reconciling
    BY <2>2 DEF StepPlaced, Final, SnapshotOps
  <2> QED BY <2>1, <2>3 DEF Reconciling
<1>10. \A i \in 2..Len(agenda) : agenda[i].op = "position" => Final.op = "strays" /\ Len(agenda) # 1
  BY <1>1, <1>4 DEF StepPlaced
<1>11. ASSUME NEW i \in 1..Len(agenda'), i <= n
       PROVE  StepPlaced(i)'
  <2> DEFINE x == steps[i]
  <2>1. i \in 1..n /\ agenda'[i] = x /\ x \in StepsIn(steps) /\ Fits(x)
    BY <1>2, <1>5, <1>11 DEF StepsIn
  <2>2. i > 1 => Trailing(x)
    BY <1>1, <2>1 DEF Follows
  <2>3. ASSUME x.op \in TradedOps, NEW j \in (i + 1)..Len(agenda'), agenda'[j].op = "position"
        PROVE  agenda'[j].trade # x.trade
    <3>1. j \in 1..Len(agenda') /\ j \in Nat
      BY <1>1, <2>1
    <3>2. j > n
      <4> SUFFICES ASSUME j <= n PROVE FALSE
        BY <1>1, <3>1
      <4>1. agenda'[j] \in StepsIn(steps)
        BY <1>2, <3>1 DEF StepsIn
      <4> QED BY <1>5, <2>3, <4>1 DEF Fits, SnapshotOps
    <3>3. PICK k \in 2..Len(agenda) : k = j - n + 1 /\ agenda'[j] = agenda[k]
      BY <1>2, <3>1, <3>2
    <3>4. now.op \in TurnOps
      BY <1>9, <1>10, <2>3, <3>3
    <3>5. now.op \in TradedOps /\ x.trade = now.trade
      BY <2>1, <2>3, <3>4 DEF Fits
    <3>6. k \in 2..Len(agenda) /\ agenda[k].op = "position"
      BY <2>3, <3>3
    <3> QED BY <1>4, <3>3, <3>5, <3>6 DEF StepPlaced
  <2>4. (x.op \in AskOps /\ IsEntry(x.order)) \/ x.op = "configure" => owner' = "signal"
    BY <2>1 DEF Fits
  <2> QED BY <2>1, <2>2, <2>3, <2>4 DEF StepPlaced, Fits, Trailing, SnapshotOps
<1>12. ASSUME NEW i \in 1..Len(agenda'), i > n
       PROVE  StepPlaced(i)'
  <2> DEFINE k == i - n + 1
             x == agenda[k]
  <2>1. k \in 2..Len(agenda) /\ agenda'[i] = x /\ StepPlaced(k) /\ Len(agenda) # 1
    BY <1>1, <1>2, <1>4, <1>12
  <2>2. Final' = Final
    BY <1>3, <2>1
  <2>3. ASSUME NEW j \in (i + 1)..Len(agenda')
        PROVE  j - n + 1 \in (k + 1)..Len(agenda) /\ agenda'[j] = agenda[j - n + 1]
    BY <1>1, <1>2, <1>12
  <2>4. i = Len(agenda') <=> k = Len(agenda)
    BY <1>1
  <2>5. x.op = "flat" => taken' = taken
    BY <2>1, <1>6 DEF StepPlaced, SnapshotOps, Reconciling
  <2>6. k \in Nat /\ k > 1 /\ i \in Nat
    BY <2>1
  <2> HIDE DEF k
  <2>7. /\ x.op \in EndOps => i = Len(agenda')
        /\ x.op \notin FirstOps /\ (x.op = "submit" => IsEntry(x.order))
        /\ x.op \in SnapshotOps \cup {"cancel_order"} => Reconciling'
        /\ x.op = "flat" => Final'.op = "positions" /\ taken'.short[SymbolOf[x.trade]] = 0
        /\ (x.op \in AskOps /\ IsEntry(x.order)) \/ x.op = "configure" => owner' = "signal"
    BY <1>6, <2>1, <2>2, <2>4, <2>5, <2>6 DEF StepPlaced
  <2>8. x.op \in {"position", "iterate"} =>
          /\ Final'.op = "strays"
          /\ \A j \in (i + 1)..Len(agenda') : agenda'[j].op \in {"position", "iterate", "strays"}
    BY <2>1, <2>2, <2>3 DEF StepPlaced
  <2>9. x.op \in TradedOps =>
          \A j \in (i + 1)..Len(agenda') :
            agenda'[j].op = "position" => agenda'[j].trade # x.trade
    BY <2>1, <2>3 DEF StepPlaced
  <2> QED BY <2>1, <2>7, <2>8, <2>9 DEF StepPlaced
<1>13. Reconciling' => agenda' # <<>> /\ Final'.op \in EndOps
  BY <1>3, <1>6, <1>7 DEF ShapeSound
<1>14. Final'.op \in EndOps /\ agenda' # <<>> => Len(agenda) # 1
  <2> SUFFICES ASSUME Len(agenda) = 1, agenda' # <<>> PROVE Final'.op \notin EndOps
    OBVIOUS
  <2>1. agenda' = steps /\ Len(steps) \in 1..Len(steps)
    BY <1>1, <1>3, EmptySeq
  <2>2. Final' \in StepsIn(steps)
    BY <2>1 DEF Final, StepsIn
  <2> QED BY <1>5, <2>2 DEF Fits
<1>15. ASSUME agenda' # <<>>, Final'.op = "positions"
       PROVE  \A x \in Todo' : x.op \in FlatOps
  <2>1. Len(agenda) # 1 /\ Final.op = "positions" /\ now.op \in FlatOps
    BY <1>3, <1>8, <1>14, <1>15 DEF EndOps
  <2>2. \A x \in Later : x.op \in FlatOps
    BY <2>1, AgendaParts DEF ShapeSound
  <2>3. \A x \in StepsIn(steps) : x.op \in FlatOps
    BY <1>5, <2>1 DEF Fits
  <2> QED BY <1>3, <2>2, <2>3
<1>16. ASSUME agenda' # <<>>, Final'.op = "strays"
       PROVE  \A x \in Todo' : x.op \in TurnOps
  <2>1. Len(agenda) # 1 /\ Final.op = "strays" /\ now.op \in TurnOps /\ owner \in Reconcilers
    BY <1>3, <1>9, <1>14, <1>16 DEF EndOps
  <2>2. \A x \in Later : x.op \in TurnOps
    BY <2>1, AgendaParts DEF ShapeSound
  <2>3. \A x \in StepsIn(steps) : x.op \in TurnOps
    BY <1>5, <2>1 DEF Fits
  <2> QED BY <1>3, <2>2, <2>3
<1>17. ASSUME agenda' # <<>>, Final'.op = "clear"
       PROVE  \A x \in Todo' : x.op \in ClearOps
  <2>1. Len(agenda) # 1 /\ Final.op = "clear"
    BY <1>3, <1>14, <1>17 DEF EndOps
  <2>2. now.op = "cancel_algo" /\ \A x \in Later : x.op \in ClearOps
    BY <2>1, AgendaParts DEF ShapeSound, ClearOps, EndOps
  <2>3. \A x \in StepsIn(steps) : FALSE
    BY <1>5, <2>2 DEF Fits
  <2> QED BY <1>3, <2>2, <2>3
<1> QED
  BY <1>1, <1>11, <1>12, <1>13, <1>15, <1>16, <1>17 DEF ShapeSound

\* A handler that starts, or gives up, outside of a reconcile.
LEMMA ShapeStart ==
    ASSUME TypeOK', ~Reconciling',
           \A i \in 1..Len(agenda') :
             /\ agenda'[i].op \notin EndOps \cup SnapshotOps \cup {"cancel_order"}
             /\ i > 1 => Trailing(agenda'[i])
             /\ (agenda'[i].op \in AskOps /\ IsEntry(agenda'[i].order))
                  \/ agenda'[i].op = "configure" => owner' = "signal"
    PROVE  ShapeSound'
<1>1. Len(agenda') \in Nat /\ (agenda' # <<>> => Len(agenda') \in 1..Len(agenda'))
  BY LenProperties, EmptySeq DEF TypeOK, TaskTypeOK
<1>2. agenda' # <<>> => Final'.op \notin EndOps
  BY <1>1 DEF Final
<1>3. ASSUME NEW i \in 1..Len(agenda') PROVE StepPlaced(i)'
  <2>1. \A j \in (i + 1)..Len(agenda') : agenda'[j].op # "position"
    BY <1>1 DEF SnapshotOps
  <2> QED BY <2>1 DEF StepPlaced, Trailing, SnapshotOps
<1> QED BY <1>2, <1>3 DEF ShapeSound, EndOps

\* A handler that has only the steps of front to do, and then e.
LEMMA ShapeEnd ==
    ASSUME TypeOK', NEW front \in Seq(StepType), NEW e \in StepType,
           agenda' = front \o <<e>>, e.op \in EndOps,
           e.op \in SnapshotOps => Reconciling',
           \A i \in 1..Len(front) :
             /\ front[i].op \notin EndOps \cup FirstOps \cup {"submit"}
             /\ front[i].op \in SnapshotOps \cup {"cancel_order"} => Reconciling'
             /\ front[i].op = "flat" =>
                  e.op = "positions" /\ taken'.short[SymbolOf[front[i].trade]] = 0
             /\ front[i].op \in {"position", "iterate"} =>
                  /\ e.op = "strays"
                  /\ \A j \in (i + 1)..Len(front) : front[j].op \in {"position", "iterate"}
             /\ front[i].op \in TradedOps =>
                  \A j \in (i + 1)..Len(front) :
                    front[j].op = "position" => front[j].trade # front[i].trade
             /\ e.op = "positions" => front[i].op \in FlatOps
             /\ e.op = "strays" => front[i].op \in TurnOps
             /\ e.op = "clear" => front[i].op \in ClearOps
    PROVE  ShapeSound' /\ agenda' # <<>> /\ Final' = e /\ Todo' = StepsIn(front) \cup {e}
<1> DEFINE n == Len(front)
<1>1. /\ n \in Nat /\ Len(agenda') = n + 1 /\ agenda'[n + 1] = e
      /\ \A i \in 1..n : agenda'[i] = front[i]
  BY ConcatProperties, LenProperties
<1>2. agenda' # <<>> /\ Final' = e
  BY <1>1 DEF Final
<1>3. \A i \in 1..Len(agenda') : i \in 1..n \/ i = n + 1
  BY <1>1
<1>4. Todo' = StepsIn(front) \cup {e}
  <2>1. \A x : x \in Todo' <=> \E i \in 1..Len(agenda') : x = agenda'[i]
    BY DEF Todo, StepsIn
  <2>2. \A i \in 1..n : i \in 1..Len(agenda')
    BY <1>1
  <2>3. n + 1 \in 1..Len(agenda')
    BY <1>1
  <2> QED BY <1>1, <1>3, <2>1, <2>2, <2>3 DEF StepsIn
<1>5. ASSUME NEW i \in 1..n PROVE StepPlaced(i)'
  <2>1. i \in 1..Len(agenda') /\ i # Len(agenda') /\ agenda'[i] = front[i]
    BY <1>1
  <2>0. i \in Nat /\ n \in Nat /\ Len(agenda') = n + 1
    BY <1>1
  <2>2. \A j \in (i + 1)..Len(agenda') : j \in (i + 1)..n \/ j = n + 1
    BY ONLY <2>0
  <2>3. \A j \in (i + 1)..n : agenda'[j] = front[j]
    BY <1>1
  <2>4. front[i].op \notin AskOps \cup {"configure"}
    BY DEF FirstOps, AskOps
  <2>5. e.op # "position" /\ (e.op = "strays" => e.op \in {"position", "iterate", "strays"})
    BY DEF EndOps
  <2>6. front[i].op \in {"position", "iterate"} =>
          /\ Final'.op = "strays"
          /\ \A j \in (i + 1)..Len(agenda') : agenda'[j].op \in {"position", "iterate", "strays"}
    BY <1>1, <1>2, <2>2, <2>3
  <2>7. front[i].op \in TradedOps =>
          \A j \in (i + 1)..Len(agenda') :
            agenda'[j].op = "position" => agenda'[j].trade # front[i].trade
    BY <1>1, <2>2, <2>3, <2>5
  <2> QED BY <1>2, <2>1, <2>4, <2>6, <2>7 DEF StepPlaced
<1>6. StepPlaced(n + 1)'
  <2>1. \A j \in (n + 1 + 1)..Len(agenda') : FALSE
    BY <1>1
  <2> QED
    BY <1>1, <1>2, <2>1
    DEF StepPlaced, EndOps, FirstOps, SnapshotOps, AskOps, TradedOps, TradeOps, PlacementOps
<1>7. Final'.op = "positions" => \A x \in Todo' : x.op \in FlatOps
  BY <1>2, <1>4 DEF StepsIn, FlatOps
<1>8. Final'.op = "strays" => \A x \in Todo' : x.op \in TurnOps
  BY <1>2, <1>4 DEF StepsIn, TurnOps
<1>9. Final'.op = "clear" => \A x \in Todo' : x.op \in ClearOps
  BY <1>2, <1>4 DEF StepsIn, ClearOps
<1>10. ASSUME NEW i \in 1..Len(agenda') PROVE StepPlaced(i)'
  <2>1. CASE i \in 1..n
    BY <1>5, <2>1
  <2>2. CASE i = n + 1
    BY <1>6, <2>2
  <2> QED BY <1>3, <2>1, <2>2
<1> QED BY <1>2, <1>4, <1>7, <1>8, <1>9, <1>10 DEF ShapeSound

-----------------------------------------------------------------------------
(***************************************************************************)
(* What the segments of a handler have in common.                          *)
(***************************************************************************)

\* An event of the account reaches the program, if it is connected.
LEMMA EmitHint ==
    ASSUME TypeOK, NEW e \in Events, Emit(e)
    PROVE  (Hint => Hint') /\ (e.fill => link = "lost" \/ Hint')
<1>1. stream \in Seq(Events) /\ Len(stream) \in Nat
  BY LenProperties DEF TypeOK, AccountTypeOK
<1>2. CASE stream' = stream /\ link = "lost"
  BY <1>2 DEF Hint
<1>3. CASE stream' = Append(stream, e)
  <2>1. /\ Len(stream') = Len(stream) + 1 /\ stream'[Len(stream) + 1] = e
        /\ \A i \in 1..Len(stream) : stream'[i] = stream[i] /\ i \in 1..Len(stream')
        /\ Len(stream) + 1 \in 1..Len(stream')
    BY <1>1, <1>3, AppendProperties
  <2> QED BY <2>1 DEF Hint
<1> QED BY <1>2, <1>3 DEF Emit

\* Stops come and go, and orders are cancelled, with an event.
LEMMA AcceptStopHint ==
    ASSUME TypeOK, NEW a, AcceptStop(a)
    PROVE  (Hint => Hint') /\ (link = "lost" \/ Hint')
<1>1. StopEvent \in Events /\ StopEvent.fill
  BY DEF StopEvent, OrderEvent, Events, OrderStatus
<1> QED BY <1>1, EmitHint DEF AcceptStop

\* A conditional order is cancelled: its event will be read, if there was one to cancel.
LEMMA DropStopHint ==
    ASSUME TypeOK, NEW a, DropStop(a)
    PROVE  (Hint => Hint') /\ (link = "lost" \/ Hint' \/ (a \notin algos /\ algos' = algos))
<1>1. StopEvent \in Events /\ StopEvent.fill
  BY DEF StopEvent, OrderEvent, Events, OrderStatus
<1>2. CASE a \in algos
  BY <1>1, <1>2, EmitHint DEF DropStop
<1>3. CASE a \notin algos
  BY <1>3 DEF DropStop, Hint
<1> QED BY <1>2, <1>3

\* A plain order is cancelled: no waiting event is lost.
LEMMA CancelWorkingHint ==
    ASSUME TypeOK, NEW o \in OrderIds, CancelWorking(o)
    PROVE  Hint => Hint'
<1>1. OrderEvent(o, "dead", orders[o].filled, FALSE) \in Events
  BY DEF TypeOK, AccountTypeOK, OrderRow, OrderEvent, Events, OrderStatus
<1> QED BY <1>1, EmitHint DEF CancelWorking

\* A segment: the same task goes on, no short changes, and a stop that comes
\* or goes is in the stream.
Segment ==
    /\ agenda # <<>>
    /\ UNCHANGED <<owner, snap, up, link, crashes, short>>
    /\ halts \subseteq halts'
    /\ Hint => Hint'
    /\ link = "lost" \/ Hint' \/ algos' = algos

\* A segment of a handler keeps the lock and the tasks as they are.
LEMMA SegmentLock ==
    ASSUME LockSound, Segment
    PROVE  LockSound'
<1>1. owner # "none"
  BY DEF LockSound, Segment
<1> QED BY <1>1 DEF LockSound, Segment

\* A segment that changes the account puts an event into the stream.
LEMMA SegmentFresh ==
    ASSUME SnapshotFresh, Segment
    PROVE  SnapshotFresh'
<1>1. Watcher' = Watcher /\ Looking' = Looking /\ snap' = snap
  BY DEF Segment, Watcher, Looking
<1> QED BY <1>1 DEF SnapshotFresh, Segment

\* A calm after a segment was a calm before it.
LEMMA SegmentCalm ==
    ASSUME Segment, Doomed => Doomed' \/ Manual \in halts', Calm'
    PROVE  /\ Calm /\ algos' = algos /\ Looking' = Looking /\ Watcher' = Watcher
           /\ link # "lost" /\ ~Hint'
<1>1. Watcher' = Watcher /\ Looking' = Looking
  BY DEF Segment, Watcher, Looking
<1>2. link # "lost" /\ ~Hint' /\ algos' = algos /\ ~Hint
  BY DEF Calm, Segment
<1>3. ~Doomed
  BY DEF Calm
<1> QED BY <1>1, <1>2, <1>3 DEF Calm, Segment

\* What is still to do is not forgotten.
LEMMA ClosingThen ==
    ASSUME TypeOK, agenda # <<>>, NEW steps \in Seq(StepType),
           agenda' = steps \o Tail(agenda)
    PROVE  /\ now.op \notin {"emergency", "alarm"} => (Closing => Closing')
           /\ now.op \notin {"emergency", "alarm", "raise"} => (Doomed => Doomed')
           /\ \A x \in StepsIn(steps) :
                /\ x.op \in {"emergency", "alarm"} => Closing'
                /\ x.op \in {"emergency", "alarm", "raise"} => Doomed'
           /\ Doomed' => (\E x \in StepsIn(steps) : x.op \in {"emergency", "alarm", "raise"})
                         \/ Doomed
<1>1. Todo = {now} \cup Later /\ Todo' = StepsIn(steps) \cup Later
  BY AgendaParts, AgendaThen
<1> QED BY <1>1 DEF Closing, Doomed

\* The steps behind the due one keep what they are about.
LEMMA LaterHeld ==
    ASSUME TypeOK, ShapeSound, HeldSound, agenda # <<>>, halts \subseteq halts',
           \A x \in Later : x.op = "position" => x.trade \in Held',
           \A t \in Trades : Closable(t) => Closable(t)'
    PROVE  \A x \in Later : StepHeld(x)'
<1> SUFFICES ASSUME NEW x \in Later PROVE StepHeld(x)'
  OBVIOUS
<1>1. PICK i \in 2..Len(agenda) : x = agenda[i]
  BY DEF Later
<1>2. i \in 1..Len(agenda) /\ i > 1
  BY AgendaParts
<1>3. StepPlaced(i)
  BY <1>2 DEF ShapeSound
<1>4. x.op \notin FirstOps /\ (x.op = "submit" => IsEntry(x.order))
  BY <1>1, <1>2, <1>3 DEF StepPlaced
<1>5. StepHeld(x) /\ x \in StepsOf(owner)
  BY AgendaParts DEF HeldSound
<1>6. x.op \in {"review", "emergency", "exit_check"} => x.trade \in Trades
  BY <1>5 DEF StepsOf, TradeOps, PlacementOps
<1>7. x.op = "submit" => x.order.role = "en"
  BY <1>4 DEF IsEntry
<1> QED
  BY <1>4, <1>5, <1>6, <1>7 DEF StepHeld, FirstOps, AskOps, IsExit

\* The due step is replaced by steps whose positions are held.
LEMMA HeldThen ==
    ASSUME TypeOK, agenda # <<>>, NEW steps \in Seq(StepType),
           agenda' = steps \o Tail(agenda), OneHeld', OwnStops',
           \A x \in Later : StepHeld(x)', \A x \in StepsIn(steps) : StepHeld(x)'
    PROVE  HeldSound'
BY AgendaThen DEF HeldSound

-----------------------------------------------------------------------------
(***************************************************************************)
(* Segments that leave the books alone.                                    *)
(***************************************************************************)
SameBooks ==
    /\ Held' = Held
    /\ \A t \in Trades :
         /\ pos'[t].qty = pos[t].qty /\ pos'[t].stop = pos[t].stop
         /\ pos'[t].prot = pos[t].prot
         /\ pos[t].trail \in algos => pos'[t].trail = pos[t].trail

\* Positions are those of trades.
LEMMA HeldTrades == Held \subseteq Trades
BY DEF Held

\* What the books say of positions, symbols and stops stays true.
LEMMA BooksKept ==
    ASSUME SameBooks, UNCHANGED <<short, algos>>
    PROVE  /\ \A p \in Held : (Covered(p) => Covered(p)') /\ (Agrees(p) => Agrees(p)')
           /\ \A s \in Symbols : Flat(s) => Flat(s)'
           /\ \A a \in algos : a \in Recorded => a \in Recorded'
           /\ \A p \in Trades : Closable(p) => Closable(p)'
           /\ OneHeld => OneHeld'
<1> Held \subseteq Trades /\ Held' = Held
  BY DEF SameBooks, Held
<1>1. \A p \in Held : (Covered(p) => Covered(p)') /\ (Agrees(p) => Agrees(p)')
  BY DEF SameBooks, Covered, Agrees
<1>2. \A s \in Symbols : Flat(s) => Flat(s)'
  BY DEF Flat, HeldAt
<1>3. \A a \in algos : a \in Recorded => a \in Recorded'
  BY DEF SameBooks, Recorded
<1>4. \A p \in Trades : Closable(p) => Closable(p)'
  BY DEF SameBooks, Closable
<1>5. OneHeld => OneHeld'
  BY DEF OneHeld
<1> QED BY <1>1, <1>2, <1>3, <1>4, <1>5

\* The calm stays sound when only steps other than those that the books wait
\* for are done.
LEMMA CalmAside ==
    ASSUME TypeOK, CalmSound, Segment, SameBooks, agenda # <<>>,
           NEW steps \in Seq(StepType), agenda' = steps \o Tail(agenda),
           Doomed => Doomed' \/ Manual \in halts',
           now.op \notin EndOps \cup {"protect", "place_stop", "position"},
           now.op = "cancel_algo" => now.algo \notin algos \/ ~Calm'
    PROVE  CalmSound'
<1> SUFFICES ASSUME Calm'
             PROVE  /\ Looking' = "idle" => IdleSound'
                    /\ Looking' = "applying" => ApplySound'
  BY DEF CalmSound
<1>1. /\ Calm /\ algos' = algos /\ Looking' = Looking /\ ~Hint' /\ link # "lost"
      /\ short' = short
  BY SegmentCalm DEF Segment
<1>2. /\ Todo = {now} \cup Later /\ Todo' = StepsIn(steps) \cup Later
      /\ Len(agenda) # 1 => agenda' # <<>> /\ Final' = Final
      /\ Len(agenda) = 1 => Final = now
  BY AgendaParts, AgendaThen
<1>3. /\ \A p \in Held : (Covered(p) => Covered(p)') /\ (Agrees(p) => Agrees(p)')
      /\ \A s \in Symbols : Flat(s) => Flat(s)'
      /\ \A a \in algos : a \in Recorded => a \in Recorded'
      /\ Held' = Held
  BY <1>1, BooksKept DEF SameBooks
<1>4. \A p : ~Protecting(p)
  BY DEF Protecting
<1>5. \A a : ~Replacing(a)
  BY DEF Replacing
<1>6. \A a \in algos : Cancelling(a) => Cancelling(a)'
  <2> SUFFICES ASSUME NEW a \in algos, Cancelling(a) PROVE Cancelling(a)'
    OBVIOUS
  <2>1. PICK x \in Todo : x.op = "cancel_algo" /\ x.algo = a
    BY DEF Cancelling
  <2>2. x # now
    BY <1>1, <2>1
  <2> QED BY <1>2, <2>1, <2>2 DEF Cancelling
<1>7. \A p : Turning(p) => Turning(p)'
  BY <1>2 DEF Turning
<1>8. ASSUME Looking' = "idle" PROVE IdleSound'
  <2>1. IdleSound
    BY <1>1, <1>8 DEF CalmSound
  <2>2. \A p \in Held' : Covered(p)'
    BY <1>3, <1>4, <2>1 DEF IdleSound
  <2>3. Moving => Moving'
    BY <1>1, <1>4, <1>6 DEF Moving
  <2>4. (\A p \in Held : Agrees(p)) /\ (\A s \in Symbols : Flat(s)) =>
          (\A p \in Held' : Agrees(p)') /\ (\A s \in Symbols : Flat(s)')
    BY <1>3
  <2>5. \A a \in algos' : a \in Recorded' \/ Cancelling(a)'
    BY <1>1, <1>3, <1>5, <1>6, <2>1 DEF IdleSound
  <2> QED BY <2>1, <2>2, <2>3, <2>4, <2>5 DEF IdleSound
<1>9. ASSUME Looking' = "applying" PROVE ApplySound'
  <2>1. ApplySound
    BY <1>1, <1>9 DEF CalmSound
  <2>2. Len(agenda) # 1 /\ agenda' # <<>> /\ Final' = Final /\ Final.op # "reconcile"
    BY <1>2, <2>1 DEF ApplySound
  <2>3. Final.op = "positions" => \A s \in Symbols : Flat(s)'
    BY <1>3, <2>1 DEF ApplySound
  <2>4. ASSUME Final.op = "strays" PROVE StraysSound'
    <3>1. StraysSound
      BY <2>1, <2>4 DEF ApplySound
    <3>2. \A s \in Symbols : Flat(s)'
      BY <1>3, <3>1 DEF StraysSound
    <3>3. \A p \in Held' : Turning(p)' \/ (Agrees(p)' /\ Covered(p)')
      BY <1>3, <1>4, <1>7, <3>1 DEF StraysSound
    <3>4. \A a \in algos' : a \in Recorded' \/ a \notin Final'.known
      BY <1>1, <1>3, <1>5, <2>2, <3>1 DEF StraysSound
    <3> QED BY <3>2, <3>3, <3>4 DEF StraysSound
  <2>5. ASSUME Final.op = "clear" PROVE ClearSound'
    <3>1. ClearSound
      BY <2>1, <2>5 DEF ApplySound
    <3> QED BY <1>1, <1>3, <1>6, <3>1 DEF ClearSound
  <2> QED BY <2>1, <2>2, <2>3, <2>4, <2>5 DEF ApplySound
<1> QED BY <1>8, <1>9

\* Orders sent while a reconcile looks at its positions close one, and the
\* alarm is behind them.
LEMMA ClosingKept ==
    ASSUME TypeOK, ShapeSound, ClosingSound, agenda # <<>>, now.op \notin EndOps,
           NEW steps \in Seq(StepType), Follows(steps), agenda' = steps \o Tail(agenda),
           halts \subseteq halts',
           now.op = "emergency" => \E x \in StepsIn(steps) : x.op = "alarm",
           now.op = "alarm" => Manual \in halts'
    PROVE  ClosingSound' /\ (Closing => Closing' \/ Manual \in halts')
<1>1. \A x \in StepsIn(steps) : Fits(x)
  BY DEF Follows, StepsIn
<1>2. Todo = {now} \cup Later /\ Todo' = StepsIn(steps) \cup Later
  BY AgendaParts, AgendaThen
<1>3. Closing => Closing' \/ Manual \in halts'
  <2>1. now.op = "emergency" => Closing'
    BY ClosingThen
  <2>2. now.op \notin {"emergency", "alarm"} => (Closing => Closing')
    BY ClosingThen
  <2> QED BY <2>1, <2>2
<1>4. ASSUME agenda' # <<>>, Final'.op = "strays", NEW x \in Todo', x.op \in CloseOps
      PROVE  Closing' \/ Manual \in halts'
  <2>1. Len(agenda) # 1
    <3> SUFFICES ASSUME Len(agenda) = 1 PROVE FALSE
      OBVIOUS
    <3>1. agenda' = steps /\ Len(steps) \in Nat
      BY AgendaThen
    <3>2. Len(steps) \in 1..Len(steps)
      BY <1>4, <3>1, EmptySeq
    <3>3. Final' \in StepsIn(steps)
      BY <3>1, <3>2 DEF Final, StepsIn
    <3> QED BY <1>1, <1>4, <3>3 DEF Fits, EndOps
  <2>2. Final.op = "strays"
    BY <1>4, <2>1, AgendaThen
  <2>3. now.op \in TurnOps
    BY <1>2, <2>2 DEF ShapeSound
  <2>4. CASE x \in Later
    BY <1>2, <1>3, <1>4, <2>2, <2>4 DEF ClosingSound
  <2>5. CASE x \in StepsIn(steps) /\ now.op = "emergency"
    BY <2>5, ClosingThen
  <2>6. CASE x \in StepsIn(steps) /\ now.op \in CloseOps
    BY <1>2, <1>3, <2>2, <2>6 DEF ClosingSound
  <2> QED BY <1>1, <1>2, <1>4, <2>3, <2>4, <2>5, <2>6 DEF Fits
<1> QED BY <1>3, <1>4 DEF ClosingSound

\* A segment that closes no position, and protects those that are not, keeps
\* all of the invariant but the calm.
LEMMA AsideSafe ==
    ASSUME SettledInv, TypeOK', Segment, Held' = Held, OwnStops',
           \A t \in Trades : pos'[t].qty = pos[t].qty,
           \A t \in Held : pos[t].prot \/ Protecting(t) =>
             pos'[t].prot \/ Protecting(t)' \/ Closing' \/ Manual \in halts',
           NEW steps \in Seq(StepType), Follows(steps), agenda' = steps \o Tail(agenda),
           \A x \in StepsIn(steps) : StepHeld(x)',
           now.op \notin EndOps,
           now.op = "emergency" => \E x \in StepsIn(steps) : x.op = "alarm",
           now.op = "alarm" => Manual \in halts',
           CalmSound'
    PROVE  SettledInv'
<1> agenda # <<>> /\ TypeOK /\ ShapeSound /\ HeldSound /\ ClosingSound
  BY DEF Segment, SettledInv
<1>1. LockSound' /\ SnapshotFresh'
  BY SegmentLock, SegmentFresh DEF SettledInv
<1>2. ShapeSound'
  BY ShapeThen DEF Segment
<1>3. ClosingSound' /\ (Closing => Closing' \/ Manual \in halts')
  BY ClosingKept DEF Segment
<1>4. HeldSound'
  <2>1. \A p \in Trades : Closable(p) => Closable(p)'
    BY DEF Closable
  <2>2. OneHeld'
    BY DEF OneHeld, HeldSound
  <2>3. \A x \in Later : x.op = "position" => x.trade \in Held'
    BY AgendaParts DEF HeldSound, StepHeld
  <2>4. \A x \in Later : StepHeld(x)'
    BY <2>1, <2>3, LaterHeld DEF Segment
  <2> QED BY <2>2, <2>4, HeldThen
<1>5. ProtSound'
  <2>1. Held \subseteq Trades
    BY DEF Held
  <2> QED BY <1>3, <2>1 DEF ProtSound, SettledInv, Segment
<1> QED BY <1>1, <1>2, <1>3, <1>4, <1>5 DEF SettledInv

\* A segment that is aside of the books keeps the invariant.
LEMMA Aside ==
    ASSUME SettledInv, TypeOK', Segment, SameBooks,
           NEW steps \in Seq(StepType), Follows(steps), agenda' = steps \o Tail(agenda),
           \A x \in StepsIn(steps) : StepHeld(x)',
           now.op \notin EndOps \cup {"protect", "place_stop", "position", "alarm"},
           now.op = "emergency" => \E x \in StepsIn(steps) : x.op = "alarm",
           now.op = "cancel_algo" => now.algo \notin algos \/ ~Calm'
    PROVE  SettledInv'
<1> agenda # <<>> /\ TypeOK /\ CalmSound /\ HeldSound
  BY DEF Segment, SettledInv
<1>1. Doomed => Doomed'
  <2>1. now.op # "emergency" => (Doomed => Doomed')
    BY ClosingThen DEF EndOps
  <2>2. now.op = "emergency" => Doomed'
    BY ClosingThen
  <2> QED BY <2>1, <2>2
<1>2. CalmSound'
  BY <1>1, CalmAside
<1>3. OwnStops' /\ Held' = Held /\ Held \subseteq Trades
  BY DEF OwnStops, HeldSound, SameBooks, Held
<1>4. \A t \in Trades : pos'[t].qty = pos[t].qty /\ pos'[t].prot = pos[t].prot
  BY DEF SameBooks
<1>5. \A t \in Held : ~Protecting(t)
  BY DEF Protecting
<1> QED BY <1>2, <1>3, <1>4, <1>5, AsideSafe

\* A segment that gives up what was to do keeps the invariant, if it has
\* halted the program or ends in an exception.
LEMMA Abandon ==
    ASSUME SettledInv, TypeOK', Segment, SameBooks, ShapeSound',
           \A x \in Todo' : StepHeld(x)',
           Manual \in halts' \/ (Doomed' /\ ~Closing /\ Final'.op # "strays"),
           now.op \notin {"protect", "place_stop"}
    PROVE  SettledInv'
<1>1. LockSound' /\ SnapshotFresh'
  BY SegmentLock, SegmentFresh DEF SettledInv
<1>2. HeldSound'
  BY DEF HeldSound, SettledInv, OneHeld, OwnStops, SameBooks
<1>3. ProtSound'
  <2>1. Held \subseteq Trades /\ Held' = Held /\ \A p : ~Protecting(p)
    BY DEF Held, SameBooks, Protecting
  <2> QED BY <2>1 DEF ProtSound, SettledInv, Segment, SameBooks
<1>4. CalmSound'
  BY DEF CalmSound, Calm
<1>5. ClosingSound'
  BY DEF ClosingSound
<1> QED BY <1>1, <1>2, <1>3, <1>4, <1>5 DEF SettledInv

-----------------------------------------------------------------------------
\* What is known of the due step.
LEMMA NowFacts ==
    ASSUME SettledInv, agenda # <<>>
    PROVE  /\ now \in StepsOf(owner) /\ now \in StepType /\ now \in Todo /\ StepHeld(now)
           /\ now.op \in EndOps => Len(agenda) = 1
           /\ now.op \in SnapshotOps \cup {"cancel_order"} => Reconciling
           /\ now.op = "flat" =>
                Final.op = "positions" /\ taken.short[SymbolOf[now.trade]] = 0
           /\ (now.op \in AskOps /\ IsEntry(now.order)) \/ now.op = "configure" =>
                owner = "signal"
           /\ now.op \in {"position", "iterate"} =>
                /\ Final.op = "strays" /\ Len(agenda) # 1
                /\ \A x \in Later : x.op \in {"position", "iterate", "strays"}
           /\ now.op \in TradedOps =>
                \A x \in Later : x.op = "position" => x.trade # now.trade
<1>1. /\ TypeOK /\ now = agenda[1] /\ Len(agenda) \in Nat \ {0} /\ now \in Todo
      /\ \A x \in Todo : x \in StepsOf(owner)
      /\ Len(agenda) = 1 => Final = now
  BY AgendaParts DEF SettledInv
<1>2. StepPlaced(1)
  BY <1>1 DEF SettledInv, ShapeSound
<1>3. \A x \in Later : \E j \in 2..Len(agenda) : x = agenda[j]
  BY DEF Later
<1>4. StepHeld(now)
  BY <1>1 DEF SettledInv, HeldSound
<1>5. now \in StepType
  BY <1>1 DEF StepsOf
<1> QED
  BY <1>1, <1>2, <1>3, <1>4, <1>5 DEF StepPlaced

\* The due step, run on as another.
LEMMA NowAs ==
    ASSUME SettledInv, agenda # <<>>, NEW op \in Ops
    PROVE  LET x == [now EXCEPT !.op = op]
           IN /\ x \in StepType /\ x.op = op /\ x.order = now.order /\ x.trade = now.trade
              /\ x.force = now.force /\ x.kept = now.kept /\ x.old = now.old
BY NowFacts DEF StepType

\* A segment that neither hears of the account nor changes its stops.
LEMMA QuietSegment ==
    ASSUME agenda # <<>>, halts \subseteq halts',
           UNCHANGED <<owner, snap, up, link, crashes, short, algos, stream>>
    PROVE  Segment
BY DEF Segment, Hint

\* Where no position changes the books stay the same.
LEMMA SamePos ==
    ASSUME UNCHANGED pos
    PROVE  SameBooks
BY DEF SameBooks, Held

\* An exit that failed opens its position again.
LEMMA Reopened ==
    ASSUME TypeOK, NEW p \in Held, pos' = [pos EXCEPT ![p].st = "open"]
    PROVE  SameBooks
<1>1. p \in Trades /\ pos \in [Trades -> PositionRow]
  BY DEF Held, TypeOK, LedgerTypeOK
<1>2. \A t \in Trades : pos'[t] = IF t = p THEN [pos[p] EXCEPT !.st = "open"] ELSE pos[t]
  BY <1>1
<1>3. \A t \in Trades :
        /\ pos'[t].qty = pos[t].qty /\ pos'[t].stop = pos[t].stop
        /\ pos'[t].trail = pos[t].trail /\ pos'[t].prot = pos[t].prot
        /\ t # p => pos'[t].st = pos[t].st
  BY <1>1, <1>2 DEF PositionRow
<1>4. pos'[p].st = "open"
  BY <1>1, <1>2 DEF PositionRow
<1>5. Held' = Held
  BY <1>3, <1>4 DEF Held
<1> QED BY <1>3, <1>5 DEF SameBooks

\* Steps made from a name, and an order or a position.
LEMMA StepParts ==
    ASSUME NEW op \in Ops, NEW o \in OrderIds, NEW p \in Trades
    PROVE  /\ OrderStep(op, o, p) \in StepType /\ OrderStep(op, o, p).op = op
           /\ OrderStep(op, o, p).order = o /\ OrderStep(op, o, p).trade = p
           /\ Step(op) \in StepType /\ Step(op).op = op
BY DEF OrderStep, Step, StepType

\* The fields of a step about a trade,
LEMMA TradeParts ==
    ASSUME NEW op \in Ops, NEW p \in Trades
    PROVE  /\ TradeStep(op, p) \in StepType /\ TradeStep(op, p).op = op
           /\ TradeStep(op, p).trade = p /\ TradeStep(op, p).force = FALSE
BY DEF TradeStep, Step, StepType

\* of one that forces a new stop,
LEMMA ForceParts ==
    ASSUME NEW op \in Ops, NEW p \in Trades, NEW force \in BOOLEAN
    PROVE  /\ [TradeStep(op, p) EXCEPT !.force = force] \in StepType
           /\ [TradeStep(op, p) EXCEPT !.force = force].op = op
           /\ [TradeStep(op, p) EXCEPT !.force = force].trade = p
           /\ [TradeStep(op, p) EXCEPT !.force = force].force = force
BY DEF TradeStep, Step, StepType

\* of ensure_structure_protection,
LEMMA ProtectParts ==
    ASSUME NEW p \in Trades, NEW force \in BOOLEAN
    PROVE  /\ Protect(p, force) \in StepType /\ Protect(p, force).op = "protect"
           /\ Protect(p, force).trade = p /\ Protect(p, force).force = force
<1>1. "protect" \in Ops
  BY DEF Ops, TradeOps
<1>2. /\ [TradeStep("protect", p) EXCEPT !.force = force] \in StepType
      /\ [TradeStep("protect", p) EXCEPT !.force = force].op = "protect"
      /\ [TradeStep("protect", p) EXCEPT !.force = force].trade = p
      /\ [TradeStep("protect", p) EXCEPT !.force = force].force = force
  BY <1>1, ForceParts
<1> QED BY <1>2 DEF Protect

\* and of update_trail.
LEMMA RetrailParts ==
    ASSUME NEW p \in Trades
    PROVE  /\ Retrail(p) \in StepType /\ Retrail(p).op = "trail" /\ Retrail(p).trade = p
<1>1. "trail" \in Ops
  BY DEF Ops, TradeOps
<1>2. /\ [TradeStep("trail", p) EXCEPT !.force = TRUE] \in StepType
      /\ [TradeStep("trail", p) EXCEPT !.force = TRUE].op = "trail"
      /\ [TradeStep("trail", p) EXCEPT !.force = TRUE].trade = p
  BY <1>1, ForceParts, ZenonT(40)
<1> QED BY <1>2 DEF Retrail

-----------------------------------------------------------------------------
(***************************************************************************)
(* Placing an order and learning what became of it.                        *)
(***************************************************************************)

\* The entry is abandoned: the order is cancelled, the symbol flattened.
LEMMA AbortShape ==
    ASSUME TypeOK', NEW o \in OrderIds, ~Reconciling', agenda' = Abort(o)
    PROVE  ShapeSound'
<1>1. o.trade \in Trades
  BY TradeOfOrder
<1>2. \A i \in 1..Len(agenda') : agenda'[i].op \in {"abort_cancel", "abort_query"}
  BY <1>1, StepParts DEF Abort, Ops, OrderOps
<1> QED
  BY <1>2, ShapeStart
  DEF EndOps, SnapshotOps, Trailing, FirstOps, AskOps

\* What abort_pending leaves to do, once it has halted.
LEMMA AbortHeld ==
    ASSUME NEW o \in OrderIds, Manual \in halts', agenda' = Abort(o)
    PROVE  \A x \in Todo' : StepHeld(x)'
<1>1. o.trade \in Trades
  BY TradeOfOrder
<1>2. \A x \in Todo' : x.op \in {"abort_cancel", "abort_query"}
  BY <1>1, StepParts DEF Abort, Ops, OrderOps, Todo, StepsIn
<1> QED BY <1>2 DEF StepHeld, AskOps

\* Margin mode and leverage, before an entry is sent.
LEMMA ConfigureSettled ==
    ASSUME SettledInv, TypeOK', Configure
    PROVE  SettledInv'
<1>1. agenda # <<>> /\ now.op = "configure" /\ TypeOK
  BY DEF Configure, Due, SettledInv
<1>2. Segment /\ SameBooks
  BY <1>1, QuietSegment, SamePos DEF Configure, keepMarket, keepStream
<1>3. owner = "signal"
  BY <1>1, NowFacts
<1>4. CASE Then(<<>>)
  <2>1. \A x \in StepsIn(<<>>) : FALSE
    BY DEF StepsIn
  <2>2. agenda' = <<>> \o Tail(agenda) /\ <<>> \in Seq(StepType)
    BY <1>4, NoSteps DEF Then
  <2> QED BY <1>1, <1>2, <2>1, <2>2, FollowNone, Aside DEF EndOps
<1>5. CASE Return(<<>>) /\ Manual \in halts'
  <2>1. agenda' = <<>> /\ \A x \in Todo' : FALSE
    BY <1>5 DEF Return, Todo, StepsIn
  <2>2. ShapeSound'
    BY <1>2, <1>3, <2>1, ShapeStart DEF Reconciling, Reconcilers, Segment
  <2> QED BY <1>1, <1>2, <1>5, <2>1, <2>2, Abandon
<1> QED BY <1>4, <1>5 DEF Configure

\* What may be closed stays so while the books are the same.
LEMMA ClosableKept ==
    ASSUME SameBooks
    PROVE  \A p \in Trades : Closable(p) => Closable(p)'
BY DEF SameBooks, Closable

\* A segment aside of the books that leaves nothing behind, or one step.
LEMMA AsideDone ==
    ASSUME SettledInv, TypeOK', Segment, SameBooks, Then(<<>>),
           now.op \notin EndOps \cup {"protect", "place_stop", "position", "alarm", "emergency"},
           now.op = "cancel_algo" => now.algo \notin algos \/ ~Calm'
    PROVE  SettledInv'
<1>1. \A x \in StepsIn(<<>>) : FALSE
  BY DEF StepsIn
<1>2. agenda' = <<>> \o Tail(agenda) /\ <<>> \in Seq(StepType)
  BY NoSteps DEF Then
<1> QED BY <1>1, <1>2, FollowNone, Aside

\* A segment that leaves the books alone and calls one more,
LEMMA AsideOne ==
    ASSUME SettledInv, TypeOK', Segment, SameBooks, NEW x \in StepType, Then(<<x>>),
           Fits(x), StepHeld(x)',
           now.op \notin EndOps \cup {"protect", "place_stop", "position", "alarm", "emergency",
                                      "cancel_algo"}
    PROVE  SettledInv'
<1>1. \A y \in StepsIn(<<x>>) : y = x
  BY DEF StepsIn
<1>2. agenda' = <<x>> \o Tail(agenda) /\ <<x>> \in Seq(StepType)
  BY OneStep DEF Then
<1> QED BY <1>1, <1>2, FollowOne, Aside

\* or two more.
LEMMA AsideTwo ==
    ASSUME SettledInv, TypeOK', Segment, SameBooks, NEW x \in StepType, NEW y \in StepType,
           Then(<<x, y>>), Fits(x), Fits(y), Trailing(y), StepHeld(x)', StepHeld(y)',
           now.op \notin EndOps \cup {"protect", "place_stop", "position", "alarm", "cancel_algo"},
           now.op = "emergency" => y.op = "alarm"
    PROVE  SettledInv'
<1>1. /\ \A z \in StepsIn(<<x, y>>) : z = x \/ z = y
      /\ y \in StepsIn(<<x, y>>)
  <2>1. y = <<x, y>>[2] /\ 2 \in 1..Len(<<x, y>>)
    OBVIOUS
  <2>2. \A z \in StepsIn(<<x, y>>) : z = x \/ z = y
    BY DEF StepsIn
  <2> QED BY <2>1, <2>2 DEF StepsIn
<1>2. agenda' = <<x, y>> \o Tail(agenda) /\ <<x, y>> \in Seq(StepType)
  BY TwoSteps DEF Then
<1> QED BY <1>1, <1>2, FollowTwo, Aside

\* Placing an order and asking for it go on with the same order and position.
LEMMA AskAgain ==
    ASSUME SettledInv, agenda # <<>>, now.op \in AskOps, NEW op \in AskOps,
           op = "settle" \/ (op = "resolve" /\ now.order.role # "uf"), now.op = "submit",
           SameBooks
    PROVE  \E x \in StepType : x = [now EXCEPT !.op = op] /\ Fits(x) /\ StepHeld(x)'
<1> PICK x : x = [now EXCEPT !.op = op]
  OBVIOUS
<1>1. /\ x \in StepType /\ x.op = op /\ x.order = now.order /\ x.trade = now.trade
  BY NowAs DEF AskOps, Ops, PlacementOps
<1>2. now.trade \in Trades /\ StepHeld(now)
  BY PlacementNow, NowFacts DEF AskOps, PlacementOps, SettledInv
<1>3. IsEntry(now.order) => owner = "signal"
  BY NowFacts
<1>4. Fits(x)
  BY <1>1, <1>3
  DEF Fits, CloseOps, AskOps, EndOps, SnapshotOps, TradedOps, TradeOps, PlacementOps, FlatOps, TurnOps
<1>5. StepHeld(x)'
  <2>1. IsExit(now.order) => Closable(now.trade) /\ (op = "settle" => now.trade \in Held')
    BY <1>2 DEF StepHeld, AskOps, Closable, SameBooks
  <2>2. now.order.role = "em" => Closable(now.trade)
    BY <1>2 DEF StepHeld
  <2>3. op = "resolve" /\ ~IsEntry(now.order) => Closable(now.trade)
    <3>1. now.order.role \in {"en", "ex", "px", "em", "uf"}
      BY PlacementNow DEF SettledInv, PlacementOps, OrderIds, SignalIds, TimedIds
    <3> QED BY <2>1, <2>2, <3>1 DEF IsEntry, IsExit
  <2> QED BY <1>1, <1>2, <2>1, <2>2, <2>3, ClosableKept DEF StepHeld, AskOps
<1> QED BY <1>1, <1>4, <1>5

\* An exception is all that is left to do.
LEMMA RaiseOnly ==
    ASSUME TypeOK', Return(<<Step("raise")>>)
    PROVE  ShapeSound' /\ Doomed' /\ Final'.op = "raise" /\ \A x \in Todo' : StepHeld(x)'
<1>1. Step("raise").op = "raise"
  BY DEF Step
<1> PICK e : e = Step("raise")
  OBVIOUS
<1>2. agenda' = <<e>> /\ e.op = "raise"
  BY <1>1 DEF Return
<1>3. Len(agenda') = 1 /\ agenda'[1] = e /\ Todo' = {e} /\ Final' = e
  BY <1>2 DEF Todo, StepsIn, Final
<1>4. StepPlaced(1)'
  BY <1>2, <1>3
  DEF StepPlaced, EndOps, FirstOps, SnapshotOps, AskOps, TradedOps, TradeOps, PlacementOps
<1>5. ShapeSound'
  <2>1. ASSUME NEW i \in 1..Len(agenda') PROVE StepPlaced(i)'
    <3>1. i = 1
      BY <1>3
    <3> QED BY <1>4, <3>1
  <2> QED BY <1>2, <1>3, <2>1 DEF ShapeSound, EndOps
<1>6. Doomed'
  BY <1>2, <1>3 DEF Doomed
<1>7. \A x \in Todo' : StepHeld(x)'
  BY <1>2, <1>3 DEF StepHeld, AskOps
<1> QED BY <1>2, <1>3, <1>5, <1>6, <1>7

\* place_order: accepted, refused, or without an answer.
LEMMA SubmitSettled ==
    ASSUME SettledInv, TypeOK', SubmitAccepted \/ SubmitRefused \/ SubmitTimedOut
    PROVE  SettledInv'
<1> DEFINE o == now.order
           p == now.trade
<1>1. agenda # <<>> /\ now.op = "submit" /\ TypeOK
  BY DEF SubmitAccepted, SubmitRefused, SubmitTimedOut, Due, SettledInv
<1>2. p \in Trades /\ o \in OrderIds /\ StepHeld(now)
  BY <1>1, PlacementNow, NowFacts DEF PlacementOps
<1>3. Segment
  BY <1>1, QuietSegment
  DEF SubmitAccepted, SubmitRefused, SubmitTimedOut, keepTask, keepStream, keepMarket
<1>4. CASE SubmitAccepted
  <2>1. SameBooks
    BY <1>4, SamePos DEF SubmitAccepted
  <2>2. Then(<<[now EXCEPT !.op = "settle"]>>)
    BY <1>4 DEF SubmitAccepted
  <2>3. PICK x \in StepType : x = [now EXCEPT !.op = "settle"] /\ Fits(x) /\ StepHeld(x)'
    BY <1>1, <2>1, AskAgain DEF AskOps
  <2> QED BY <1>1, <1>3, <2>1, <2>2, <2>3, AsideOne DEF EndOps
<1>5. CASE SubmitRefused
  <2>1. CASE UNCHANGED pos
    BY <1>1, <1>3, <1>5, <2>1, SamePos, AsideDone DEF SubmitRefused, EndOps
  <2>2. CASE (IsExit(o) \/ o.role = "em") /\ pos[p].qty > 0 /\ pos' = [pos EXCEPT ![p].st = "open"]
    <3>1. p \in Held
      BY <1>1, <1>2, <2>2 DEF StepHeld, AskOps, Closable
    <3>2. SameBooks
      BY <1>1, <2>2, <3>1, Reopened
    <3> QED BY <1>1, <1>3, <1>5, <3>2, AsideDone DEF SubmitRefused, EndOps
  <2> QED BY <1>5, <2>1, <2>2 DEF SubmitRefused
<1>6. CASE SubmitTimedOut
  <2>1. SameBooks
    BY <1>6, SamePos DEF SubmitTimedOut
  <2>2. CASE Then(<<>>)
    BY <1>1, <1>3, <2>1, <2>2, AsideDone DEF EndOps
  <2>3. CASE o.role # "uf" /\ Then(<<[now EXCEPT !.op = "resolve"]>>)
    <3>1. PICK x \in StepType : x = [now EXCEPT !.op = "resolve"] /\ Fits(x) /\ StepHeld(x)'
      BY <1>1, <2>1, <2>3, AskAgain DEF AskOps
    <3> QED BY <1>1, <1>3, <2>1, <2>3, <3>1, AsideOne DEF EndOps
  <2> QED BY <1>6, <2>2, <2>3 DEF SubmitTimedOut
<1> QED BY <1>4, <1>5, <1>6

\* What follows a settled order is about the same order and position.
LEMMA SettledSteps ==
    ASSUME SettledInv, TypeOK', Segment, SameBooks, now.op = "settle", Then(Settled(now))
    PROVE  SettledInv'
<1> PICK x : x = [now EXCEPT !.op = IF IsEntry(now.order) THEN "entry_fill" ELSE "exit_fill"]
  OBVIOUS
<1>1. agenda # <<>> /\ TypeOK
  BY DEF Segment, SettledInv
<1>2. now.trade \in Trades /\ now.order \in OrderIds /\ StepHeld(now)
  BY <1>1, PlacementNow, NowFacts DEF PlacementOps
<1>3. IsEntry(now.order) => owner = "signal"
  BY <1>1, NowFacts DEF AskOps
<1>4. CASE now.order.role = "uf"
  BY <1>4, AsideDone DEF Settled, EndOps
<1>5. CASE now.order.role # "uf"
  <2>1. Then(<<x>>)
    BY <1>5 DEF Settled
  <2>2. /\ x \in StepType /\ x.order = now.order /\ x.trade = now.trade
        /\ x.op = IF IsEntry(now.order) THEN "entry_fill" ELSE "exit_fill"
    <3>1. PICK op \in Ops : op = IF IsEntry(now.order) THEN "entry_fill" ELSE "exit_fill"
      BY DEF Ops, OrderOps, PlacementOps
    <3>2. x = [now EXCEPT !.op = op]
      BY <3>1
    <3> QED BY <1>1, <3>1, <3>2, NowAs
  <2>3. ~IsEntry(now.order) => Closable(now.trade)
    <3>1. now.order.role \in {"en", "ex", "px", "em", "uf"}
      BY <1>2 DEF OrderIds, SignalIds, TimedIds
    <3> QED BY <1>2, <1>5, <3>1 DEF StepHeld, AskOps, IsEntry, IsExit, Closable
  <2>4. Fits(x)
    BY <1>3, <2>2
    DEF Fits, CloseOps, AskOps, EndOps, SnapshotOps, TradedOps, TradeOps, PlacementOps, FlatOps, TurnOps,
        Reconcilers
  <2>5. StepHeld(x)'
    BY <1>2, <2>2, <2>3, ClosableKept DEF StepHeld, AskOps
  <2> QED BY <2>1, <2>2, <2>4, <2>5, AsideOne DEF EndOps
<1> QED BY <1>4, <1>5

\* _settle_order: the final answer, or none in time.
LEMMA SettleSettled ==
    ASSUME SettledInv, TypeOK', SettleKnown \/ SettleTimedOut
    PROVE  SettledInv'
<1> DEFINE o == now.order
           p == now.trade
<1>1. agenda # <<>> /\ now.op = "settle" /\ TypeOK
  BY DEF SettleKnown, SettleTimedOut, Due, SettledInv
<1>2. p \in Trades /\ o \in OrderIds /\ StepHeld(now)
  BY <1>1, PlacementNow, NowFacts DEF PlacementOps
<1>3. Segment
  BY <1>1, QuietSegment
  DEF SettleKnown, SettleTimedOut, keepTask, keepStream, keepMarket, account
<1>4. CASE SettleKnown
  BY <1>1, <1>3, <1>4, SamePos, SettledSteps DEF SettleKnown
<1>5. CASE SettleTimedOut
  <2>1. CASE IsEntry(o) /\ Return(Abort(o)) /\ Manual \in halts' /\ UNCHANGED pos
    <3>1. owner = "signal"
      BY <1>1, <2>1, NowFacts DEF AskOps
    <3>2. SameBooks /\ agenda' = Abort(o) /\ ~Reconciling'
      BY <1>3, <2>1, <3>1, SamePos DEF Return, Reconciling, Reconcilers, Segment
    <3>3. ShapeSound' /\ \A x \in Todo' : StepHeld(x)'
      <4> HIDE DEF o
      <4>1. PICK e \in OrderIds : e = o
        BY <1>2
      <4> QED BY <2>1, <3>2, <4>1, AbortShape, AbortHeld
    <3> QED BY <1>1, <1>3, <2>1, <3>2, <3>3, Abandon
  <2>2. CASE IsExit(o) /\ Then(<<>>) /\ pos' = [pos EXCEPT ![p].st = "open"]
    <3>1. p \in Held
      BY <1>1, <1>2, <2>2 DEF StepHeld
    <3> QED BY <1>1, <1>3, <2>2, <3>1, Reopened, AsideDone DEF EndOps
  <2>3. CASE Then(Settled(now)) /\ UNCHANGED pos
    BY <1>1, <1>3, <2>3, SamePos, SettledSteps
  <2> QED BY <1>5, <2>1, <2>2, <2>3 DEF SettleTimedOut
<1> QED BY <1>4, <1>5

\* _resolve_unknown: the order is found, or it is not.
LEMMA ResolveSettled ==
    ASSUME SettledInv, TypeOK', ResolveFound \/ ResolveFailed
    PROVE  SettledInv'
<1> DEFINE o == now.order
           p == now.trade
<1>1. agenda # <<>> /\ now.op = "resolve" /\ TypeOK
  BY DEF ResolveFound, ResolveFailed, Due, SettledInv
<1>2. p \in Trades /\ o \in OrderIds /\ StepHeld(now)
  BY <1>1, PlacementNow, NowFacts DEF PlacementOps
<1>3. Segment /\ SameBooks
  BY <1>1, QuietSegment, SamePos
  DEF ResolveFound, ResolveFailed, keepTask, keepStream, keepMarket, account
<1>4. IsEntry(o) => owner = "signal"
  BY <1>1, NowFacts DEF AskOps
<1>5. CASE ResolveFound
  <2>1. \A op \in {"settle", "pending_check", "exit_fill", "exit_check"} :
          LET x == [now EXCEPT !.op = op]
          IN x \in StepType /\ x.op = op /\ x.order = o /\ x.trade = p
    BY <1>1, NowAs DEF Ops, PlacementOps
  <2>2. CASE IsEntry(o)
    <3>1. PICK x \in StepType, y \in StepType :
            /\ x = [now EXCEPT !.op = "settle"] /\ y = [now EXCEPT !.op = "pending_check"]
            /\ x.op = "settle" /\ x.order = o /\ x.trade = p
            /\ y.op = "pending_check" /\ y.order = o /\ y.trade = p
      BY <2>1
    <3>2. Then(<<x, y>>)
      BY <1>5, <2>2, <3>1 DEF ResolveFound
    <3>3. o.role = "en"
      BY <2>2 DEF IsEntry
    <3>4. Fits(x) /\ Fits(y) /\ Trailing(y)
      BY <1>1, <1>4, <2>2, <3>1
      DEF Fits, CloseOps, AskOps, EndOps, SnapshotOps, TradedOps, TradeOps, PlacementOps, FlatOps,
          TurnOps, Trailing, FirstOps, Reconcilers
    <3>5. StepHeld(x)' /\ StepHeld(y)'
      BY <3>1, <3>3 DEF StepHeld, AskOps, IsExit
    <3> QED BY <1>1, <1>3, <3>2, <3>4, <3>5, AsideTwo DEF EndOps
  <2>3. CASE ~IsEntry(o)
    <3>1. PICK x \in StepType, y \in StepType :
            /\ x = [now EXCEPT !.op = "exit_fill"] /\ y = [now EXCEPT !.op = "exit_check"]
            /\ x.op = "exit_fill" /\ x.order = o /\ x.trade = p
            /\ y.op = "exit_check" /\ y.order = o /\ y.trade = p
      BY <2>1
    <3>2. Then(<<x, y>>)
      BY <1>5, <2>3, <3>1 DEF ResolveFound
    <3>3. Fits(x) /\ Fits(y) /\ Trailing(y)
      BY <1>1, <3>1
      DEF Fits, CloseOps, AskOps, EndOps, SnapshotOps, TradedOps, TradeOps, PlacementOps, FlatOps,
          TurnOps, Trailing, FirstOps
    <3>4. Closable(p)
      BY <1>1, <1>2, <2>3 DEF StepHeld, AskOps
    <3>5. StepHeld(x)' /\ StepHeld(y)'
      BY <1>2, <1>3, <3>1, <3>4, ClosableKept DEF StepHeld, AskOps
    <3> QED BY <1>1, <1>3, <3>2, <3>3, <3>5, AsideTwo DEF EndOps
  <2> QED BY <2>2, <2>3
<1>6. CASE ResolveFailed
  <2>1. CASE IsEntry(o) /\ Return(Abort(o)) /\ Manual \in halts'
    <3>1. agenda' = Abort(o) /\ ~Reconciling'
      BY <1>3, <1>4, <2>1 DEF Return, Reconciling, Reconcilers, Segment
    <3>2. ShapeSound' /\ \A x \in Todo' : StepHeld(x)'
      <4> HIDE DEF o
      <4>1. PICK e \in OrderIds : e = o
        BY <1>2
      <4> QED BY <2>1, <3>1, <4>1, AbortShape, AbortHeld
    <3> QED BY <1>1, <1>3, <2>1, <3>2, Abandon
  <2>2. CASE Then(<<>>)
    BY <1>1, <1>3, <2>2, AsideDone DEF EndOps
  <2> QED BY <1>6, <2>1, <2>2 DEF ResolveFailed
<1> QED BY <1>5, <1>6

\* What an entry or an exit looks at once its order has ended.
LEMMA CheckSettled ==
    ASSUME SettledInv, TypeOK', PendingCheck \/ ExitCheck
    PROVE  SettledInv'
<1> DEFINE p == now.trade
<1>1. agenda # <<>> /\ now.op \in {"pending_check", "exit_check"} /\ TypeOK
  BY DEF PendingCheck, ExitCheck, Due, SettledInv
<1>2. Segment /\ Then(<<>>)
  BY <1>1, QuietSegment DEF PendingCheck, ExitCheck, keepTask, account
<1>3. SameBooks
  <2>1. CASE UNCHANGED pos
    BY <2>1, SamePos
  <2>2. CASE ExitCheck /\ pos[p].qty > 0 /\ pos' = [pos EXCEPT ![p].st = "open"]
    <3>1. p \in Held
      BY <1>1, <2>2, NowFacts DEF ExitCheck, Due, StepHeld, Closable
    <3> QED BY <1>1, <2>2, <3>1, Reopened
  <2> QED BY <2>1, <2>2 DEF PendingCheck, ExitCheck
<1> QED BY <1>1, <1>2, <1>3, AsideDone DEF EndOps

\* The steps of abort_pending: cancel, query, flatten.
LEMMA AbortSettled ==
    ASSUME SettledInv, TypeOK', AbortCancel \/ AbortQuery \/ FlattenCheck
    PROVE  SettledInv'
<1> DEFINE o == now.order
<1>1. agenda # <<>> /\ now.op \in {"abort_cancel", "abort_query", "flatten_check"} /\ TypeOK
  BY DEF AbortCancel, AbortQuery, FlattenCheck, Due, SettledInv
<1>2. o \in OrderIds /\ o.trade \in Trades /\ Manual \in halts
  BY <1>1, OrderNow, TradeOfOrder, NowFacts DEF OrderOps, StepHeld
<1>3. SameBooks /\ halts' = halts
  BY SamePos DEF AbortCancel, AbortQuery, FlattenCheck
<1>4. CASE AbortCancel
  <2>1. Hint => Hint'
    <3>1. CASE CancelWorking(o)
      BY <1>1, <1>2, <3>1, CancelWorkingHint
    <3>2. CASE UNCHANGED stream
      BY <3>2 DEF Hint
    <3> QED BY <1>4, <3>1, <3>2 DEF AbortCancel, account
  <2>2. Segment
    BY <1>1, <1>4, <2>1 DEF AbortCancel, Segment, keepTask, account
  <2> QED BY <1>1, <1>3, <1>4, <2>2, AsideDone DEF AbortCancel, EndOps
<1>5. CASE AbortQuery
  <2>1. Segment
    BY <1>1, <1>5, QuietSegment DEF AbortQuery, keepMarket, keepStream
  <2>2. CASE Then(<<>>)
    BY <1>1, <1>3, <2>1, <2>2, AsideDone DEF EndOps
  <2>3. ASSUME NEW u \in Fresh(o.trade, "uf"),
               Then(<<OrderStep("submit", u, o.trade),
                      [OrderStep("flatten_check", o, o.trade) EXCEPT !.other = u]>>)
        PROVE  SettledInv'
    <3>1. u \in OrderIds /\ u.role = "uf"
      BY FreshTypes DEF Fresh
    <3> HIDE DEF o
    <3>2. "submit" \in Ops /\ "flatten_check" \in Ops
      BY DEF Ops, OrderOps, PlacementOps
    <3>3. PICK x \in StepType :
            x = OrderStep("submit", u, o.trade) /\ x.op = "submit" /\ x.order = u
      BY <1>2, <3>1, <3>2, StepParts
    <3>4. PICK z \in StepType : z = OrderStep("flatten_check", o, o.trade) /\ z.op = "flatten_check"
      BY <1>2, <3>2, StepParts
    <3>5. PICK y \in StepType : y = [z EXCEPT !.other = u] /\ y.op = "flatten_check"
      <4>1. [z EXCEPT !.other = u] \in StepType /\ [z EXCEPT !.other = u].op = z.op
        BY <3>1 DEF StepType
      <4> QED BY <3>4, <4>1
    <3>6. Then(<<x, y>>)
      BY <2>3, <3>3, <3>4, <3>5
    <3>7. Fits(x) /\ Fits(y) /\ Trailing(y)
      BY <1>1, <3>1, <3>3, <3>5
      DEF Fits, CloseOps, AskOps, EndOps, SnapshotOps, TradedOps, TradeOps, PlacementOps, FlatOps,
          TurnOps, Trailing, FirstOps, IsEntry
    <3>8. StepHeld(x)' /\ StepHeld(y)'
      BY <1>2, <1>3, <3>1, <3>3, <3>5 DEF StepHeld, AskOps, IsExit
    <3> QED BY <1>1, <1>3, <2>1, <3>6, <3>7, <3>8, AsideTwo DEF EndOps
  <2> QED BY <1>5, <2>2, <2>3 DEF AbortQuery
<1>6. CASE FlattenCheck
  <2>1. Segment
    BY <1>1, <1>6, QuietSegment DEF FlattenCheck, keepMarket, keepStream, keepTask
  <2>2. CASE Then(<<>>)
    BY <1>1, <1>3, <2>1, <2>2, AsideDone DEF EndOps
  <2>3. CASE Return(<<Step("raise")>>)
    BY <1>1, <1>2, <1>3, <2>1, <2>3, RaiseOnly, Abandon
  <2> QED BY <1>6, <2>2, <2>3 DEF FlattenCheck
<1> QED BY <1>4, <1>5, <1>6

-----------------------------------------------------------------------------
(***************************************************************************)
(* Fills, reviews, emergencies and trails that leave the books alone.      *)
(***************************************************************************)

\* A fill without a price: the entry is abandoned, with an exception.
LEMMA EntryUnpricedSettled ==
    ASSUME SettledInv, TypeOK', EntryFillUnpriced
    PROVE  SettledInv'
<1>1. agenda # <<>> /\ now.op = "entry_fill" /\ TypeOK
  BY DEF EntryFillUnpriced, Due, SettledInv
<1>2. Segment /\ SameBooks /\ Manual \in halts'
  BY <1>1, QuietSegment, SamePos DEF EntryFillUnpriced, keepMarket, keepStream, keepTask
<1>3. PICK o \in OrderIds : o = now.order
  BY <1>1, OrderNow DEF OrderOps
<1>4. o.trade \in Trades
  BY TradeOfOrder
<1>5. PICK e \in StepType : e = Step("raise") /\ e.op = "raise"
  <2>1. "raise" \in Ops
    BY DEF Ops
  <2> QED BY <1>4, <2>1, StepParts
<1>6. agenda' = Abort(o) \o <<e>>
  BY <1>3, <1>5 DEF EntryFillUnpriced, Return
<1>7. PICK front \in Seq(StepType) :
        /\ front = Abort(o) /\ Len(front) = 2
        /\ \A i \in 1..Len(front) : front[i].op \in {"abort_cancel", "abort_query"}
  <2>1. "abort_cancel" \in Ops /\ "abort_query" \in Ops
    BY DEF Ops, OrderOps
  <2>2. PICK x \in StepType : x = OrderStep("abort_cancel", o, o.trade) /\ x.op = "abort_cancel"
    BY <1>4, <2>1, StepParts
  <2>3. PICK y \in StepType : y = OrderStep("abort_query", o, o.trade) /\ y.op = "abort_query"
    BY <1>4, <2>1, StepParts
  <2>4. Abort(o) = <<x, y>> /\ <<x, y>> \in Seq(StepType)
    BY <2>2, <2>3, TwoSteps DEF Abort
  <2>5. Len(<<x, y>>) = 2 /\ \A i \in 1..Len(<<x, y>>) : <<x, y>>[i] = x \/ <<x, y>>[i] = y
    OBVIOUS
  <2> QED BY <2>2, <2>3, <2>4, <2>5
<1>8. ShapeSound' /\ Todo' = StepsIn(front) \cup {e}
  BY <1>5, <1>6, <1>7, ShapeEnd, ZenonT(40)
  DEF EndOps, SnapshotOps, FirstOps, TradedOps, TradeOps, PlacementOps, FlatOps, TurnOps
<1>9. \A x \in Todo' : StepHeld(x)'
  <2>1. \A x \in Todo' : x.op \in {"abort_cancel", "abort_query", "raise"}
    BY <1>5, <1>7, <1>8 DEF StepsIn
  <2> QED BY <1>2, <2>1 DEF StepHeld, AskOps
<1> QED BY <1>1, <1>2, <1>8, <1>9, Abandon

\* Nothing to apply, nothing to do, or a fill that only halts.
LEMMA NothingSettled ==
    ASSUME SettledInv, TypeOK',
           EntryFillNothing \/ ExitFillUnpriced \/ ExitFillNothing \/ TrailSkipped
    PROVE  SettledInv'
<1>1. agenda # <<>> /\ now.op \in {"entry_fill", "exit_fill", "trail"} /\ Then(<<>>)
  BY DEF EntryFillNothing, ExitFillUnpriced, ExitFillNothing, TrailSkipped, Due
<1>2. Segment /\ SameBooks
  BY <1>1, QuietSegment, SamePos
  DEF EntryFillNothing, ExitFillUnpriced, ExitFillNothing, TrailSkipped, keepMarket, keepStream,
      keepTask, account
<1> QED BY <1>1, <1>2, AsideDone DEF EndOps

\* Slippage and liquidation price of a filled entry: accepted, or the position is closed.
LEMMA ReviewSettled ==
    ASSUME SettledInv, TypeOK', Review
    PROVE  SettledInv'
<1>1. agenda # <<>> /\ now.op = "review" /\ TypeOK
  BY DEF Review, Due, SettledInv
<1>2. Segment /\ SameBooks
  BY <1>1, QuietSegment, SamePos DEF Review, keepMarket, keepStream, keepTask
<1>3. CASE Then(<<>>)
  BY <1>1, <1>2, <1>3, AsideDone DEF EndOps
<1>4. CASE Then(<<TradeStep("emergency", now.trade)>>)
  <2>1. PICK p \in Trades : p = now.trade
    BY <1>1, TradeNow DEF TradeOps
  <2>2. "emergency" \in Ops
    BY DEF Ops, TradeOps
  <2>3. PICK x \in StepType :
          x = TradeStep("emergency", p) /\ x.op = "emergency" /\ x.trade = p
    BY <2>2, TradeParts
  <2>4. Fits(x)
    BY <1>1, <2>1, <2>3
    DEF Fits, CloseOps, AskOps, EndOps, SnapshotOps, TradedOps, TradeOps, PlacementOps, FlatOps, TurnOps
  <2>5. StepHeld(x)'
    BY <1>1, <1>2, <2>1, <2>3, NowFacts, ClosableKept DEF StepHeld, AskOps
  <2> QED BY <1>1, <1>2, <1>4, <2>1, <2>3, <2>4, <2>5, AsideOne DEF EndOps
<1> QED BY <1>3, <1>4 DEF Review

\* emergency_close sends a market order and leaves the alarm to be raised.
LEMMA EmergencySettled ==
    ASSUME SettledInv, TypeOK', Emergency
    PROVE  SettledInv'
<1>1. agenda # <<>> /\ now.op = "emergency" /\ TypeOK
  BY DEF Emergency, Due, SettledInv
<1>2. Segment /\ SameBooks
  BY <1>1, QuietSegment, SamePos DEF Emergency, account
<1>3. PICK p \in Trades : p = now.trade
  BY <1>1, TradeNow DEF TradeOps
<1>4. PICK o \in Fresh(p, "em") : Then(<<OrderStep("submit", o, p), Step("alarm")>>)
  BY <1>3 DEF Emergency
<1>5. o \in OrderIds /\ o.role = "em"
  BY FreshTypes DEF Fresh
<1>6. "submit" \in Ops /\ "alarm" \in Ops
  BY DEF Ops, PlacementOps
<1>7. PICK x \in StepType :
        x = OrderStep("submit", o, p) /\ x.op = "submit" /\ x.order = o /\ x.trade = p
  BY <1>5, <1>6, StepParts
<1>8. PICK y \in StepType : y = Step("alarm") /\ y.op = "alarm"
  BY <1>5, <1>6, StepParts
<1>9. Fits(x) /\ Fits(y) /\ Trailing(y)
  BY <1>1, <1>3, <1>5, <1>7, <1>8
  DEF Fits, CloseOps, AskOps, EndOps, SnapshotOps, TradedOps, TradeOps, PlacementOps, FlatOps, TurnOps,
      Trailing, FirstOps, IsEntry
<1>10. StepHeld(x)' /\ StepHeld(y)'
  BY <1>1, <1>2, <1>3, <1>5, <1>7, <1>8, NowFacts, ClosableKept
  DEF StepHeld, AskOps, IsExit, IsEntry
<1>11. Then(<<x, y>>)
  BY <1>4, <1>7, <1>8
<1> QED BY <1>1, <1>2, <1>8, <1>9, <1>10, <1>11, AsideTwo DEF EndOps

\* The trailing stop is refused or not answered.
LEMMA TrailFailedSettled ==
    ASSUME SettledInv, TypeOK', TrailFailed
    PROVE  SettledInv'
<1>1. agenda # <<>> /\ now.op = "trail" /\ Then(<<>>) /\ TypeOK
  BY DEF TrailFailed, Due, SettledInv
<1>2. (Hint => Hint') /\ (link = "lost" \/ Hint' \/ algos' = algos)
  <2>1. PICK a : PlaceUnconfirmed(a)
    BY DEF TrailFailed
  <2>2. CASE AcceptStop(a)
    BY <1>1, <2>2, AcceptStopHint
  <2>3. CASE UNCHANGED <<algos, stream>>
    BY <2>3 DEF Hint
  <2> QED BY <2>1, <2>2, <2>3 DEF PlaceUnconfirmed
<1>3. Segment /\ SameBooks
  BY <1>1, <1>2, SamePos DEF TrailFailed, Segment, keepTask
<1> QED BY <1>1, <1>3, AsideDone DEF EndOps

\* A conditional order is cancelled, or the cancel fails and halts.
LEMMA CancelAlgoSettled ==
    ASSUME SettledInv, TypeOK', CancelAlgo
    PROVE  SettledInv'
<1> DEFINE a == now.algo
<1>1. agenda # <<>> /\ now.op = "cancel_algo" /\ Then(<<>>) /\ TypeOK
  BY DEF CancelAlgo, Due, SettledInv
<1>2. DropStop(a) \/ (UNCHANGED <<algos, stream>> /\ CancelUnresolved(a) \in halts')
  BY DEF CancelAlgo
<1>3. /\ Hint => Hint'
      /\ link = "lost" \/ Hint' \/ algos' = algos
      /\ a \notin algos \/ link = "lost" \/ Hint' \/ (a \in algos' /\ CancelUnresolved(a) \in halts')
  <2>1. CASE DropStop(a)
    <3> HIDE DEF a
    <3>1. PICK b : b = a
      OBVIOUS
    <3> QED BY <1>1, <2>1, <3>1, DropStopHint
  <2>2. CASE UNCHANGED <<algos, stream>> /\ CancelUnresolved(a) \in halts'
    BY <2>2 DEF Hint
  <2> QED BY <1>2, <2>1, <2>2
<1>4. Segment /\ SameBooks
  BY <1>1, <1>3, SamePos DEF CancelAlgo, Segment, keepTask
<1>5. a \notin algos \/ ~Calm'
  BY <1>3, <1>4 DEF Calm, Segment
<1> QED BY <1>1, <1>4, <1>5, AsideDone DEF EndOps

\* recover_inflight_orders, at the start.
LEMMA RecoverSettled ==
    ASSUME SettledInv, TypeOK', Recover
    PROVE  SettledInv'
<1>1. agenda # <<>> /\ now.op = "recover" /\ TypeOK
  BY DEF Recover, Due, SettledInv
<1>2. Segment /\ SameBooks
  BY <1>1, QuietSegment, SamePos DEF Recover, keepMarket, keepStream, keepTask
<1>3. CASE Then(<<>>)
  BY <1>1, <1>2, <1>3, AsideDone DEF EndOps
<1>4. CASE Then(<<[now EXCEPT !.op = "entry_fill"]>>)
  <2>1. "entry_fill" \in Ops
    BY DEF Ops, OrderOps
  <2>2. PICK x \in StepType : x = [now EXCEPT !.op = "entry_fill"] /\ x.op = "entry_fill"
    BY <1>1, <2>1, NowAs
  <2>3. Fits(x)
    BY <1>1, <2>2
    DEF Fits, CloseOps, AskOps, EndOps, SnapshotOps, TradedOps, TradeOps, PlacementOps, FlatOps, TurnOps
  <2>4. StepHeld(x)'
    BY <2>2 DEF StepHeld, AskOps
  <2> QED BY <1>1, <1>2, <1>4, <2>2, <2>3, <2>4, AsideOne DEF EndOps
<1>5. ASSUME NEW o \in OrderIds, o = now.order, NEW p \in PositionFor(o.trade),
             Then(<<OrderStep("exit_fill", o, p)>>)
      PROVE  SettledInv'
  <2>1. "exit_fill" \in Ops
    BY DEF Ops, PlacementOps
  <2>2. p \in Trades /\ p \in Held
    BY DEF PositionFor, HeldAt, Held
  <2>3. PICK x \in StepType :
          x = OrderStep("exit_fill", o, p) /\ x.op = "exit_fill" /\ x.order = o /\ x.trade = p
    BY <2>1, <2>2, StepParts
  <2>4. Fits(x)
    BY <1>1, <2>3
    DEF Fits, CloseOps, AskOps, EndOps, SnapshotOps, TradedOps, TradeOps, PlacementOps, FlatOps, TurnOps
  <2>5. StepHeld(x)'
    BY <1>2, <2>2, <2>3 DEF StepHeld, AskOps, Closable, SameBooks
  <2> QED BY <1>1, <1>2, <1>5, <2>3, <2>4, <2>5, AsideOne DEF EndOps
<1>6. now.order \in OrderIds
  BY <1>1, OrderNow DEF OrderOps
<1> QED BY <1>3, <1>4, <1>5, <1>6 DEF Recover

\* A reconcile cancels an order no row knows.
LEMMA CancelOrphanSettled ==
    ASSUME SettledInv, TypeOK', CancelOrphanOrder
    PROVE  SettledInv'
<1>1. agenda # <<>> /\ now.op = "cancel_order" /\ Then(<<>>) /\ TypeOK
  BY DEF CancelOrphanOrder, Due, SettledInv
<1>2. Hint => Hint'
  <2>1. PICK o \in OrderIds : o = now.order
    BY <1>1, OrderNow DEF OrderOps
  <2>2. CASE CancelWorking(o)
    BY <1>1, <2>2, CancelWorkingHint
  <2>3. CASE UNCHANGED stream
    BY <2>3 DEF Hint
  <2> QED BY <2>1, <2>2, <2>3 DEF CancelOrphanOrder
<1>3. Segment /\ SameBooks
  BY <1>1, <1>2, SamePos DEF CancelOrphanOrder, Segment, keepTask
<1> QED BY <1>1, <1>3, AsideDone DEF EndOps

-----------------------------------------------------------------------------
(***************************************************************************)
(* Stops: placed, replaced, armed behind a trail.                          *)
(***************************************************************************)

\* A segment the stream tells of, or that halts or ends in a close, is not calm.
LEMMA AsideLoud ==
    ASSUME SettledInv, TypeOK', Segment, Held' = Held, OwnStops',
           \A t \in Trades : pos'[t].qty = pos[t].qty,
           \A t \in Held : pos[t].prot \/ Protecting(t) =>
             pos'[t].prot \/ Protecting(t)' \/ Closing' \/ Manual \in halts',
           NEW steps \in Seq(StepType), Follows(steps), agenda' = steps \o Tail(agenda),
           \A x \in StepsIn(steps) : StepHeld(x)',
           now.op \notin EndOps \cup {"emergency"},
           now.op = "alarm" => Manual \in halts',
           link = "lost" \/ Hint' \/ Closing' \/ Manual \in halts'
    PROVE  SettledInv'
<1>1. Closing => Doomed
  BY DEF Closing, Doomed
<1>2. Closing' => Doomed'
  BY DEF Closing, Doomed
<1>3. CalmSound'
  BY <1>2 DEF CalmSound, Calm, Segment
<1> QED BY <1>3, AsideSafe

\* No cancellation, or one, of a stop.
LEMMA CancelSteps ==
    ASSUME TypeOK, NEW as \in Seq(AlgoIds), now.op # "cancel_algo"
    PROVE  \E steps \in Seq(StepType) :
             /\ steps = CancelAlgos(as) /\ Follows(steps)
             /\ \A x \in StepsIn(steps) : StepHeld(x)'
             /\ Len(steps) = Len(as)
             /\ \A i \in 1..Len(as) :
                  steps[i] \in StepsIn(steps) /\ steps[i].op = "cancel_algo" /\ steps[i].algo = as[i]
             /\ \A x \in StepsIn(steps) : x.op = "cancel_algo"
<1> PICK steps : steps = CancelAlgos(as)
  OBVIOUS
<1>1. /\ steps \in Seq(StepType) /\ Len(steps) = Len(as)
      /\ \A i \in 1..Len(steps) : steps[i].op = "cancel_algo" /\ steps[i].algo = as[i]
  BY CancelAlgosSteps
<1>2. Follows(steps)
  BY FollowCancels
<1>3. \A x \in StepsIn(steps) : x.op = "cancel_algo"
  BY <1>1 DEF StepsIn
<1>4. \A x \in StepsIn(steps) : StepHeld(x)'
  BY <1>3 DEF StepHeld, AskOps
<1>5. \A i \in 1..Len(as) : steps[i] \in StepsIn(steps)
  BY <1>1 DEF StepsIn
<1> QED BY <1>1, <1>2, <1>3, <1>4, <1>5

\* After a new trailing stop the old one is cancelled, if there is one.
LEMMA SupersededSteps ==
    ASSUME TypeOK, NEW old \in AlgoIds \cup {NoAlgo}, NEW a, now.op # "cancel_algo",
           Then(IF Superseded(old, a) THEN CancelAlgos(<<old>>) ELSE <<>>)
    PROVE  \E steps \in Seq(StepType) :
             /\ agenda' = steps \o Tail(agenda) /\ Follows(steps)
             /\ \A x \in StepsIn(steps) : StepHeld(x)'
<1>1. CASE Superseded(old, a)
  <2>1. <<old>> \in Seq(AlgoIds)
    BY <1>1 DEF Superseded
  <2> QED BY <1>1, <2>1, CancelSteps DEF Then
<1>2. CASE ~Superseded(old, a)
  <2>1. agenda' = <<>> \o Tail(agenda) /\ <<>> \in Seq(StepType)
    BY <1>2, NoSteps DEF Then
  <2>2. \A x \in StepsIn(<<>>) : FALSE
    BY DEF StepsIn
  <2> QED BY <2>1, <2>2, FollowNone
<1> QED BY <1>1, <1>2

\* A new trailing stop changes no quantity and no structure stop.
LEMMA TrailChanged ==
    ASSUME TypeOK, NEW p \in Trades, NEW a, pos' = [pos EXCEPT ![p].trail = a]
    PROVE  /\ Held' = Held
           /\ \A t \in Trades :
                /\ pos'[t].qty = pos[t].qty /\ pos'[t].stop = pos[t].stop
                /\ pos'[t].prot = pos[t].prot
                /\ t # p => pos'[t].trail = pos[t].trail
<1>1. pos \in [Trades -> PositionRow]
  BY DEF TypeOK, LedgerTypeOK
<1>2. \A t \in Trades : pos'[t] = IF t = p THEN [pos[p] EXCEPT !.trail = a] ELSE pos[t]
  BY <1>1
<1>3. \A t \in Trades :
        /\ pos'[t].qty = pos[t].qty /\ pos'[t].stop = pos[t].stop
        /\ pos'[t].prot = pos[t].prot /\ pos'[t].st = pos[t].st
        /\ t # p => pos'[t].trail = pos[t].trail
  BY <1>1, <1>2 DEF PositionRow
<1> QED BY <1>3 DEF Held

\* update_trail: the stop is placed,
LEMMA TrailPlacedSettled ==
    ASSUME SettledInv, TypeOK', TrailPlaced
    PROVE  SettledInv'
<1>1. agenda # <<>> /\ now.op = "trail" /\ TypeOK
  BY DEF TrailPlaced, Due, SettledInv
<1>2. PICK p \in Trades : p = now.trade
  BY <1>1, TradeNow DEF TradeOps
<1>3. PICK a : /\ AcceptStop(a) /\ pos' = [pos EXCEPT ![p].trail = a]
               /\ Then(IF Superseded(pos[p].trail, a) THEN CancelAlgos(<<pos[p].trail>>)
                       ELSE <<>>)
  BY <1>2 DEF TrailPlaced
<1>4. (Hint => Hint') /\ (link = "lost" \/ Hint')
  BY <1>1, <1>3, AcceptStopHint
<1>5. Segment
  BY <1>1, <1>4 DEF TrailPlaced, Segment, keepTask
<1>6. /\ Held' = Held /\ Held \subseteq Trades
      /\ \A t \in Trades :
           pos'[t].qty = pos[t].qty /\ pos'[t].stop = pos[t].stop /\ pos'[t].prot = pos[t].prot
  BY <1>1, <1>3, TrailChanged, HeldTrades
<1>7. OwnStops'
  BY <1>6 DEF OwnStops, SettledInv, HeldSound
<1>8. PICK old \in AlgoIds \cup {NoAlgo} : old = pos[p].trail
  BY <1>1 DEF TypeOK, LedgerTypeOK, PositionRow
<1>9. PICK steps \in Seq(StepType) :
        /\ agenda' = steps \o Tail(agenda) /\ Follows(steps)
        /\ \A x \in StepsIn(steps) : StepHeld(x)'
  BY <1>1, <1>3, <1>8, SupersededSteps
<1>10. \A t \in Held : ~Protecting(t)
  BY <1>1 DEF Protecting
<1> QED BY <1>1, <1>4, <1>5, <1>6, <1>7, <1>9, <1>10, AsideLoud DEF EndOps

\* or the decision takes it back.
LEMMA TrailDisarmedSettled ==
    ASSUME SettledInv, TypeOK', TrailDisarmed
    PROVE  SettledInv'
<1>1. agenda # <<>> /\ now.op = "trail" /\ Then(<<>>) /\ TypeOK
  BY DEF TrailDisarmed, Due, SettledInv
<1>2. PICK p \in Trades : p = now.trade
  BY <1>1, TradeNow DEF TradeOps
<1>3. PICK old : old = pos[p].trail
  OBVIOUS
<1>4. DropStop(old) \/ UNCHANGED <<algos, stream>>
  BY <1>2, <1>3 DEF TrailDisarmed
<1>5. (Hint => Hint') /\ (link = "lost" \/ Hint' \/ algos' = algos)
  <2>1. CASE DropStop(old)
    BY <1>1, <2>1, DropStopHint
  <2>2. CASE UNCHANGED <<algos, stream>>
    BY <2>2 DEF Hint
  <2> QED BY <1>4, <2>1, <2>2
<1>6. Segment
  BY <1>1, <1>5 DEF TrailDisarmed, Segment, keepTask
<1>7. CASE UNCHANGED pos
  BY <1>1, <1>6, <1>7, SamePos, AsideDone DEF EndOps
<1>8. CASE DropStop(old) /\ pos' = [pos EXCEPT ![p].trail = NoAlgo]
  <2>1. /\ Held' = Held /\ Held \subseteq Trades
        /\ \A t \in Trades :
             /\ pos'[t].qty = pos[t].qty /\ pos'[t].stop = pos[t].stop
             /\ pos'[t].prot = pos[t].prot
             /\ t # p => pos'[t].trail = pos[t].trail
    BY <1>1, <1>8, TrailChanged, HeldTrades
  <2>2. CASE old \notin algos
    <3>1. SameBooks
      BY <1>3, <2>1, <2>2 DEF SameBooks
    <3> QED BY <1>1, <1>6, <3>1, AsideDone DEF EndOps
  <2>3. CASE old \in algos
    <3>1. link = "lost" \/ Hint'
      BY <1>1, <1>8, <2>3, DropStopHint
    <3>2. OwnStops'
      BY <2>1 DEF OwnStops, SettledInv, HeldSound
    <3>3. agenda' = <<>> \o Tail(agenda) /\ <<>> \in Seq(StepType)
      BY <1>1, NoSteps DEF Then
    <3>4. \A x \in StepsIn(<<>>) : FALSE
      BY DEF StepsIn
    <3>5. \A t \in Held : ~Protecting(t)
      BY <1>1 DEF Protecting
    <3> QED BY <1>1, <1>6, <2>1, <3>1, <3>2, <3>3, <3>4, <3>5, FollowNone, AsideLoud DEF EndOps
  <2> QED BY <2>2, <2>3
<1> QED BY <1>2, <1>3, <1>7, <1>8 DEF TrailDisarmed

\* The halt that follows an emergency close.
LEMMA AlarmSettled ==
    ASSUME SettledInv, TypeOK', Alarm
    PROVE  SettledInv'
<1>1. agenda # <<>> /\ now.op = "alarm" /\ Then(<<>>) /\ Manual \in halts' /\ TypeOK
  BY DEF Alarm, Due, SettledInv
<1>2. Segment /\ UNCHANGED pos
  BY <1>1, QuietSegment DEF Alarm, keepTask, account
<1>3. Held' = Held /\ OwnStops' /\ Held \subseteq Trades
  BY <1>2 DEF Held, OwnStops, SettledInv, HeldSound
<1>4. agenda' = <<>> \o Tail(agenda) /\ <<>> \in Seq(StepType)
  BY <1>1, NoSteps DEF Then
<1>5. \A x \in StepsIn(<<>>) : FALSE
  BY DEF StepsIn
<1> QED BY <1>1, <1>2, <1>3, <1>4, <1>5, FollowNone, AsideLoud DEF EndOps

\* A reconcile that is at a step of its turns has nothing else to do.
LEMMA ApplyTurns ==
    ASSUME SettledInv, agenda # <<>>, ApplySound,
           now.op \notin FlatOps \cup ClearOps \cup EndOps
    PROVE  Final.op = "strays" /\ Len(agenda) # 1 /\ StraysSound /\ now.op \in TurnOps
<1>1. /\ Len(agenda) = 1 => Final = now
      /\ now \in Todo /\ Final.op \in EndOps \ {"raise"}
  BY AgendaParts DEF SettledInv, ApplySound
<1>2. Final.op # "reconcile" /\ Len(agenda) # 1
  BY <1>1 DEF ApplySound
<1>3. Final.op # "positions" /\ Final.op # "clear"
  BY <1>1 DEF SettledInv, ShapeSound
<1>4. Final.op = "strays"
  BY <1>1, <1>2, <1>3 DEF EndOps
<1>5. StraysSound /\ now.op \in TurnOps
  BY <1>1, <1>4 DEF ApplySound, SettledInv, ShapeSound
<1> QED BY <1>2, <1>4, <1>5

\* What a position row keeps when its stop is replaced.
LEMMA StopChanged ==
    ASSUME TypeOK, NEW p \in Trades, NEW a, NEW on \in BOOLEAN,
           pos' = [pos EXCEPT ![p].stop = a, ![p].prot = on]
    PROVE  /\ Held' = Held
           /\ \A t \in Trades :
                /\ pos'[t].qty = pos[t].qty /\ pos'[t].trail = pos[t].trail
                /\ t # p => pos'[t].stop = pos[t].stop /\ pos'[t].prot = pos[t].prot
           /\ pos'[p].stop = a /\ pos'[p].prot = on
<1>1. pos \in [Trades -> PositionRow]
  BY DEF TypeOK, LedgerTypeOK
<1>2. \A t \in Trades :
        pos'[t] = IF t = p THEN [pos[p] EXCEPT !.stop = a, !.prot = on] ELSE pos[t]
  BY <1>1
<1>3. \A t \in Trades :
        /\ pos'[t].qty = pos[t].qty /\ pos'[t].trail = pos[t].trail
        /\ pos'[t].st = pos[t].st
        /\ t # p => pos'[t].stop = pos[t].stop /\ pos'[t].prot = pos[t].prot
  BY <1>1, <1>2 DEF PositionRow
<1>4. pos'[p].stop = a /\ pos'[p].prot = on
  BY <1>1, <1>2 DEF PositionRow
<1> QED BY <1>3, <1>4 DEF Held

\* ensure_structure_protection: the stop in place will do, or a new one is due.
LEMMA ProtectBeginSettled ==
    ASSUME SettledInv, TypeOK', ProtectBegin
    PROVE  SettledInv'
<1>1. agenda # <<>> /\ now.op = "protect" /\ TypeOK
  BY DEF ProtectBegin, Due, SettledInv
<1>2. PICK p \in Trades : p = now.trade
  BY <1>1, TradeNow DEF TradeOps
<1>3. StepHeld(now) /\ now \in StepType
  BY <1>1, NowFacts
<1>4. now.force \/ ~pos[p].prot
  BY <1>1, <1>2, <1>3 DEF StepHeld
<1>5. PICK a : a = StopFor(p)
  OBVIOUS
<1>6. a \in AlgoIds /\ a.trade = p
  BY <1>1, <1>5 DEF StopFor, AlgoIds, StopIds, TypeOK, LedgerTypeOK, PositionRow
<1>7. PICK x : x = [now EXCEPT !.op = "place_stop", !.algo = a, !.old = pos[p].stop,
                               !.kept = pos[p].prot]
  OBVIOUS
<1>8. pos' = [pos EXCEPT ![p].stop = a, ![p].prot = FALSE] /\ Then(<<x>>)
  BY <1>2, <1>4, <1>5, <1>7 DEF ProtectBegin
<1>9. /\ x \in StepType /\ x.op = "place_stop" /\ x.trade = p /\ x.old = pos[p].stop
      /\ x.kept = pos[p].prot /\ x.force = now.force
  <2>1. pos[p].stop \in AlgoIds \cup {NoAlgo} /\ pos[p].prot \in BOOLEAN
    BY <1>1 DEF TypeOK, LedgerTypeOK, PositionRow
  <2>2. "place_stop" \in Ops
    BY DEF Ops, TradeOps
  <2> QED BY <1>2, <1>3, <1>6, <1>7, <2>1, <2>2 DEF StepType
<1>10. /\ Held' = Held /\ Held \subseteq Trades
       /\ \A t \in Trades :
            /\ pos'[t].qty = pos[t].qty /\ pos'[t].trail = pos[t].trail
            /\ t # p => pos'[t].stop = pos[t].stop /\ pos'[t].prot = pos[t].prot
       /\ pos'[p].stop = a /\ pos'[p].prot = FALSE
  BY <1>1, <1>8, StopChanged, HeldTrades
<1>11. Segment
  BY <1>1, QuietSegment DEF ProtectBegin, keepTask, account
<1>12. OwnStops'
  BY <1>6, <1>10 DEF OwnStops, SettledInv, HeldSound
<1>13. agenda' = <<x>> \o Tail(agenda) /\ <<x>> \in Seq(StepType)
  BY <1>8, <1>9, OneStep DEF Then
<1>14. \A y \in StepsIn(<<x>>) : y = x
  BY DEF StepsIn
<1>15. Fits(x)
  BY <1>1, <1>2, <1>9
  DEF Fits, CloseOps, AskOps, EndOps, SnapshotOps, TradedOps, TradeOps, PlacementOps, FlatOps, TurnOps
<1>16. Follows(<<x>>)
  BY <1>15, FollowOne
<1>17. StepHeld(x)'
  <2>1. Closable(p)'
    BY <1>1, <1>2, <1>3, <1>10 DEF StepHeld, Closable
  <2>2. x.old = NoAlgo \/ ~x.kept \/ x.force
    BY <1>4, <1>9
  <2>3. x.old \in AlgoIds => x.old.trade = x.trade
    BY <1>9 DEF SettledInv, HeldSound, OwnStops
  <2> QED BY <1>9, <2>1, <2>2, <2>3 DEF StepHeld, AskOps
<1>18. /\ agenda' # <<>> /\ now' = x /\ Todo = {now} \cup Later /\ Later \subseteq Todo'
       /\ Len(agenda) # 1 => Final' = Final
  <2>1. <<x>> # <<>> /\ <<x>>[1] = x
    OBVIOUS
  <2> QED BY <1>1, <1>13, <2>1, AgendaThen, AgendaParts
<1>19. Protecting(p)' /\ \A t : Protecting(t) => t = p
  BY <1>2, <1>9, <1>18 DEF Protecting
<1>20. CalmSound'
  <2> SUFFICES ASSUME Calm'
               PROVE  /\ Looking' = "idle" => IdleSound'
                      /\ Looking' = "applying" => ApplySound'
    BY DEF CalmSound
  <2>1. Doomed => Doomed'
    BY <1>1, <1>13, ClosingThen
  <2>2. /\ Calm /\ algos' = algos /\ Looking' = Looking /\ short' = short
    BY <1>11, <2>1, SegmentCalm DEF Segment
  <2>3. \A a1 \in algos : a1 \in Recorded => a1 \in Recorded' \/ Replacing(a1)'
    <3> SUFFICES ASSUME NEW b \in algos, b \in Recorded, b \notin Recorded' PROVE Replacing(b)'
      OBVIOUS
    <3>1. PICK t \in Held : b = pos[t].stop \/ b = pos[t].trail
      BY DEF Recorded
    <3>2. t = p /\ b = pos[p].stop
      BY <1>10, <3>1 DEF Recorded
    <3> QED BY <1>9, <1>18, <3>2 DEF Replacing
  <2>4. \A b : ~Replacing(b)
    BY <1>1 DEF Replacing
  <2>5. \A t \in Held : t # p /\ Covered(t) => Covered(t)'
    BY <1>10, <2>2 DEF Covered
  <2>6. \A s \in Symbols : Flat(s) => Flat(s)'
    BY <1>10, <2>2 DEF Flat, HeldAt
  <2>7. \A t \in Held : Agrees(t) => Agrees(t)'
    BY <1>10, <2>2 DEF Agrees
  <2>8. \A b : Cancelling(b) => Cancelling(b)'
    BY <1>1, <1>18 DEF Cancelling
  <2>9. ASSUME Looking' = "idle" PROVE IdleSound'
    <3>1. IdleSound
      BY <2>2, <2>9 DEF SettledInv, CalmSound
    <3>2. \A t \in Held' : Covered(t)' \/ Protecting(t)'
      BY <1>10, <1>19, <2>5, <3>1 DEF IdleSound
    <3>3. Moving'
      BY <1>19 DEF Moving
    <3>4. \A b \in algos' : b \in Recorded' \/ Replacing(b)' \/ Cancelling(b)'
      BY <2>2, <2>3, <2>4, <2>8, <3>1 DEF IdleSound
    <3> QED BY <3>2, <3>3, <3>4 DEF IdleSound
  <2>10. ASSUME Looking' = "applying" PROVE ApplySound'
    <3>1. ApplySound
      BY <2>2, <2>10 DEF SettledInv, CalmSound
    <3>2. Final.op = "strays" /\ Len(agenda) # 1 /\ StraysSound
      BY <1>1, <3>1, ApplyTurns DEF FlatOps, ClearOps, EndOps
    <3>3. Final' = Final
      BY <1>18, <3>2
    <3>4. \A t : Turning(t) => Turning(t)'
      BY <1>1, <1>18 DEF Turning
    <3>5. \A s \in Symbols : Flat(s)'
      BY <2>6, <3>2 DEF StraysSound
    <3>6. \A t \in Held' : Turning(t)' \/ (Agrees(t)' /\ (Covered(t)' \/ Protecting(t)'))
      BY <1>10, <1>19, <2>5, <2>7, <3>2, <3>4 DEF StraysSound
    <3>7. \A b \in algos' : b \in Recorded' \/ Replacing(b)' \/ b \notin Final'.known
      BY <2>2, <2>3, <2>4, <3>2, <3>3 DEF StraysSound
    <3>8. StraysSound'
      BY <3>5, <3>6, <3>7 DEF StraysSound
    <3> QED BY <1>18, <3>2, <3>3, <3>8 DEF ApplySound, EndOps
  <2> QED BY <2>9, <2>10
<1>21. \A t \in Held : pos[t].prot \/ Protecting(t) => pos'[t].prot \/ Protecting(t)'
  BY <1>10, <1>19
<1> QED
  BY <1>1, <1>10, <1>11, <1>12, <1>13, <1>14, <1>16, <1>17, <1>20, <1>21, AsideSafe DEF EndOps

\* The exchange takes the new stop: the position is covered, and the old one cancelled.
LEMMA PlaceStopAcceptedSettled ==
    ASSUME SettledInv, TypeOK', PlaceStopAccepted
    PROVE  SettledInv'
<1>1. agenda # <<>> /\ now.op = "place_stop" /\ TypeOK
  BY DEF PlaceStopAccepted, Due, SettledInv
<1>2. PICK p \in Trades : p = now.trade
  BY <1>1, TradeNow DEF TradeOps
<1>3. PICK a, old : a = now.algo /\ old = now.old
  OBVIOUS
<1>4. /\ AcceptStop(a) /\ pos' = [pos EXCEPT ![p].prot = TRUE]
      /\ Then(IF Superseded(old, a) THEN CancelAlgos(<<old>>) ELSE <<>>)
  BY <1>2, <1>3 DEF PlaceStopAccepted
<1>5. (Hint => Hint') /\ (link = "lost" \/ Hint')
  BY <1>1, <1>4, AcceptStopHint
<1>6. Segment
  BY <1>1, <1>5 DEF PlaceStopAccepted, Segment, keepTask
<1>7. /\ Held' = Held /\ Held \subseteq Trades
      /\ \A t \in Trades :
           /\ pos'[t].qty = pos[t].qty /\ pos'[t].stop = pos[t].stop
           /\ t # p => pos'[t].prot = pos[t].prot
      /\ pos'[p].prot = TRUE
  <2>1. pos \in [Trades -> PositionRow]
    BY <1>1 DEF TypeOK, LedgerTypeOK
  <2>2. \A t \in Trades : pos'[t] = IF t = p THEN [pos[p] EXCEPT !.prot = TRUE] ELSE pos[t]
    BY <1>4, <2>1
  <2>3. \A t \in Trades :
          /\ pos'[t].qty = pos[t].qty /\ pos'[t].stop = pos[t].stop
          /\ pos'[t].st = pos[t].st
          /\ t # p => pos'[t].prot = pos[t].prot
    BY <2>1, <2>2 DEF PositionRow
  <2>4. pos'[p].prot = TRUE
    BY <2>1, <2>2 DEF PositionRow
  <2> QED BY <2>3, <2>4 DEF Held
<1>8. OwnStops'
  BY <1>7 DEF OwnStops, SettledInv, HeldSound
<1>9. old \in AlgoIds \cup {NoAlgo}
  BY <1>1, <1>3, NowFacts DEF StepType
<1>10. PICK steps \in Seq(StepType) :
        /\ agenda' = steps \o Tail(agenda) /\ Follows(steps)
        /\ \A x \in StepsIn(steps) : StepHeld(x)'
  BY <1>1, <1>4, <1>9, SupersededSteps
<1>11. \A t \in Held : pos[t].prot \/ Protecting(t) => pos'[t].prot
  BY <1>2, <1>7 DEF Protecting
<1> QED BY <1>1, <1>5, <1>6, <1>7, <1>8, <1>10, <1>11, AsideLoud DEF EndOps

\* It refuses it or does not answer: the position is closed, unless the old stop is kept.
LEMMA PlaceStopFailedSettled ==
    ASSUME SettledInv, TypeOK', PlaceStopFailed
    PROVE  SettledInv'
<1>1. agenda # <<>> /\ now.op = "place_stop" /\ TypeOK
  BY DEF PlaceStopFailed, Due, SettledInv
<1>2. PICK p \in Trades : p = now.trade
  BY <1>1, TradeNow DEF TradeOps
<1>3. PICK a, old : a = now.algo /\ old = now.old
  OBVIOUS
<1>4. StepHeld(now)
  BY <1>1, NowFacts
<1>5. (Hint => Hint') /\ (link = "lost" \/ Hint' \/ algos' = algos)
  <2>1. PlaceUnconfirmed(a)
    BY <1>3 DEF PlaceStopFailed
  <2>2. CASE AcceptStop(a)
    BY <1>1, <2>2, AcceptStopHint
  <2>3. CASE UNCHANGED <<algos, stream>>
    BY <2>3 DEF Hint
  <2> QED BY <2>1, <2>2, <2>3 DEF PlaceUnconfirmed
<1>6. Segment
  BY <1>1, <1>5 DEF PlaceStopFailed, Segment, keepTask
<1>7. /\ Held' = Held /\ Held \subseteq Trades
      /\ \A t \in Trades : pos'[t].qty = pos[t].qty
      /\ \A t \in Trades : t # p => pos'[t].stop = pos[t].stop /\ pos'[t].prot = pos[t].prot
      /\ pos'[p].stop = pos[p].stop \/ pos'[p].stop = old
  <2>1. CASE UNCHANGED pos
    BY <2>1, HeldTrades DEF Held
  <2>2. CASE pos' = [pos EXCEPT ![p].stop = old, ![p].prot = TRUE]
    <3>1. PICK on \in BOOLEAN : pos' = [pos EXCEPT ![p].stop = old, ![p].prot = on]
      BY <2>2
    <3>2. /\ Held' = Held
          /\ \A t \in Trades :
               /\ pos'[t].qty = pos[t].qty
               /\ t # p => pos'[t].stop = pos[t].stop /\ pos'[t].prot = pos[t].prot
          /\ pos'[p].stop = old
      BY <1>1, <3>1, StopChanged, ZenonT(40)
    <3> QED BY <3>2, HeldTrades
  <2> QED BY <1>2, <1>3, <2>1, <2>2 DEF PlaceStopFailed
<1>8. OwnStops'
  BY <1>1, <1>2, <1>3, <1>4, <1>7 DEF OwnStops, SettledInv, HeldSound, StepHeld
<1>9. Then(<<TradeStep("emergency", p)>>)
  BY <1>1, <1>2, <1>4 DEF PlaceStopFailed, KeptOpen, StepHeld
<1>10. "emergency" \in Ops
  BY DEF Ops, TradeOps
<1>11. PICK x \in StepType :
         x = TradeStep("emergency", p) /\ x.op = "emergency" /\ x.trade = p
  BY <1>10, TradeParts
<1>12. agenda' = <<x>> \o Tail(agenda) /\ <<x>> \in Seq(StepType)
  BY <1>9, <1>11, OneStep DEF Then
<1>13. \A y \in StepsIn(<<x>>) : y = x
  BY DEF StepsIn
<1>14. Fits(x)
  BY <1>1, <1>2, <1>11
  DEF Fits, CloseOps, AskOps, EndOps, SnapshotOps, TradedOps, TradeOps, PlacementOps, FlatOps, TurnOps
<1>15. StepHeld(x)'
  <2>1. Closable(p)'
    BY <1>1, <1>2, <1>4, <1>7 DEF StepHeld, Closable
  <2> QED BY <1>11, <2>1 DEF StepHeld, AskOps
<1>16. Closing'
  <2>1. x \in StepsIn(<<x>>)
    <3>1. 1 \in 1..Len(<<x>>) /\ <<x>>[1] = x
      OBVIOUS
    <3> QED BY <3>1 DEF StepsIn
  <2> QED BY <1>1, <1>11, <1>12, <2>1, ClosingThen
<1>17. Follows(<<x>>)
  BY <1>14, FollowOne
<1> QED
  BY <1>1, <1>6, <1>7, <1>8, <1>12, <1>13, <1>15, <1>16, <1>17, AsideLoud DEF EndOps

-----------------------------------------------------------------------------
(***************************************************************************)
(* Fills: positions open, grow, shrink and close.                          *)
(***************************************************************************)

\* A segment that changes the positions keeps all of the invariant but the calm.
LEMMA BooksSafe ==
    ASSUME SettledInv, TypeOK', Segment, OneHeld', OwnStops',
           \A x \in Later : StepHeld(x)',
           \A t \in Held' :
             \/ pos'[t].prot \/ Protecting(t)' \/ Closing' \/ Manual \in halts'
             \/ t \in Held /\ ~pos[t].prot /\ ~Protecting(t),
           NEW steps \in Seq(StepType), Follows(steps), agenda' = steps \o Tail(agenda),
           \A x \in StepsIn(steps) : StepHeld(x)',
           now.op \notin EndOps \cup {"emergency", "alarm"},
           CalmSound'
    PROVE  SettledInv'
<1> agenda # <<>> /\ TypeOK /\ ShapeSound /\ ClosingSound
  BY DEF Segment, SettledInv
<1>1. LockSound' /\ SnapshotFresh'
  BY SegmentLock, SegmentFresh DEF SettledInv
<1>2. ShapeSound'
  BY ShapeThen DEF Segment
<1>3. ClosingSound' /\ (Closing => Closing' \/ Manual \in halts')
  BY ClosingKept DEF Segment
<1>4. HeldSound'
  BY HeldThen
<1>5. ProtSound'
  BY <1>3 DEF ProtSound, SettledInv, Segment
<1> QED BY <1>1, <1>2, <1>3, <1>4, <1>5 DEF SettledInv

\* A reconcile does not apply a fill while it is calm.
LEMMA FillsWhenIdle ==
    ASSUME SettledInv, agenda # <<>>, Calm, Looking = "applying", now.op \in {"entry_fill", "exit_fill"}
    PROVE  FALSE
<1>1. ApplySound
  BY DEF SettledInv, CalmSound
<1>2. Final.op = "strays" /\ now.op \in TurnOps
  BY <1>1, ApplyTurns DEF FlatOps, ClearOps, EndOps
<1>3. now.op \in CloseOps
  BY <1>2 DEF TurnOps, CloseOps
<1>4. now \in Todo
  BY AgendaParts DEF SettledInv
<1>5. Closing \/ Manual \in halts
  BY <1>2, <1>3, <1>4 DEF SettledInv, ClosingSound
<1> QED BY <1>5 DEF Calm, Closing, Doomed

\* The idle calm after a segment.
LEMMA IdleAfter ==
    ASSUME SettledInv, Segment, Calm', Doomed => Doomed' \/ Manual \in halts',
           NEW p,
           now.op \notin {"protect", "place_stop", "cancel_algo"}, Later \subseteq Todo',
           \A t \in Held' : t # p => t \in Held /\ (Covered(t) => pos'[t] = pos[t]),
           p \in Held' => Protecting(p)',
           Looking = "idle" /\ IdleSound => Moving',
           \A a \in algos : a \in Recorded => a \in Recorded' \/ Cancelling(a)',
           Looking # "applying"
    PROVE  /\ Looking' = "idle" => IdleSound'
           /\ Looking' = "applying" => ApplySound'
<1>1. /\ Calm /\ algos' = algos /\ Looking' = Looking
  BY SegmentCalm
<1> SUFFICES ASSUME Looking' = "idle" PROVE IdleSound'
  BY <1>1
<1>2. IdleSound
  BY <1>1 DEF SettledInv, CalmSound
<1>3. \A t \in Held' : Covered(t)' \/ Protecting(t)'
  <2> SUFFICES ASSUME NEW t \in Held', t # p PROVE Covered(t)'
    OBVIOUS
  <2>1. Covered(t)
    BY <1>2 DEF IdleSound, Protecting
  <2> QED BY <1>1, <2>1 DEF Covered
<1>4. \A a \in algos : Cancelling(a) => Cancelling(a)'
  <2>1. Todo = {now} \cup Later
    BY AgendaParts DEF Segment, SettledInv
  <2> QED BY <2>1 DEF Cancelling
<1>5. \A a \in algos : ~Replacing(a)
  BY DEF Replacing
<1>6. \A a \in algos' : a \in Recorded' \/ Replacing(a)' \/ Cancelling(a)'
  BY <1>1, <1>2, <1>4, <1>5 DEF IdleSound
<1> QED BY <1>1, <1>2, <1>3, <1>6 DEF IdleSound

\* _apply_entry_fill opens the position or adds to it, and protects it.
LEMMA EntryFillSettled ==
    ASSUME SettledInv, TypeOK', EntryFillApplied
    PROVE  SettledInv'
<1>1. agenda # <<>> /\ now.op = "entry_fill" /\ TypeOK
  BY DEF EntryFillApplied, Due, SettledInv
<1>2. PICK o \in OrderIds : o = now.order
  BY <1>1, OrderNow DEF OrderOps
<1>3. PICK t \in Trades : t = o.trade
  BY TradeOfOrder
<1>4. PICK f \in BOOLEAN : f = (t \in Held /\ pos[t].prot)
  BY <1>1 DEF TypeOK, LedgerTypeOK, PositionRow
<1>5. /\ OnlyHeld(t)
      /\ \E n \in Nat : pos' = [pos EXCEPT ![t] =
           IF t \in Held THEN [pos[t] EXCEPT !.qty = @ + n]
           ELSE [NoPosition EXCEPT !.st = "open", !.qty = n]]
      /\ Then(IF Halted THEN <<TradeStep("emergency", t)>>
              ELSE <<Protect(t, f), TradeStep("review", t)>>)
  <2>1. Unapplied(o) > 0 /\ Unapplied(o) \in Int
    BY <1>1, <1>2 DEF EntryFillApplied, Unapplied, TypeOK, LedgerTypeOK, BookRow
  <2>2. Unapplied(o) \in Nat
    BY <2>1
  <2> QED BY <1>2, <1>3, <1>4, <2>2 DEF EntryFillApplied
<1>6. /\ Held' = Held \cup {t} /\ Held \subseteq Trades
      /\ \A u \in Trades : u # t => pos'[u] = pos[u]
      /\ t \in Held => /\ pos'[t].stop = pos[t].stop /\ pos'[t].trail = pos[t].trail
                       /\ pos'[t].prot = pos[t].prot
      /\ t \notin Held => pos'[t].stop = NoAlgo /\ pos'[t].prot = FALSE
  <2>1. pos \in [Trades -> PositionRow]
    BY <1>1 DEF TypeOK, LedgerTypeOK
  <2>2. PICK n \in Nat : pos' = [pos EXCEPT ![t] =
           IF t \in Held THEN [pos[t] EXCEPT !.qty = @ + n]
           ELSE [NoPosition EXCEPT !.st = "open", !.qty = n]]
    BY <1>5
  <2>3. /\ \A u \in Trades : u # t => pos'[u] = pos[u]
        /\ t \in Held => pos'[t] = [pos[t] EXCEPT !.qty = @ + n]
        /\ t \notin Held => pos'[t] = [NoPosition EXCEPT !.st = "open", !.qty = n]
    BY <2>1, <2>2
  <2>4. t \in Held => /\ pos'[t].stop = pos[t].stop /\ pos'[t].trail = pos[t].trail
                      /\ pos'[t].prot = pos[t].prot /\ pos'[t].st = pos[t].st
    BY <2>1, <2>3 DEF PositionRow
  <2>5. t \notin Held => pos'[t].stop = NoAlgo /\ pos'[t].prot = FALSE /\ pos'[t].st = "open"
    BY <2>3 DEF NoPosition
  <2>6. t \in Held'
    BY <2>4, <2>5 DEF Held
  <2>7. \A u \in Trades : u # t => (u \in Held' <=> u \in Held)
    BY <2>3 DEF Held
  <2>8. Held \subseteq Trades /\ Held' \subseteq Trades
    BY DEF Held
  <2>9. Held' = Held \cup {t}
    BY <2>6, <2>7, <2>8
  <2> QED BY <2>3, <2>4, <2>5, <2>8, <2>9
<1>7. OneHeld'
  BY <1>5, <1>6 DEF OneHeld, OnlyHeld, SettledInv, HeldSound
<1>8. OwnStops'
  BY <1>6, NoAlgoAssumption DEF OwnStops, SettledInv, HeldSound
<1>9. Segment
  BY <1>1, QuietSegment DEF EntryFillApplied, keepTask, account
<1>10. \A x \in Later : StepHeld(x)'
  <2>1. \A u \in Trades : Closable(u) => Closable(u)'
    BY <1>6 DEF Closable
  <2>2. \A x \in Later : x.op = "position" => x.trade \in Held'
    BY <1>1, <1>6, AgendaParts DEF SettledInv, HeldSound, StepHeld
  <2> QED BY <1>1, <1>9, <2>1, <2>2, LaterHeld DEF SettledInv, Segment
<1>11. Closable(t)'
  BY <1>6 DEF Closable
<1>12. \A u : ~Protecting(u)
  BY <1>1 DEF Protecting
<1>13. "emergency" \in Ops /\ "protect" \in Ops /\ "review" \in Ops
  BY DEF Ops, TradeOps
<1>14. CASE Halted
  <2>1. PICK x \in StepType :
          x = TradeStep("emergency", t) /\ x.op = "emergency" /\ x.trade = t
    BY <1>13, TradeParts
  <2>2. agenda' = <<x>> \o Tail(agenda) /\ <<x>> \in Seq(StepType)
    BY <1>5, <1>14, <2>1, OneStep DEF Then
  <2>3. (\A y \in StepsIn(<<x>>) : y = x) /\ x \in StepsIn(<<x>>)
    <3>1. 1 \in 1..Len(<<x>>) /\ <<x>>[1] = x
      OBVIOUS
    <3> QED BY <3>1 DEF StepsIn
  <2>4. Closing' /\ Doomed'
    BY <1>1, <2>1, <2>2, <2>3, ClosingThen
  <2>5. Fits(x)
    BY <1>1, <2>1
    DEF Fits, CloseOps, AskOps, EndOps, SnapshotOps, TradedOps, TradeOps, PlacementOps, FlatOps, TurnOps
  <2>6. StepHeld(x)'
    BY <1>11, <2>1 DEF StepHeld, AskOps
  <2>7. CalmSound'
    BY <2>4 DEF CalmSound, Calm
  <2>8. Follows(<<x>>)
    BY <2>5, FollowOne
  <2> QED
    BY <1>1, <1>7, <1>8, <1>9, <1>10, <2>2, <2>3, <2>4, <2>6, <2>7, <2>8, BooksSafe DEF EndOps
<1>15. CASE ~Halted
  <2>1. PICK x \in StepType :
          x = Protect(t, f) /\ x.op = "protect" /\ x.trade = t /\ x.force = f
    BY ProtectParts
  <2>2. PICK y \in StepType : y = TradeStep("review", t) /\ y.op = "review" /\ y.trade = t
    BY <1>13, TradeParts
  <2>3. agenda' = <<x, y>> \o Tail(agenda) /\ <<x, y>> \in Seq(StepType)
    BY <1>5, <1>15, <2>1, <2>2, TwoSteps DEF Then
  <2>4. \A z \in StepsIn(<<x, y>>) : z = x \/ z = y
    BY DEF StepsIn
  <2>5. Fits(x) /\ Fits(y) /\ Trailing(y)
    BY <1>1, <2>1, <2>2
    DEF Fits, CloseOps, AskOps, EndOps, SnapshotOps, TradedOps, TradeOps, PlacementOps, FlatOps,
        TurnOps, Trailing, FirstOps
  <2>6. StepHeld(x)' /\ StepHeld(y)'
    BY <1>4, <1>6, <1>11, <2>1, <2>2 DEF StepHeld, AskOps
  <2>7. Follows(<<x, y>>)
    BY <2>5, FollowTwo
  <2>8. /\ Protecting(t)' /\ Later \subseteq Todo'
    <3>1. <<x, y>> # <<>> /\ <<x, y>>[1] = x
      OBVIOUS
    <3>2. agenda' # <<>> /\ now' = x /\ Later \subseteq Todo'
      BY <1>1, <2>3, <3>1, AgendaThen
    <3> QED BY <2>1, <3>2 DEF Protecting
  <2>9. \A u \in Held' : pos'[u].prot \/ Protecting(u)' \/ (u \in Held /\ ~pos[u].prot /\ ~Protecting(u))
    BY <1>6, <1>12, <2>8
  <2>10. CalmSound'
    <3> SUFFICES ASSUME Calm'
                 PROVE  /\ Looking' = "idle" => IdleSound'
                        /\ Looking' = "applying" => ApplySound'
      BY DEF CalmSound
    <3>1. Doomed => Doomed'
      BY <1>1, <2>3, ClosingThen
    <3>2. Calm
      BY <1>9, <3>1, SegmentCalm
    <3>3. Looking # "applying"
      BY <1>1, <3>2, FillsWhenIdle
    <3>4. Moving'
      BY <2>8 DEF Moving
    <3>5. \A u \in Held' : u # t => u \in Held /\ pos'[u] = pos[u]
      BY <1>6
    <3>6. \A a \in algos : a \in Recorded => a \in Recorded'
      BY <1>6 DEF Recorded
    <3> QED BY <1>1, <1>9, <2>8, <3>1, <3>3, <3>4, <3>5, <3>6, IdleAfter
  <2> QED
    BY <1>1, <1>7, <1>8, <1>9, <1>10, <2>3, <2>4, <2>6, <2>7, <2>9, <2>10, BooksSafe DEF EndOps
<1> QED BY <1>14, <1>15

\* _cancel_position_algos cancels the stops of the position that are listed.
LEMMA CancelPositionSteps ==
    ASSUME TypeOK, NEW p \in Trades, NEW among \in SUBSET AlgoIds, now.op # "cancel_algo",
           Then(CancelPositionAlgos(p, among))
    PROVE  \E steps \in Seq(StepType) :
             /\ agenda' = steps \o Tail(agenda) /\ Follows(steps)
             /\ \A x \in StepsIn(steps) : StepHeld(x)' /\ x.op = "cancel_algo"
             /\ \A a \in among : a \in {pos[p].stop, pos[p].trail} =>
                  \E x \in StepsIn(steps) : x.op = "cancel_algo" /\ x.algo = a
<1> DEFINE one == IF pos[p].trail \in among THEN <<pos[p].trail>> ELSE <<>>
           two == IF pos[p].stop \in among THEN <<pos[p].stop>> ELSE <<>>
<1>1. one \in Seq(AlgoIds) /\ two \in Seq(AlgoIds)
  <2>1. CASE pos[p].trail \in among
    <3>1. <<pos[p].trail>> \in Seq(AlgoIds)
      BY <2>1, OneStep
    <3>2. one \in Seq(AlgoIds)
      BY <2>1, <3>1
    <3>3. two \in Seq(AlgoIds)
      BY OneStep, NoSteps
    <3> QED BY <3>2, <3>3
  <2>2. CASE pos[p].trail \notin among
    BY <2>2, OneStep, NoSteps
  <2> QED BY <2>1, <2>2
<1>2. one \o two \in Seq(AlgoIds)
  BY <1>1, ConcatProperties
<1>3. PICK as \in Seq(AlgoIds) : as = one \o two
  BY <1>2
<1>4. \A a \in among : a \in {pos[p].stop, pos[p].trail} => \E i \in 1..Len(as) : as[i] = a
  <2> SUFFICES ASSUME NEW a \in among, a \in {pos[p].stop, pos[p].trail}
               PROVE  a \in StepsIn(as)
    BY DEF StepsIn
  <2>1. StepsIn(as) = StepsIn(one) \cup StepsIn(two)
    <3> HIDE DEF one, two
    <3>1. PICK s \in Seq(AlgoIds), t \in Seq(AlgoIds) : s = one /\ t = two
      BY <1>1
    <3> QED BY <1>3, <3>1, ConcatSteps
  <2>2. a = pos[p].trail => one = <<a>>
    OBVIOUS
  <2>3. a = pos[p].stop => two = <<a>>
    OBVIOUS
  <2>4. a \in StepsIn(<<a>>)
    BY SingleStep
  <2> QED BY <2>1, <2>2, <2>3, <2>4
<1>5. CancelPositionAlgos(p, among) = CancelAlgos(as)
  BY <1>3 DEF CancelPositionAlgos
<1>6. PICK steps \in Seq(StepType) :
        /\ steps = CancelAlgos(as) /\ Follows(steps)
        /\ \A x \in StepsIn(steps) : StepHeld(x)'
        /\ \A i \in 1..Len(as) :
             steps[i] \in StepsIn(steps) /\ steps[i].op = "cancel_algo" /\ steps[i].algo = as[i]
        /\ \A x \in StepsIn(steps) : x.op = "cancel_algo"
  BY CancelSteps
<1>7. agenda' = steps \o Tail(agenda)
  BY <1>5, <1>6 DEF Then
<1> HIDE DEF one, two
<1>8. \A a \in among : a \in {pos[p].stop, pos[p].trail} =>
        \E x \in StepsIn(steps) : x.op = "cancel_algo" /\ x.algo = a
  <2> SUFFICES ASSUME NEW a \in among, a \in {pos[p].stop, pos[p].trail}
               PROVE  \E x \in StepsIn(steps) : x.op = "cancel_algo" /\ x.algo = a
    OBVIOUS
  <2>1. PICK i \in 1..Len(as) : as[i] = a
    BY <1>4
  <2>2. steps[i] \in StepsIn(steps) /\ steps[i].op = "cancel_algo" /\ steps[i].algo = a
    BY <1>6, <2>1
  <2> QED BY <2>2
<1>9. \A x \in StepsIn(steps) : StepHeld(x)' /\ x.op = "cancel_algo"
  BY <1>6
<1>10. steps \in Seq(StepType) /\ Follows(steps)
  BY <1>6
<1> QED BY <1>7, <1>8, <1>9, <1>10

\* _apply_exit_fill closes the position or reduces it, and protects what is left.
LEMMA ExitFillSettled ==
    ASSUME SettledInv, TypeOK', ExitFillApplied
    PROVE  SettledInv'
<1>1. agenda # <<>> /\ now.op = "exit_fill" /\ TypeOK
  BY DEF ExitFillApplied, Due, SettledInv
<1>2. PICK o \in OrderIds, p \in Trades : o = now.order /\ p = now.trade
  BY <1>1, PlacementNow DEF PlacementOps
<1>3. PICK left \in Nat :
        /\ left < pos[p].qty
        /\ pos' = [pos EXCEPT ![p].qty = left,
                              ![p].st = IF left > 0 THEN "open" ELSE "closed"]
        /\ Then(IF left > 0 THEN <<Protect(p, TRUE), Retrail(p)>>
                ELSE CancelPositionAlgos(p, AlgoIds))
  <2>1. pos[p].qty \in Nat /\ Unapplied(o) \in Int
    BY <1>1, <1>2 DEF Unapplied, TypeOK, LedgerTypeOK, BookRow, PositionRow
  <2>2. ExitDelta(o, p) > 0 /\ ExitDelta(o, p) \in Int /\ ExitDelta(o, p) <= pos[p].qty
    BY <1>2, <2>1 DEF ExitFillApplied, ExitDelta
  <2>3. PICK left : left = pos[p].qty - ExitDelta(o, p)
    OBVIOUS
  <2>4. left \in Nat /\ left < pos[p].qty
    BY <2>1, <2>2, <2>3
  <2> QED BY <1>2, <2>3, <2>4 DEF ExitFillApplied
<1>4. p \in Held
  <2>1. Closable(p)
    BY <1>1, <1>2, NowFacts DEF StepHeld
  <2>2. pos[p].qty \in Nat
    BY <1>1 DEF TypeOK, LedgerTypeOK, PositionRow
  <2> QED BY <1>3, <2>1, <2>2 DEF Closable
<1>5. /\ Held' = IF left > 0 THEN Held ELSE Held \ {p}
      /\ Held \subseteq Trades /\ pos'[p].qty = left
      /\ \A u \in Trades : u # p => pos'[u] = pos[u]
      /\ \A u \in Trades : /\ pos'[u].stop = pos[u].stop /\ pos'[u].trail = pos[u].trail
                           /\ pos'[u].prot = pos[u].prot
  <2>1. pos \in [Trades -> PositionRow]
    BY <1>1 DEF TypeOK, LedgerTypeOK
  <2>2. PICK st : st = IF left > 0 THEN "open" ELSE "closed"
    OBVIOUS
  <2>3. /\ \A u \in Trades : u # p => pos'[u] = pos[u]
        /\ pos'[p] = [pos[p] EXCEPT !.qty = left, !.st = st]
    BY <1>3, <2>1, <2>2
  <2>4. /\ pos'[p].stop = pos[p].stop /\ pos'[p].trail = pos[p].trail
        /\ pos'[p].prot = pos[p].prot /\ pos'[p].qty = left /\ pos'[p].st = st
    BY <2>1, <2>3 DEF PositionRow
  <2>5. p \in Held' <=> left > 0
    BY <2>2, <2>4 DEF Held
  <2>6. \A u \in Trades : u # p => (u \in Held' <=> u \in Held)
    BY <2>3 DEF Held
  <2>7. Held \subseteq Trades /\ Held' \subseteq Trades
    BY DEF Held
  <2>8. Held' = IF left > 0 THEN Held ELSE Held \ {p}
    BY <1>4, <2>5, <2>6, <2>7
  <2> QED BY <2>3, <2>4, <2>7, <2>8
<1>6. OneHeld' /\ Held' \subseteq Held
  BY <1>5 DEF OneHeld, SettledInv, HeldSound
<1>7. OwnStops'
  BY <1>5 DEF OwnStops, SettledInv, HeldSound
<1>8. Segment
  BY <1>1, QuietSegment DEF ExitFillApplied, keepTask, account
<1>9. \A x \in Later : StepHeld(x)'
  <2>1. \A u \in Trades : Closable(u) => Closable(u)'
    <3>1. \A u \in Trades : u # p => (Closable(u) => Closable(u)')
      BY <1>5 DEF Closable
    <3>2. Closable(p)'
      <4>1. p \in Held' \/ left = 0
        BY <1>3, <1>4, <1>5
      <4> QED BY <1>5, <4>1 DEF Closable
    <3> QED BY <3>1, <3>2
  <2>2. \A x \in Later : x.op = "position" => x.trade \in Held'
    <3>1. \A x \in Later : x.op = "position" => x.trade # p
      BY <1>1, <1>2, NowFacts DEF TradedOps, PlacementOps
    <3>2. \A x \in Later : x.op = "position" => x.trade \in Held
      BY <1>1, AgendaParts DEF SettledInv, HeldSound, StepHeld
    <3> QED BY <1>5, <3>1, <3>2
  <2> QED BY <1>1, <1>8, <2>1, <2>2, LaterHeld DEF SettledInv, Segment
<1>10. \A u : ~Protecting(u)
  BY <1>1 DEF Protecting
<1>11. \A u \in Held' : pos'[u].prot \/ (u \in Held /\ ~pos[u].prot /\ ~Protecting(u))
  BY <1>5, <1>6, <1>10
<1>12. \A u \in Held' : u # p => u \in Held /\ pos'[u] = pos[u]
  BY <1>5, <1>6
<1>13. ASSUME NEW steps \in Seq(StepType), agenda' = steps \o Tail(agenda), Follows(steps),
              \A x \in StepsIn(steps) : StepHeld(x)', p \in Held' => Protecting(p)',
              Looking = "idle" /\ Calm => Moving' \/ ~IdleSound,
              \A a \in algos : a \in Recorded => a \in Recorded' \/ Cancelling(a)'
       PROVE  SettledInv'
  <2>1. CalmSound'
    <3> SUFFICES ASSUME Calm'
                 PROVE  /\ Looking' = "idle" => IdleSound'
                        /\ Looking' = "applying" => ApplySound'
      BY DEF CalmSound
    <3>1. Doomed => Doomed'
      BY <1>1, <1>13, ClosingThen
    <3>2. Calm
      BY <1>8, <3>1, SegmentCalm
    <3>3. Looking # "applying"
      BY <1>1, <3>2, FillsWhenIdle
    <3>4. Later \subseteq Todo'
      BY <1>1, <1>13, AgendaThen
    <3> QED BY <1>1, <1>8, <1>12, <1>13, <3>1, <3>2, <3>3, <3>4, IdleAfter
  <2> QED
    BY <1>1, <1>6, <1>7, <1>8, <1>9, <1>11, <1>13, <2>1, BooksSafe DEF EndOps
<1>14. CASE left > 0
  <2>1. PICK x \in StepType :
          x = Protect(p, TRUE) /\ x.op = "protect" /\ x.trade = p /\ x.force = TRUE
    BY ProtectParts
  <2>2. PICK y \in StepType : y = Retrail(p) /\ y.op = "trail" /\ y.trade = p
    BY RetrailParts
  <2>3. agenda' = <<x, y>> \o Tail(agenda) /\ <<x, y>> \in Seq(StepType)
    BY <1>3, <1>14, <2>1, <2>2, TwoSteps DEF Then
  <2>4. \A z \in StepsIn(<<x, y>>) : z = x \/ z = y
    BY DEF StepsIn
  <2>5. Fits(x) /\ Fits(y) /\ Trailing(y)
    BY <1>1, <1>2, <2>1, <2>2
    DEF Fits, CloseOps, AskOps, EndOps, SnapshotOps, TradedOps, TradeOps, PlacementOps, FlatOps,
        TurnOps, Trailing, FirstOps
  <2>6. Closable(p)'
    BY <1>4, <1>5, <1>14 DEF Closable
  <2>7. StepHeld(x)' /\ StepHeld(y)'
    BY <2>1, <2>2, <2>6 DEF StepHeld, AskOps
  <2>8. Follows(<<x, y>>)
    BY <2>5, FollowTwo
  <2>9. Protecting(p)'
    <3>1. <<x, y>> # <<>> /\ <<x, y>>[1] = x
      OBVIOUS
    <3>2. agenda' # <<>> /\ now' = x
      BY <1>1, <2>3, <3>1, AgendaThen
    <3> QED BY <2>1, <3>2 DEF Protecting
  <2>10. Moving'
    BY <2>9 DEF Moving
  <2>11. \A a \in algos : a \in Recorded => a \in Recorded'
    BY <1>5, <1>14 DEF Recorded
  <2> QED BY <1>13, <2>3, <2>4, <2>7, <2>8, <2>9, <2>10, <2>11
<1>15. CASE left = 0
  <2>0. p \notin Held'
    BY <1>5, <1>15
  <2>1. algos \subseteq AlgoIds
    BY <1>1 DEF TypeOK, AccountTypeOK
  <2>2. PICK steps \in Seq(StepType) :
             /\ agenda' = steps \o Tail(agenda) /\ Follows(steps)
             /\ \A x \in StepsIn(steps) : StepHeld(x)' /\ x.op = "cancel_algo"
             /\ \A a \in AlgoIds : a \in {pos[p].stop, pos[p].trail} =>
                  \E x \in StepsIn(steps) : x.op = "cancel_algo" /\ x.algo = a
    BY <1>1, <1>3, <1>15, CancelPositionSteps
  <2>3. Todo' = StepsIn(steps) \cup Later
    BY <1>1, <2>2, AgendaThen
  <2>4. \A a \in algos : a \in {pos[p].stop, pos[p].trail} => Cancelling(a)'
    BY <2>1, <2>2, <2>3 DEF Cancelling
  <2>5. \A a \in algos : a \in Recorded => a \in Recorded' \/ Cancelling(a)'
    BY <1>5, <1>15, <2>4 DEF Recorded
  <2>6. Looking = "idle" /\ Calm => Moving' \/ ~IdleSound
    <3> SUFFICES ASSUME Looking = "idle", Calm, IdleSound PROVE Moving'
      OBVIOUS
    <3>1. pos[p].stop \in algos
      BY <1>4, <1>10 DEF IdleSound, Covered
    <3>2. Calm' => algos' = algos
      BY <1>8 DEF Segment, Calm
    <3>3. algos' = algos
      BY DEF ExitFillApplied, account
    <3> QED BY <2>4, <3>1, <3>3 DEF Moving
  <2> QED BY <1>13, <2>0, <2>2, <2>5, <2>6
<1>16. left > 0 \/ left = 0
  BY <1>3
<1> QED BY <1>14, <1>15, <1>16

-----------------------------------------------------------------------------
(***************************************************************************)
(* Applying a snapshot.                                                    *)
(***************************************************************************)

\* The task that applies a snapshot is the one that counts.
LEMMA ReconcilerWatches ==
    ASSUME SettledInv, Reconciling
    PROVE  owner = Watcher /\ Looking = "applying"
<1>1. owner = Watcher
  BY DEF SettledInv, LockSound, Reconciling, Reconcilers, Watcher, TypeOK, TaskTypeOK
<1> QED BY <1>1 DEF Reconciling, Looking

\* In the calm it is the account.
LEMMA CalmSnapshot ==
    ASSUME SettledInv, Reconciling, Calm
    PROVE  /\ Looking = "applying" /\ taken.short = short /\ taken.algos = algos
           /\ ApplySound
BY ReconcilerWatches DEF SettledInv, SnapshotFresh, CalmSound, Calm, taken

\* SetToSeq holds every element of a finite set once.
LEMMA Enumerated ==
    ASSUME NEW S, IsFiniteSet(S)
    PROVE  /\ SetToSeq(S) \in Seq(S) /\ StepsIn(SetToSeq(S)) = S
           /\ \A i, j \in 1..Len(SetToSeq(S)) : SetToSeq(S)[i] = SetToSeq(S)[j] => i = j
<1> DEFINE D == 1..Cardinality(S)
           q == SetToSeq(S)
<1>1. Cardinality(S) \in Nat /\ IsFiniteSet(D) /\ Cardinality(D) = Cardinality(S)
  BY FS_CardinalityType, FS_Interval
<1>2. PICK f \in Bijection(1..Cardinality(S), S) : TRUE
  BY FS_CardinalityType DEF ExistsBijection
<1>3. f \in [D -> S] /\ IsInjective(f)
  BY <1>2 DEF Bijection, Injection, IsInjective
<1>4. q \in [D -> S] /\ IsInjective(q)
  BY <1>3 DEF SetToSeq
<1> HIDE DEF q
<1>5. q \in Injection(D, S)
  BY <1>4 DEF Injection, IsInjective
<1>6. q \in Surjection(D, S)
  BY <1>1, <1>5, FS_Injection
<1>7. q \in Seq(S) /\ Len(q) = Cardinality(S)
  <2> DEFINE n == Cardinality(S)
  <2>1. n \in Nat /\ q \in [1..n -> S]
    BY <1>1, <1>4
  <2> HIDE DEF n
  <2>2. q \in Seq(S) /\ Len(q) = n
    BY <2>1, LengthOf
  <2> QED BY <2>2 DEF n
<1>8. StepsIn(q) = S
  <2>1. \A x \in S : \E i \in D : q[i] = x
    BY <1>6 DEF Surjection
  <2>2. \A i \in D : q[i] \in S
    BY <1>4
  <2> QED BY <1>7, <2>1, <2>2 DEF StepsIn
<1>9. \A i, j \in 1..Len(q) : q[i] = q[j] => i = j
  BY <1>4, <1>7 DEF IsInjective
<1> QED BY <1>7, <1>8, <1>9 DEF q

\* The segments of a reconcile between its stages.
LEMMA EndSafe ==
    ASSUME SettledInv, TypeOK', Segment, UNCHANGED pos, now.op \in EndOps, ShapeSound',
           \A x \in Todo' : StepHeld(x)',
           \A x \in Todo' : x.op \notin CloseOps,
           CalmSound'
    PROVE  SettledInv'
<1>1. LockSound' /\ SnapshotFresh'
  BY SegmentLock, SegmentFresh DEF SettledInv
<1>2. Held' = Held /\ HeldSound'
  BY DEF HeldSound, SettledInv, OneHeld, OwnStops, Held
<1>3. Todo = {now}
  BY NowFacts, AgendaParts DEF Segment, SettledInv
<1>4. ~Closing /\ \A t : ~Protecting(t)
  BY <1>3 DEF Closing, Protecting, EndOps
<1>5. ProtSound'
  BY <1>2, <1>4 DEF ProtSound, SettledInv, Segment
<1>6. ClosingSound'
  BY DEF ClosingSound
<1> QED BY <1>1, <1>2, <1>5, <1>6 DEF SettledInv

\* A reconcile finds the positions the account no longer has and the orders no row knows.
LEMMA ReconcileSettled ==
    ASSUME SettledInv, TypeOK', Reconcile
    PROVE  SettledInv'
<1> DEFINE closed == {t \in Held : taken.short[SymbolOf[t]] = 0}
           unknown == taken.orders \ loaded
           gone == SetToSeq(closed)
           lost == SetToSeq(unknown)
           flats == [i \in 1..Len(gone) |-> TradeStep("flat", gone[i])]
           cancels == [i \in 1..Len(lost) |-> OrderStep("cancel_order", lost[i], NoTrade)]
           e == Step("positions")
<1>1. agenda # <<>> /\ now.op = "reconcile" /\ TypeOK
  BY DEF Reconcile, Due, SettledInv
<1>2. Len(agenda) = 1 /\ Tail(agenda) = <<>> /\ Reconciling /\ Todo = {now}
  BY <1>1, NowFacts, AgendaParts DEF EndOps, SnapshotOps
<1>3. owner \in Reconcilers /\ taken \in Snapshot
  BY <1>1, SnapshotNow DEF SnapshotOps
<1>4. closed \subseteq Trades /\ IsFiniteSet(closed)
  BY FS_Subset, AccountAssumption DEF Held
<1>5. unknown \subseteq OrderIds /\ IsFiniteSet(unknown)
  BY <1>3, OrderIdsFinite, FS_Subset DEF Snapshot
<1>6. gone \in Seq(closed) /\ lost \in Seq(unknown)
  <2> HIDE DEF closed, unknown
  <2> QED BY <1>4, <1>5, SetToSeqType
<1>7. /\ flats \in Seq(StepType)
      /\ \A x \in StepsIn(flats) : x.op = "flat" /\ taken.short[SymbolOf[x.trade]] = 0
  <2>1. Len(gone) \in Nat /\ \A i \in 1..Len(gone) : gone[i] \in closed
    BY <1>6, LenProperties, ElementOfSeq
  <2>2. "flat" \in Ops
    BY DEF Ops, TradeOps
  <2>3. \A i \in 1..Len(gone) :
          /\ TradeStep("flat", gone[i]) \in StepType /\ TradeStep("flat", gone[i]).op = "flat"
          /\ taken.short[SymbolOf[TradeStep("flat", gone[i]).trade]] = 0
    <3> SUFFICES ASSUME NEW t \in closed
                 PROVE  /\ TradeStep("flat", t) \in StepType /\ TradeStep("flat", t).op = "flat"
                        /\ taken.short[SymbolOf[TradeStep("flat", t).trade]] = 0
      BY <2>1
    <3>1. t \in Trades /\ taken.short[SymbolOf[t]] = 0
      BY <1>4
    <3>2. /\ TradeStep("flat", t) \in StepType /\ TradeStep("flat", t).op = "flat"
          /\ TradeStep("flat", t).trade = t
      BY <2>2, <3>1, TradeParts
    <3> QED BY <3>1, <3>2
  <2> HIDE DEF gone
  <2>4. flats \in [1..Len(gone) -> StepType]
    BY <2>3
  <2>5. flats \in Seq(StepType) /\ Len(flats) = Len(gone)
    <3> HIDE DEF flats
    <3> QED BY <2>1, <2>4, LengthOf
  <2> QED BY <2>3, <2>5 DEF StepsIn
<1>8. cancels \in Seq(StepType) /\ \A x \in StepsIn(cancels) : x.op = "cancel_order"
  <2>1. Len(lost) \in Nat /\ \A i \in 1..Len(lost) : lost[i] \in OrderIds
    BY <1>5, <1>6, LenProperties, ElementOfSeq
  <2>2. "cancel_order" \in Ops
    BY DEF Ops, OrderOps
  <2>3. \A o \in OrderIds : /\ OrderStep("cancel_order", o, NoTrade) \in StepType
                            /\ OrderStep("cancel_order", o, NoTrade).op = "cancel_order"
    BY <2>2 DEF OrderStep, Step, StepType
  <2> HIDE DEF lost
  <2>4. cancels \in [1..Len(lost) -> StepType]
    BY <2>1, <2>3
  <2>5. cancels \in Seq(StepType) /\ Len(cancels) = Len(lost)
    <3> HIDE DEF cancels
    <3> QED BY <2>1, <2>4, LengthOf
  <2> QED BY <2>1, <2>3, <2>5 DEF StepsIn
<1>9. agenda' = ((flats \o cancels) \o <<e>>) \o <<>>
  BY <1>2, Zenon DEF Reconcile, Then
<1>10. e.op = "positions" /\ e \in StepType
  <2>1. "positions" \in Ops
    BY DEF Ops, SnapshotOps
  <2> QED BY <2>1 DEF Step, StepType
<1> HIDE DEF flats, cancels, e
<1>11. PICK front \in Seq(StepType) :
         /\ front = flats \o cancels
         /\ StepsIn(front) = StepsIn(flats) \cup StepsIn(cancels)
  <2>1. PICK s \in Seq(StepType), t \in Seq(StepType) : s = flats /\ t = cancels
    BY <1>7, <1>8
  <2>2. s \o t \in Seq(StepType)
    BY ConcatProperties
  <2>3. StepsIn(s \o t) = StepsIn(s) \cup StepsIn(t)
    BY ConcatSteps
  <2> QED BY <2>1, <2>2, <2>3
<1>12. agenda' = front \o <<e>>
  <2>1. front \o <<e>> \in Seq(StepType)
    BY <1>10, <1>11, OneStep, ConcatProperties
  <2> QED BY <1>9, <1>11, <2>1, ConcatEmptySeq
<1>13. \A x \in StepsIn(front) :
         /\ x.op \in {"flat", "cancel_order"}
         /\ x.op = "flat" => taken.short[SymbolOf[x.trade]] = 0
  BY <1>7, <1>8, <1>11
<1>14. Segment /\ UNCHANGED pos
  BY <1>1, QuietSegment DEF Reconcile, keepTask, account
<1>15. Reconciling' /\ taken' = taken
  BY <1>2, <1>14 DEF Segment, Reconciling, taken
<1>16. ShapeSound' /\ agenda' # <<>> /\ Final' = e /\ Todo' = StepsIn(front) \cup {e}
  <2>1. \A i \in 1..Len(front) : front[i] \in StepsIn(front)
    BY DEF StepsIn
  <2>2. \A i \in 1..Len(front) :
         /\ front[i].op \in {"flat", "cancel_order"}
         /\ front[i].op = "flat" => taken'.short[SymbolOf[front[i].trade]] = 0
    BY <1>13, <1>15, <2>1
  <2>3. \A i \in 1..Len(front) : \A j \in (i + 1)..Len(front) : front[j].op # "position"
    <3>1. Len(front) \in Nat
      BY LenProperties
    <3>2. \A i \in 1..Len(front) : \A j \in (i + 1)..Len(front) : j \in 1..Len(front)
      BY <3>1
    <3> QED BY <2>2, <3>2
  <2> QED
    BY <1>10, <1>12, <1>15, <2>2, <2>3, ShapeEnd DEF EndOps, FirstOps, SnapshotOps, FlatOps
<1>17. \A x \in Todo' : x.op \in {"flat", "cancel_order", "positions"}
  BY <1>10, <1>13, <1>16
<1>18. \A x \in Todo' : StepHeld(x)' /\ x.op \notin CloseOps
  BY <1>17 DEF StepHeld, AskOps, CloseOps
<1>19. CalmSound'
  <2> SUFFICES ASSUME Calm'
               PROVE  /\ Looking' = "idle" => IdleSound'
                      /\ Looking' = "applying" => ApplySound'
    BY DEF CalmSound
  <2>1. ~Doomed
    BY <1>1, <1>2 DEF Doomed
  <2>2. Calm /\ Looking' = Looking
    BY <1>14, <2>1, SegmentCalm
  <2>3. Looking = "applying" /\ taken.short = short
    BY <1>2, <2>2, CalmSnapshot
  <2>4. Orphans = {}
    BY DEF Reconcile, Calm
  <2>5. \A s \in Symbols : Flat(s)'
    <3> SUFFICES ASSUME NEW s \in Symbols, HeldAt(s)' = {} PROVE short'[s] = 0
      BY DEF Flat
    <3>1. HeldAt(s) = {} /\ short' = short /\ short[s] \in Nat
      BY <1>1, <1>14 DEF HeldAt, Held, Segment, TypeOK, AccountTypeOK
    <3>2. \A t \in Held : SymbolOf[t] # s
      BY <3>1 DEF HeldAt
    <3>3. ~(taken.short[s] > 0)
      BY <2>4, <3>2 DEF Orphans
    <3> QED BY <2>3, <3>1, <3>3
  <2>6. ApplySound'
    BY <1>10, <1>16, <2>5 DEF ApplySound, EndOps
  <2> QED BY <2>2, <2>3, <2>6
<1> QED BY <1>1, <1>14, <1>16, <1>18, <1>19, EndSafe DEF EndOps

\* A position the account no longer has is closed in the books.
LEMMA CloseFlatSettled ==
    ASSUME SettledInv, TypeOK', CloseFlat
    PROVE  SettledInv'
<1>1. agenda # <<>> /\ now.op = "flat" /\ TypeOK
  BY DEF CloseFlat, Due, SettledInv
<1>2. PICK p \in Trades : p = now.trade
  BY <1>1, TradeNow DEF TradeOps
<1>3. /\ Reconciling /\ Final.op = "positions" /\ taken.short[SymbolOf[p]] = 0
      /\ taken \in Snapshot
  BY <1>1, <1>2, NowFacts, SnapshotNow DEF SnapshotOps
<1>4. PICK among \in SUBSET AlgoIds : among = taken.algos
  BY <1>3 DEF Snapshot
<1>5. PICK steps \in Seq(StepType) :
             /\ agenda' = steps \o Tail(agenda) /\ Follows(steps)
             /\ \A x \in StepsIn(steps) : StepHeld(x)' /\ x.op = "cancel_algo"
  BY <1>1, <1>2, <1>4, CancelPositionSteps DEF CloseFlat
<1>6. /\ Held' = Held \ {p} /\ Held \subseteq Trades
      /\ \A t \in Trades : /\ pos'[t].stop = pos[t].stop /\ pos'[t].prot = pos[t].prot
  <2>1. pos \in [Trades -> PositionRow] /\ pos' = [pos EXCEPT ![p].st = "closed"]
    BY <1>1, <1>2 DEF CloseFlat, TypeOK, LedgerTypeOK
  <2>2. /\ \A t \in Trades : t # p => pos'[t] = pos[t]
        /\ pos'[p] = [pos[p] EXCEPT !.st = "closed"]
    BY <2>1
  <2>3. pos'[p].st = "closed" /\ pos'[p].stop = pos[p].stop /\ pos'[p].prot = pos[p].prot
    BY <2>1, <2>2 DEF PositionRow
  <2>4. p \notin Held' /\ \A t \in Trades : t # p => (t \in Held' <=> t \in Held)
    BY <2>2, <2>3 DEF Held
  <2>5. Held' \subseteq Trades /\ Held \subseteq Trades
    BY DEF Held
  <2>6. Held' = Held \ {p}
    BY <2>4, <2>5
  <2> QED BY <2>2, <2>3, <2>5, <2>6
<1>7. OneHeld' /\ OwnStops'
  BY <1>6 DEF OneHeld, OwnStops, SettledInv, HeldSound
<1>8. Segment
  BY <1>1, QuietSegment DEF CloseFlat, keepTask, keepMarket, keepStream
<1>9. \A x \in Later : StepHeld(x)'
  <2>1. \A x \in Later : x.op \in FlatOps
    BY <1>1, <1>3, AgendaParts DEF SettledInv, ShapeSound
  <2> QED BY <2>1 DEF FlatOps, StepHeld, AskOps
<1>10. \A t \in Held' : pos'[t].prot \/ (t \in Held /\ ~pos[t].prot /\ ~Protecting(t))
  BY <1>1, <1>6 DEF Protecting
<1>11. Doomed => Doomed'
  BY <1>1, <1>5, ClosingThen
<1>12. CalmSound'
  <2> SUFFICES ASSUME Calm'
               PROVE  /\ Looking' = "idle" => IdleSound'
                      /\ Looking' = "applying" => ApplySound'
    BY DEF CalmSound
  <2>1. Calm /\ Looking' = Looking
    BY <1>8, <1>11, SegmentCalm
  <2>2. Looking = "applying" /\ taken.short = short /\ ApplySound
    BY <1>3, <2>1, CalmSnapshot
  <2>3. Len(agenda) # 1
    BY <1>1, <1>3, AgendaParts
  <2>4. agenda' # <<>> /\ Final' = Final
    BY <1>1, <1>5, <2>3, AgendaThen
  <2>5. \A s \in Symbols : Flat(s)
    BY <1>3, <2>2 DEF ApplySound
  <2>6. \A s \in Symbols : Flat(s)'
    <3> SUFFICES ASSUME NEW s \in Symbols, HeldAt(s)' = {} PROVE short'[s] = 0
      BY DEF Flat
    <3>1. short' = short
      BY <1>8 DEF Segment
    <3>2. CASE s = SymbolOf[p]
      BY <1>3, <2>2, <3>1, <3>2
    <3>3. CASE s # SymbolOf[p]
      <4>1. HeldAt(s) = {}
        BY <1>6, <3>3 DEF HeldAt
      <4> QED BY <2>5, <3>1, <4>1 DEF Flat
    <3> QED BY <3>2, <3>3
  <2>7. ApplySound'
    BY <1>3, <2>4, <2>6 DEF ApplySound, EndOps
  <2> QED BY <2>1, <2>2, <2>7
<1> QED
  BY <1>1, <1>5, <1>7, <1>8, <1>9, <1>10, <1>12, BooksSafe DEF EndOps

\* The loop of a reconcile goes on, or raises since positions were closed meanwhile.
LEMMA IterateSettled ==
    ASSUME SettledInv, TypeOK', ReconcileIterate
    PROVE  SettledInv'
<1>1. agenda # <<>> /\ now.op = "iterate" /\ TypeOK
  BY DEF ReconcileIterate, Due, SettledInv
<1>2. Segment /\ SameBooks
  BY <1>1, QuietSegment, SamePos DEF ReconcileIterate, keepTask, account
<1>3. CASE Then(<<>>)
  BY <1>1, <1>2, <1>3, AsideDone DEF EndOps
<1>4. CASE Return(<<Step("raise")>>)
  <2>1. \A x \in Later : x.op \in {"position", "iterate", "strays"}
    BY <1>1, NowFacts
  <2>2. ~Closing
    BY <1>1, <2>1, AgendaParts DEF Closing
  <2> QED BY <1>1, <1>2, <1>4, <2>2, RaiseOnly, Abandon
<1> QED BY <1>3, <1>4 DEF ReconcileIterate

\* A symbol without a position stays without one, and short by as much.
LEMMA FlatKept ==
    ASSUME UNCHANGED <<pos, short>>
    PROVE  Held' = Held /\ \A s \in Symbols : Flat(s) => Flat(s)'
BY DEF Held, Flat, HeldAt

\* The turn of each position, and the step to the next one, as ReconcilePositions lists them.
TurnsOf(ps, iterate) ==
    [i \in 1..(2 * Len(ps)) |->
       IF i % 2 = 1 THEN TradeStep("position", ps[(i + 1) \div 2]) ELSE iterate]

\* The turns of a reconcile: every position has one, and none has two.
LEMMA TurnSteps ==
    ASSUME NEW ps \in Seq(Trades), NEW iterate \in StepType, iterate.op = "iterate",
           \A i, j \in 1..Len(ps) : ps[i] = ps[j] => i = j
    PROVE  /\ TurnsOf(ps, iterate) \in Seq(StepType) /\ Len(TurnsOf(ps, iterate)) = 2 * Len(ps)
           /\ \A i \in 1..Len(TurnsOf(ps, iterate)) :
                \/ TurnsOf(ps, iterate)[i].op = "iterate"
                \/ /\ TurnsOf(ps, iterate)[i].op = "position"
                   /\ TurnsOf(ps, iterate)[i].trade \in StepsIn(ps)
           /\ \A i \in 1..Len(TurnsOf(ps, iterate)) : \A j \in (i + 1)..Len(TurnsOf(ps, iterate)) :
                /\ TurnsOf(ps, iterate)[j].op \in {"position", "iterate"}
                /\ TurnsOf(ps, iterate)[i].op = "position"
                     /\ TurnsOf(ps, iterate)[j].op = "position" =>
                   TurnsOf(ps, iterate)[j].trade # TurnsOf(ps, iterate)[i].trade
           /\ \A p \in StepsIn(ps) :
                \E x \in StepsIn(TurnsOf(ps, iterate)) : x.op = "position" /\ x.trade = p
<1> DEFINE n == Len(ps)
           turns == TurnsOf(ps, iterate)
<1>1. n \in Nat /\ \A k \in 1..n : ps[k] \in Trades /\ ps[k] \in StepsIn(ps)
  BY LenProperties, ElementOfSeq DEF StepsIn
<1>2. "position" \in Ops
  BY DEF Ops, TradeOps
<1>3. \A k \in 1..n : /\ TradeStep("position", ps[k]) \in StepType
                      /\ TradeStep("position", ps[k]).op = "position"
                      /\ TradeStep("position", ps[k]).trade = ps[k]
  <2>1. \A p \in Trades : /\ TradeStep("position", p) \in StepType
                          /\ TradeStep("position", p).op = "position"
                          /\ TradeStep("position", p).trade = p
    BY <1>2, TradeParts
  <2> QED BY <1>1, <2>1
<1>4. \A i \in 1..(2 * n) : i % 2 = 1 => (i + 1) \div 2 \in 1..n
  BY ONLY <1>1
<1>5. \A i \in 1..(2 * n) :
        \/ i % 2 # 1 /\ turns[i] = iterate
        \/ /\ i % 2 = 1 /\ (i + 1) \div 2 \in 1..n
           /\ turns[i] = TradeStep("position", ps[(i + 1) \div 2])
  BY <1>4 DEF TurnsOf
<1> HIDE DEF turns
<1>6. 2 * n \in Nat
  BY ONLY <1>1
<1>7. turns \in [1..(2 * n) -> StepType]
  <2>1. turns = [i \in 1..(2 * n) |-> turns[i]]
    BY DEF turns, TurnsOf
  <2>2. \A i \in 1..(2 * n) : turns[i] \in StepType
    BY <1>3, <1>5
  <2> QED BY <2>1, <2>2
<1>8. turns \in Seq(StepType) /\ Len(turns) = 2 * n
  <2>1. PICK m \in Nat : m = 2 * n
    BY <1>6
  <2>2. turns \in [1..m -> StepType]
    BY <1>7, <2>1
  <2>3. turns \in Seq(StepType) /\ Len(turns) = m
    BY <2>2, LengthOf
  <2> QED BY <2>1, <2>3
<1>9. \A i \in 1..(2 * n) :
        \/ turns[i].op = "iterate" /\ i % 2 # 1
        \/ /\ turns[i].op = "position" /\ i % 2 = 1 /\ (i + 1) \div 2 \in 1..n
           /\ turns[i].trade = ps[(i + 1) \div 2]
  BY <1>3, <1>5
<1>10. \A i \in 1..(2 * n) : \A j \in (i + 1)..(2 * n) :
         /\ j \in 1..(2 * n)
         /\ i % 2 = 1 /\ j % 2 = 1 => (i + 1) \div 2 # (j + 1) \div 2
  BY ONLY <1>1
<1>11. ASSUME NEW i \in 1..(2 * n), NEW j \in (i + 1)..(2 * n)
       PROVE  /\ turns[j].op \in {"position", "iterate"}
              /\ turns[i].op = "position" /\ turns[j].op = "position" =>
                   turns[j].trade # turns[i].trade
  <2>1. j \in 1..(2 * n)
    BY <1>10
  <2>2. turns[j].op \in {"position", "iterate"}
    BY <1>9, <2>1
  <2>3. ASSUME turns[i].op = "position", turns[j].op = "position"
        PROVE  turns[j].trade # turns[i].trade
    <3>1. PICK a \in 1..n : a = (i + 1) \div 2 /\ turns[i].trade = ps[a] /\ i % 2 = 1
      BY <1>9, <2>3
    <3>2. PICK b \in 1..n : b = (j + 1) \div 2 /\ turns[j].trade = ps[b] /\ j % 2 = 1
      BY <1>9, <2>1, <2>3
    <3>3. a # b
      BY <1>10, <3>1, <3>2
    <3> QED BY <3>1, <3>2, <3>3
  <2> QED BY <2>2, <2>3
<1>12. ASSUME NEW p \in StepsIn(ps)
       PROVE  \E x \in StepsIn(turns) : x.op = "position" /\ x.trade = p
  <2>1. PICK k \in 1..n : ps[k] = p
    BY DEF StepsIn
  <2>2. PICK i \in 1..(2 * n) : i % 2 = 1 /\ (i + 1) \div 2 = k
    <3>1. 2 * k - 1 \in 1..(2 * n) /\ (2 * k - 1) % 2 = 1 /\ ((2 * k - 1) + 1) \div 2 = k
      BY ONLY <1>1, <2>1
    <3> QED BY <3>1
  <2>3. turns[i].op = "position" /\ turns[i].trade = p
    BY <1>9, <2>1, <2>2
  <2>4. turns[i] \in StepsIn(turns)
    BY <1>8 DEF StepsIn
  <2> QED BY <2>3, <2>4
<1>13. \A i \in 1..(2 * n) : \/ turns[i].op = "iterate"
                             \/ turns[i].op = "position" /\ turns[i].trade \in StepsIn(ps)
  BY <1>1, <1>9
<1>14. PICK m \in Nat : m = 2 * n /\ Len(turns) = m
  BY <1>6, <1>8
<1>15. \A i \in 1..m : \/ turns[i].op = "iterate"
                       \/ turns[i].op = "position" /\ turns[i].trade \in StepsIn(ps)
  BY ONLY <1>13, <1>14
<1>16. \A i \in 1..m : \A j \in (i + 1)..m :
         /\ turns[j].op \in {"position", "iterate"}
         /\ turns[i].op = "position" /\ turns[j].op = "position" =>
              turns[j].trade # turns[i].trade
  BY ONLY <1>11, <1>14
<1> QED BY <1>8, <1>12, <1>14, <1>15, <1>16 DEF turns

\* A reconcile takes up its positions in turn, and the stray stops after them.
LEMMA ReconcilePositionsSettled ==
    ASSUME SettledInv, TypeOK', ReconcilePositions
    PROVE  SettledInv'
<1> DEFINE ps == SetToSeq(Held)
           iterate == [Step("iterate") EXCEPT !.known = Held]
           turns == TurnsOf(ps, iterate)
           e == [Step("strays") EXCEPT !.known = AlgosInUse]
<1>1. agenda # <<>> /\ now.op = "positions" /\ TypeOK
  BY DEF ReconcilePositions, Due, SettledInv
<1>2. Len(agenda) = 1 /\ Tail(agenda) = <<>> /\ Reconciling /\ Todo = {now} /\ Final = now
  BY <1>1, NowFacts, AgendaParts DEF EndOps, SnapshotOps
<1>3. agenda' = (turns \o <<e>>) \o <<>>
  BY <1>2 DEF ReconcilePositions, Then, TurnsOf
<1>4. Held \subseteq Trades /\ IsFiniteSet(Held) /\ AlgosInUse \subseteq AlgoIds \cup {NoAlgo}
  BY <1>1, FS_Subset, AccountAssumption DEF Held, AlgosInUse, TypeOK, LedgerTypeOK, PositionRow
<1>5. /\ ps \in Seq(Trades) /\ StepsIn(ps) = Held
      /\ \A i, j \in 1..Len(ps) : ps[i] = ps[j] => i = j
  BY <1>4, Enumerated, SeqMonotonic
<1>6. iterate \in StepType /\ iterate.op = "iterate"
  BY <1>4 DEF Step, StepType, Ops, SnapshotOps
<1>7. e \in StepType /\ e.op = "strays" /\ e.known = AlgosInUse
  BY <1>4 DEF Step, StepType, Ops, SnapshotOps
<1>8. Segment /\ UNCHANGED pos
  BY <1>1, QuietSegment DEF ReconcilePositions, keepTask, account
<1>9. Reconciling'
  BY <1>2, <1>8 DEF Segment, Reconciling
<1>10. PICK q \in Seq(Trades) : q = ps
  BY <1>5
<1>11. PICK it \in StepType : it = iterate
  BY <1>6
<1>12. PICK front : front = turns
  OBVIOUS
<1>13. /\ StepsIn(q) = Held
       /\ \A i, j \in 1..Len(q) : q[i] = q[j] => i = j
       /\ it.op = "iterate"
       /\ front = TurnsOf(q, it)
  BY <1>5, <1>6, <1>10, <1>11, <1>12
<1> HIDE DEF turns, e, ps, iterate
<1>20. /\ front \in Seq(StepType)
       /\ \A i \in 1..Len(front) :
            \/ front[i].op = "iterate"
            \/ front[i].op = "position" /\ front[i].trade \in StepsIn(q)
       /\ \A i \in 1..Len(front) : \A j \in (i + 1)..Len(front) :
            /\ front[j].op \in {"position", "iterate"}
            /\ front[i].op = "position" /\ front[j].op = "position" =>
                 front[j].trade # front[i].trade
       /\ \A p \in StepsIn(q) : \E x \in StepsIn(front) : x.op = "position" /\ x.trade = p
  <2> HIDE DEF StepsIn
  <2> QED BY <1>13, TurnSteps
<1>14. /\ front \in Seq(StepType)
       /\ \A i \in 1..Len(front) :
            \/ front[i].op = "iterate"
            \/ front[i].op = "position" /\ front[i].trade \in Held
       /\ \A i \in 1..Len(front) : \A j \in (i + 1)..Len(front) :
            /\ front[j].op \in {"position", "iterate"}
            /\ front[i].op = "position" /\ front[j].op = "position" =>
                 front[j].trade # front[i].trade
       /\ \A p \in Held : \E x \in StepsIn(front) : x.op = "position" /\ x.trade = p
  BY <1>13, <1>20
<1>15. agenda' = front \o <<e>>
  <2>1. front \o <<e>> \in Seq(StepType)
    BY <1>7, <1>14, OneStep, ConcatProperties
  <2> QED BY <1>3, <1>12, <2>1, ConcatEmptySeq
<1>16. ShapeSound' /\ agenda' # <<>> /\ Final' = e /\ Todo' = StepsIn(front) \cup {e}
  <2>1. \A i \in 1..Len(front) : front[i].op \in {"position", "iterate"}
    BY <1>14
  <2>2. \A i \in 1..Len(front) : front[i].op \in TradedOps => front[i].op = "position"
    BY <2>1 DEF TradedOps, TradeOps, PlacementOps
  <2>3. {"position", "iterate"} \cap (EndOps \cup FirstOps \cup {"submit", "flat"}) = {}
    BY DEF EndOps, FirstOps
  <2>4. {"position", "iterate"} \subseteq TurnOps
    BY DEF TurnOps
  <2>5. e.op \in EndOps
    BY <1>7 DEF EndOps
  <2> QED
    BY <1>7, <1>9, <1>14, <1>15, <2>1, <2>2, <2>3, <2>4, <2>5, ShapeEnd, ZenonT(40)
<1>17. \A x \in Todo' :
         /\ x.op \in {"position", "iterate", "strays"}
         /\ x.op = "position" => x.trade \in Held
  <2>1. \A x \in StepsIn(front) : /\ x.op \in {"position", "iterate"}
                                  /\ x.op = "position" => x.trade \in Held
    BY <1>14 DEF StepsIn
  <2> QED BY <1>7, <1>16, <2>1
<1>18. Held' = Held
  BY <1>8 DEF Held
<1>19. \A x \in Todo' : StepHeld(x)' /\ x.op \notin CloseOps
  BY <1>17, <1>18 DEF StepHeld, AskOps, CloseOps
<1>21. CalmSound'
  <2> SUFFICES ASSUME Calm'
               PROVE  /\ Looking' = "idle" => IdleSound'
                      /\ Looking' = "applying" => ApplySound'
    BY DEF CalmSound
  <2>1. ~Doomed
    BY <1>1, <1>2 DEF Doomed
  <2>2. Calm /\ Looking' = Looking /\ algos' = algos
    BY <1>8, <2>1, SegmentCalm
  <2>3. Looking = "applying" /\ ApplySound
    BY <1>2, <2>2, CalmSnapshot
  <2>4. \A s \in Symbols : Flat(s)
    BY <1>1, <1>2, <2>3 DEF ApplySound
  <2>5. \A s \in Symbols : Flat(s)'
    BY <1>8, <2>4, FlatKept DEF Segment
  <2>6. \A p \in Held' : Turning(p)'
    BY <1>14, <1>16, <1>18 DEF Turning
  <2>7. \A a \in algos' : a \in Recorded' \/ a \notin Final'.known
    BY <1>7, <1>8, <1>16, <1>18 DEF Recorded, AlgosInUse
  <2>8. StraysSound'
    BY <2>5, <2>6, <2>7 DEF StraysSound
  <2>9. ApplySound'
    BY <1>7, <1>16, <2>8 DEF ApplySound, EndOps
  <2> QED BY <2>2, <2>3, <2>9
<1> QED BY <1>1, <1>8, <1>16, <1>19, <1>21, EndSafe DEF EndOps

\* Two lists of one element each.
LEMMA ConcatOnes ==
    ASSUME NEW S, NEW x \in S, NEW y \in S
    PROVE  <<x>> \o <<y>> = <<x, y>>
<1>1. <<x>> \in Seq(S) /\ <<y>> \in Seq(S) /\ <<x, y>> \in Seq(S)
  BY OneStep, TwoSteps
<1>2. /\ <<x>> \o <<y>> \in Seq(S) /\ Len(<<x>> \o <<y>>) = 2
      /\ (<<x>> \o <<y>>)[1] = x /\ (<<x>> \o <<y>>)[2] = y
  BY <1>1, ConcatProperties
<1>3. Len(<<x, y>>) = 2 /\ <<x, y>>[1] = x /\ <<x, y>>[2] = y
  OBVIOUS
<1>4. PICK u \in Seq(S), v \in Seq(S) : u = <<x>> \o <<y>> /\ v = <<x, y>>
  BY <1>1, <1>2
<1>5. Len(u) = 2 /\ Len(v) = 2 /\ u[1] = v[1] /\ u[2] = v[2]
  BY <1>2, <1>3, <1>4
<1>6. \A i \in 1..2 : i = 1 \/ i = 2
  OBVIOUS
<1>7. \A i \in 1..Len(u) : u[i] = v[i]
  BY <1>5, <1>6
<1>8. u = v
  BY <1>5, <1>7, SeqEqual
<1> QED BY <1>4, <1>8

\* A position in its turn: its quantity is the account's, and its stop is kept
\* or placed anew.
LEMMA ReconcilePositionSettled ==
    ASSUME SettledInv, TypeOK', ReconcilePosition
    PROVE  SettledInv'
<1>1. agenda # <<>> /\ now.op = "position" /\ TypeOK
  BY Zenon DEF ReconcilePosition, Due, SettledInv
<1>2. PICK p \in Trades : p = now.trade
  BY <1>1, TradeNow DEF TradeOps
<1>3. /\ Reconciling /\ Final.op = "strays" /\ Len(agenda) # 1 /\ p \in Held
      /\ \A x \in Later : /\ x.op \in {"position", "iterate", "strays"}
                          /\ x.op = "position" => x.trade # p
  BY <1>1, <1>2, NowFacts DEF SnapshotOps, TradedOps, TradeOps, StepHeld
<1>4. PICK q \in Nat : q = taken.short[SymbolOf[p]]
  BY <1>1, SnapshotNow, AccountAssumption DEF Snapshot, SnapshotOps
<1>5. PICK listed \in BOOLEAN, replace \in BOOLEAN, changed \in BOOLEAN :
        /\ listed = (pos[p].stop \in taken.algos)
        /\ changed = (q # pos[p].qty)
        /\ replace = (changed \/ (listed /\ pos[p].stop.qty # q))
  <2>1. /\ (pos[p].stop \in taken.algos) \in BOOLEAN /\ (q # pos[p].qty) \in BOOLEAN
        /\ (q # pos[p].qty \/ (pos[p].stop \in taken.algos /\ pos[p].stop.qty # q)) \in BOOLEAN
    OBVIOUS
  <2> QED BY <2>1, Zenon
<1>6. /\ pos' = [pos EXCEPT
           ![p].qty = q,
           ![p].st = IF @ = "closing" /\ ~PendingReduce(SymbolOf[p]) THEN "open" ELSE @,
           ![p].prot = @ /\ listed /\ ~replace]
      /\ halts \subseteq halts'
      /\ Then((IF listed /\ ~replace THEN <<>> ELSE <<Protect(p, replace)>>)
               \o (IF changed /\ pos[p].trail # NoAlgo THEN <<Retrail(p)>> ELSE <<>>))
  BY <1>2, <1>4, <1>5, Zenon DEF ReconcilePosition
<1>7. /\ pos'[p].qty = q /\ pos'[p].stop = pos[p].stop /\ pos'[p].trail = pos[p].trail
      /\ pos'[p].prot = (pos[p].prot /\ listed /\ ~replace)
      /\ pos'[p].st = pos[p].st \/ (pos[p].st = "closing" /\ pos'[p].st = "open")
      /\ \A u \in Trades : u # p => pos'[u] = pos[u]
  BY <1>1, <1>6 DEF TypeOK, LedgerTypeOK, PositionRow
<1>8. Held' = Held /\ Held \subseteq Trades
  <2>1. p \in Held'
    BY <1>3, <1>7 DEF Held
  <2>2. \A u \in Trades : u # p => (u \in Held' <=> u \in Held)
    BY <1>7 DEF Held
  <2>3. Held \subseteq Trades /\ Held' \subseteq Trades
    BY DEF Held
  <2> QED BY <1>3, <2>1, <2>2, <2>3
<1>9. /\ OneHeld' /\ OwnStops' /\ Recorded' = Recorded
  <2>1. \A u \in Trades : pos'[u].stop = pos[u].stop /\ pos'[u].trail = pos[u].trail
    BY <1>7, Zenon
  <2> QED BY <1>8, <2>1 DEF OneHeld, OwnStops, Recorded, SettledInv, HeldSound
<1>10. Segment
  BY <1>1, <1>6, QuietSegment, Zenon DEF ReconcilePosition, keepTask, account
<1>11. \A x \in Later : StepHeld(x)'
  <2>1. \A x \in Later : x.op = "position" => x.trade \in Held'
    BY <1>1, <1>8, AgendaParts DEF SettledInv, HeldSound, StepHeld
  <2>2. \A x \in Later : x.op \in {"position", "iterate", "strays"}
    BY <1>3
  <2> QED BY <2>1, <2>2 DEF StepHeld, AskOps
<1>12. \A u : ~Protecting(u)
  BY <1>1 DEF Protecting
<1>13. ASSUME NEW steps \in Seq(StepType), agenda' = steps \o Tail(agenda), Follows(steps),
              \A x \in StepsIn(steps) : StepHeld(x)',
              \/ Protecting(p)'
              \/ /\ pos'[p].prot = pos[p].prot
                 /\ pos[p].stop \in taken.algos /\ pos[p].stop.qty = q
       PROVE  SettledInv'
  <2>1. ASSUME Calm'
        PROVE  /\ Looking' = "idle" => IdleSound'
               /\ Looking' = "applying" => ApplySound'
    <3>1. Doomed => Doomed'
      BY <1>1, <1>13, ClosingThen
    <3>2. Calm /\ Looking' = Looking /\ algos' = algos
      BY <1>10, <2>1, <3>1, SegmentCalm
    <3>3. /\ Looking = "applying" /\ taken.short = short /\ taken.algos = algos /\ StraysSound
      BY <1>3, <3>2, CalmSnapshot DEF ApplySound
    <3>4. agenda' # <<>> /\ Final' = Final /\ Later \subseteq Todo'
      BY <1>1, <1>3, <1>13, AgendaThen
    <3>5. short' = short
      BY <1>10 DEF Segment
    <3>6. \A s \in Symbols : Flat(s)'
      BY <1>8, <3>3, <3>5 DEF StraysSound, Flat, HeldAt
    <3>7. Agrees(p)'
      BY <1>4, <1>7, <3>3, <3>5 DEF Agrees
    <3>8. Covered(p)' \/ Protecting(p)'
      BY <1>7, <1>13, <3>2, <3>3 DEF Covered
    <3>9. ASSUME NEW u \in Held', u # p
          PROVE  Turning(u)' \/ (Agrees(u)' /\ Covered(u)')
      <4>1. u \in Held /\ pos'[u] = pos[u]
        BY <1>7, <1>8, <3>9
      <4>2. CASE Turning(u)
        <5>1. PICK x \in Todo : x.op = "position" /\ x.trade = u
          BY <4>2 DEF Turning
        <5>2. x \in Later
          BY <1>1, <1>2, <3>9, <5>1, AgendaParts
        <5> QED BY <3>4, <5>1, <5>2 DEF Turning
      <4>3. CASE Agrees(u) /\ Covered(u)
        BY <3>2, <3>5, <4>1, <4>3 DEF Agrees, Covered
      <4> QED BY <1>12, <3>3, <4>1, <4>2, <4>3 DEF StraysSound
    <3>10. \A a \in algos' : a \in Recorded' \/ a \notin Final'.known
      <4>1. \A a : ~Replacing(a)
        BY <1>1 DEF Replacing
      <4> QED BY <1>9, <3>2, <3>3, <3>4, <4>1 DEF StraysSound
    <3>11. StraysSound'
      BY <3>6, <3>7, <3>8, <3>9, <3>10 DEF StraysSound
    <3> QED BY <1>3, <3>2, <3>3, <3>4, <3>11 DEF ApplySound, EndOps
  <2>2. CalmSound'
    BY <2>1 DEF CalmSound
  <2>3. \A t \in Held' :
          \/ pos'[t].prot \/ Protecting(t)'
          \/ t \in Held /\ ~pos[t].prot /\ ~Protecting(t)
    <3>1. ASSUME NEW t \in Held', t # p PROVE pos'[t] = pos[t] /\ t \in Held
      BY <1>7, <1>8, <3>1
    <3> QED BY <1>3, <1>12, <1>13, <3>1
  <2> QED BY <1>1, <1>9, <1>10, <1>11, <1>13, <2>2, <2>3, BooksSafe DEF EndOps
<1>14. CASE listed /\ ~replace
  <2>1. ~changed /\ pos[p].stop \in taken.algos /\ pos[p].stop.qty = q
    BY <1>5, <1>14
  <2>2. agenda' = (<<>> \o <<>>) \o Tail(agenda)
    BY <1>6, <1>14, <2>1 DEF Then
  <2>3. <<>> \in Seq(StepType) /\ agenda' = <<>> \o Tail(agenda)
    BY <2>2
  <2>4. \A x \in StepsIn(<<>>) : FALSE
    BY DEF StepsIn
  <2>5. pos'[p].prot = pos[p].prot
    <3>1. pos[p].prot \in BOOLEAN
      BY <1>1 DEF TypeOK, LedgerTypeOK, PositionRow
    <3> QED BY <1>7, <1>14, <3>1
  <2> QED BY <1>13, <2>1, <2>3, <2>4, <2>5, FollowNone
<1>15. CASE ~(listed /\ ~replace)
  <2>1. PICK x \in StepType :
          x = Protect(p, replace) /\ x.op = "protect" /\ x.trade = p /\ x.force = replace
    BY ProtectParts
  <2>2. PICK y \in StepType : y = Retrail(p) /\ y.op = "trail" /\ y.trade = p
    BY RetrailParts
  <2>3. Fits(x) /\ Fits(y) /\ Trailing(y)
    BY <1>1, <1>2, <2>1, <2>2
    DEF Fits, CloseOps, AskOps, EndOps, SnapshotOps, TradedOps, TradeOps, PlacementOps, FlatOps,
        TurnOps, Trailing, FirstOps
  <2>4. StepHeld(x)' /\ StepHeld(y)'
    <3>1. Closable(p)'
      BY <1>3, <1>8 DEF Closable
    <3>2. ~pos'[p].prot
      BY <1>7, <1>15
    <3> QED BY <2>1, <2>2, <3>1, <3>2 DEF StepHeld, AskOps
  <2>5. PICK steps \in Seq(StepType) :
          /\ steps = <<x>> \/ steps = <<x, y>>
          /\ agenda' = steps \o Tail(agenda)
    <3>1. CASE changed /\ pos[p].trail # NoAlgo
      <4>1. agenda' = (<<x>> \o <<y>>) \o Tail(agenda)
        BY <1>6, <1>15, <2>1, <2>2, <3>1 DEF Then
      <4>2. <<x>> \o <<y>> = <<x, y>>
        BY ConcatOnes
      <4>3. <<x, y>> \in Seq(StepType)
        BY TwoSteps
      <4> QED BY <4>1, <4>2, <4>3
    <3>2. CASE ~(changed /\ pos[p].trail # NoAlgo)
      <4>1. agenda' = (<<x>> \o <<>>) \o Tail(agenda)
        BY <1>6, <1>15, <2>1, <3>2 DEF Then
      <4>2. <<x>> \o <<>> = <<x>> /\ <<x>> \in Seq(StepType)
        OBVIOUS
      <4> QED BY <4>1, <4>2
    <3> QED BY <3>1, <3>2
  <2>6. Follows(steps)
    BY <2>3, <2>5, FollowOne, FollowTwo
  <2>7. steps # <<>> /\ steps[1] = x /\ \A z \in StepsIn(steps) : z = x \/ z = y
    BY <2>5 DEF StepsIn
  <2>8. Protecting(p)'
    <3>1. agenda' # <<>> /\ now' = x
      BY <1>1, <2>5, <2>7, AgendaThen
    <3> QED BY <2>1, <3>1 DEF Protecting
  <2> QED BY <1>13, <2>4, <2>5, <2>6, <2>7, <2>8
<1> QED BY <1>14, <1>15, Zenon

\* The sweep: what is left over is cancelled.
LEMMA ReconcileStraysSettled ==
    ASSUME SettledInv, TypeOK', ReconcileStrays
    PROVE  SettledInv'
<1> DEFINE strays == taken.algos \ (now.known \cup AlgosInUse)
           orphans == SetToSeq(strays)
           e == Step("clear")
<1>1. agenda # <<>> /\ now.op = "strays" /\ TypeOK
  BY DEF ReconcileStrays, Due, SettledInv
<1>2. Len(agenda) = 1 /\ Tail(agenda) = <<>> /\ Reconciling /\ Todo = {now} /\ Final = now
  BY <1>1, NowFacts, AgendaParts DEF EndOps, SnapshotOps
<1>3. agenda' = (CancelAlgos(orphans) \o <<e>>) \o <<>>
  BY <1>2 DEF ReconcileStrays, Then
<1>4. strays \subseteq AlgoIds /\ IsFiniteSet(strays)
  BY <1>1, SnapshotNow, FS_Subset DEF SnapshotOps, Snapshot
<1>5. orphans \in Seq(AlgoIds) /\ StepsIn(orphans) = strays
  <2> HIDE DEF strays
  <2> QED BY <1>4, Enumerated, SeqMonotonic
<1>6. PICK as \in Seq(AlgoIds) : as = orphans /\ StepsIn(as) = strays
  BY <1>5
<1>7. e \in StepType /\ e.op = "clear"
  BY DEF Step, StepType, Ops, SnapshotOps
<1> HIDE DEF e, orphans, strays
<1>8. PICK front \in Seq(StepType) :
        /\ front = CancelAlgos(as) /\ Len(front) = Len(as)
        /\ \A i \in 1..Len(front) :
             i \in 1..Len(as) /\ front[i].op = "cancel_algo" /\ front[i].algo = as[i]
  BY CancelAlgosSteps
<1>9. agenda' = front \o <<e>>
  <2>1. front \o <<e>> \in Seq(StepType)
    BY <1>7, OneStep, ConcatProperties
  <2> QED BY <1>3, <1>6, <1>8, <2>1, ConcatEmptySeq
<1>10. Segment /\ UNCHANGED pos
  BY <1>1, QuietSegment DEF ReconcileStrays, keepTask, account
<1>11. Reconciling'
  BY <1>2, <1>10 DEF Segment, Reconciling
<1>12. ShapeSound' /\ agenda' # <<>> /\ Final' = e /\ Todo' = StepsIn(front) \cup {e}
  <2>1. "cancel_algo" \notin EndOps \cup FirstOps \cup SnapshotOps \cup TradedOps
                             \cup {"submit", "cancel_order"}
    BY DEF EndOps, FirstOps, SnapshotOps, TradedOps, TradeOps, PlacementOps
  <2>2. "cancel_algo" \in ClearOps /\ e.op \in EndOps
    BY <1>7 DEF ClearOps, EndOps
  <2> QED BY <1>7, <1>8, <1>9, <1>11, <2>1, <2>2, ShapeEnd
<1>13. \A x \in Todo' : x.op \in {"cancel_algo", "clear"}
  BY <1>7, <1>8, <1>12 DEF StepsIn
<1>14. \A x \in Todo' : StepHeld(x)' /\ x.op \notin CloseOps
  BY <1>13 DEF StepHeld, AskOps, CloseOps
<1>15. CalmSound'
  <2> SUFFICES ASSUME Calm'
               PROVE  /\ Looking' = "idle" => IdleSound'
                      /\ Looking' = "applying" => ApplySound'
    BY DEF CalmSound
  <2>1. ~Doomed
    BY <1>1, <1>2 DEF Doomed
  <2>2. Calm /\ Looking' = Looking /\ algos' = algos /\ short' = short
    BY <1>10, <2>1, SegmentCalm DEF Segment
  <2>3. Looking = "applying" /\ taken.algos = algos /\ StraysSound
    BY <1>1, <1>2, <2>2, CalmSnapshot DEF ApplySound
  <2>4. Held' = Held /\ Held \subseteq Trades /\ \A s \in Symbols : Flat(s)'
    BY <1>10, <2>2, <2>3, FlatKept DEF StraysSound, Held
  <2>5. \A p \in Held' : Agrees(p)' /\ Covered(p)'
    <3>1. \A p : ~Turning(p) /\ ~Protecting(p)
      BY <1>1, <1>2 DEF Turning, Protecting
    <3> QED BY <1>10, <2>2, <2>3, <2>4, <3>1 DEF StraysSound, Agrees, Covered
  <2>6. ASSUME NEW a \in algos', a \notin Recorded' PROVE Cancelling(a)'
    <3>1. a \in algos /\ a \notin Recorded /\ a \notin AlgosInUse
      BY <1>10, <2>2, <2>6 DEF Recorded, AlgosInUse, Held
    <3>2. a \notin now.known
      BY <1>1, <1>2, <2>3, <3>1 DEF StraysSound, Replacing
    <3>3. a \in strays
      BY <2>3, <3>1, <3>2 DEF strays
    <3>4. PICK i \in 1..Len(front) : as[i] = a
      BY <1>6, <1>8, <3>3 DEF StepsIn
    <3>5. front[i] \in Todo' /\ front[i].op = "cancel_algo" /\ front[i].algo = a
      BY <1>8, <1>12, <3>4 DEF StepsIn
    <3> QED BY <3>5 DEF Cancelling
  <2>7. ClearSound'
    BY <2>4, <2>5, <2>6 DEF ClearSound
  <2>8. ApplySound'
    BY <1>7, <1>12, <2>7 DEF ApplySound, EndOps
  <2> QED BY <2>2, <2>3, <2>8
<1> QED BY <1>1, <1>10, <1>12, <1>14, <1>15, EndSafe DEF EndOps

\* What a reconcile does not take back.
LEMMA KeptReasons ==
    /\ Manual \notin Recoverable /\ StreamFailed \notin Recoverable /\ Manual # StreamFailed
    /\ \A a : CancelUnresolved(a) # StreamFailed
    /\ \A a \in taken.algos : CancelUnresolved(a) \notin Recoverable
BY DEF Recoverable, Manual, StreamFailed, CancelUnresolved

\* Without the periodic reconcile two tasks take snapshots.
LEMMA TwoReconcilers ==
    ASSUME SettledInv, Reconciling
    PROVE  /\ owner \in {"private", "startup"} /\ snap[owner].phase = "applying"
           /\ owner = "private" =>
                up = "running" /\ link # "lost" /\ (link # "live" => StreamFailed \in halts)
           /\ owner = "startup" => up \in {"recovering", "supervising"}
           /\ up = "recovering" => link = "lost"
           /\ up = "supervising" => link = "proving"
<1>1. owner \in Reconcilers /\ snap[owner].phase = "applying" /\ LockSound /\ TypeOK
  BY DEF Reconciling, SettledInv
<1>2. owner \in {"private", "startup"} /\ up \in {"down", "recovering", "supervising", "running"}
      /\ link \in {"lost", "proving", "live"}
  BY <1>1 DEF LockSound, Reconcilers, TypeOK, TaskTypeOK, AccountTypeOK
<1> QED BY <1>1, <1>2 DEF LockSound

\* A handler that is over leaves nothing on the agenda.
LEMMA OverParts ==
    ASSUME agenda' = <<>>
    PROVE  /\ Todo' = {} /\ Len(agenda') = 0
           /\ \A t : ~Protecting(t)' /\ ~Replacing(t)' /\ ~Cancelling(t)' /\ ~Turning(t)'
<1>1. Len(agenda') = 0
  OBVIOUS
<1>2. Todo' = {}
  BY <1>1 DEF Todo, StepsIn
<1> QED BY <1>1, <1>2 DEF Protecting, Replacing, Cancelling, Turning

\* It keeps the shape of the agenda and what its steps are about.
LEMMA OverShape ==
    ASSUME SettledInv, TypeOK', agenda' = <<>>, owner' = "none", UNCHANGED pos
    PROVE  ShapeSound' /\ HeldSound' /\ ClosingSound' /\ Held' = Held
<1>1. Todo' = {} /\ Len(agenda') = 0
  BY OverParts
<1>2. ~Reconciling'
  BY DEF Reconciling, Reconcilers
<1>3. ShapeSound'
  BY <1>1, <1>2, ShapeStart
<1> QED
  BY <1>1, <1>3 DEF HeldSound, ClosingSound, SettledInv, OneHeld, OwnStops, Held

\* The end of a reconcile: the halts it has proved wrong are taken back, and
\* the calm that begins is sound.
LEMMA ReconcileDoneSettled ==
    ASSUME StreamOnly, SettledInv, TypeOK', ReconcileDone
    PROVE  SettledInv'
<1> DEFINE proved == \/ owner = "private" /\ link = "proving"
                     \/ owner = "startup" /\ up = "supervising"
<1>1. agenda # <<>> /\ now.op = "clear" /\ TypeOK
  BY DEF ReconcileDone, Due, SettledInv
<1>2. Len(agenda) = 1 /\ Reconciling /\ Todo = {now} /\ Final = now
  BY <1>1, NowFacts, AgendaParts DEF EndOps, SnapshotOps
<1>3. /\ owner \in {"private", "startup"}
      /\ owner = "private" =>
           up = "running" /\ link # "lost" /\ (link # "live" => StreamFailed \in halts)
      /\ owner = "startup" => up \in {"recovering", "supervising"}
      /\ up = "recovering" => link = "lost"
      /\ up = "supervising" => link = "proving"
  BY <1>2, TwoReconcilers
<1>4. /\ agenda' = <<>> /\ owner' = "none"
      /\ halts' \subseteq halts
      /\ \A h \in halts \ Recoverable : h \in halts' \/ (proved /\ h = StreamFailed)
      /\ link' = IF proved THEN "live" ELSE link
      /\ up' = CASE up = "recovering" -> "supervising"
                 [] up = "supervising" -> "running"
                 [] OTHER -> up
      /\ snap' = [snap EXCEPT ![owner] = Idle]
      /\ UNCHANGED <<short, algos, stream, pos, crashes>>
  <2>1. "private" \in Background
    BY DEF StreamOnly
  <2> QED BY <2>1 DEF ReconcileDone, Return, keepMarket
<1>5. snap'[owner].phase = "idle" /\ \A task \in Reconcilers : task # owner => snap'[task] = snap[task]
  BY <1>1, <1>3, <1>4 DEF TypeOK, TaskTypeOK, Idle, Reconcilers
<1>6. ShapeSound' /\ HeldSound' /\ ClosingSound' /\ Held' = Held
  BY <1>4, OverShape
<1>7. Manual \in halts => Manual \in halts'
  BY <1>4, KeptReasons
<1>8. StreamFailed \in halts /\ ~proved => StreamFailed \in halts'
  BY <1>4, KeptReasons
<1>9. owner = "private" => LockSound' /\ Looking' = "idle" /\ up' = "running"
  <2> SUFFICES ASSUME owner = "private"
               PROVE  LockSound' /\ Looking' = "idle" /\ up' = "running"
    OBVIOUS
  <2>1. /\ up = "running" /\ up' = "running"
        /\ link' = "live" \/ (link' = link /\ ~proved)
    BY <1>3, <1>4
  <2>2. \A task \in Reconcilers : snap'[task].phase = "idle"
    BY <1>1, <1>3, <1>5, <2>1 DEF SettledInv, LockSound, Reconcilers
  <2>3. link' # "lost" /\ link' # "proving"
    BY <1>1, <1>3, <1>4, <2>1 DEF TypeOK, AccountTypeOK
  <2>4. link' = "live"
    BY <2>3 DEF TypeOK, AccountTypeOK
  <2>5. LockSound'
    BY <1>4, <2>1, <2>2, <2>4 DEF LockSound, Reconcilers
  <2> QED BY <2>1, <2>2, <2>5 DEF Looking, Watcher, Reconcilers
<1>10. owner = "startup" => LockSound' /\ Looking' = "idle"
  <2> SUFFICES ASSUME owner = "startup" PROVE LockSound' /\ Looking' = "idle"
    OBVIOUS
  <2>1. \A task \in Reconcilers : snap'[task].phase = "idle"
    BY <1>1, <1>3, <1>5 DEF SettledInv, LockSound, Reconcilers
  <2>2. CASE up = "recovering"
    <3>1. up' = "supervising" /\ link' = "lost"
      BY <1>3, <1>4, <2>2
    <3>2. LockSound'
      BY <1>4, <2>1, <3>1 DEF LockSound, Reconcilers
    <3> QED BY <2>1, <3>1, <3>2 DEF Looking, Watcher, Reconcilers
  <2>3. CASE up = "supervising"
    <3>1. up' = "running" /\ link' = "live"
      BY <1>3, <1>4, <2>3
    <3>2. LockSound'
      BY <1>4, <2>1, <3>1 DEF LockSound, Reconcilers
    <3> QED BY <2>1, <3>1, <3>2 DEF Looking, Watcher, Reconcilers
  <2> QED BY <1>3, <2>2, <2>3
<1>11. LockSound' /\ Looking' = "idle"
  BY <1>3, <1>9, <1>10
<1>12. SnapshotFresh'
  BY <1>11 DEF SnapshotFresh
<1>13. ProtSound'
  <2>1. ~Closing /\ \A t : ~Protecting(t)
    BY <1>1, <1>2 DEF Closing, Protecting
  <2> QED BY <1>4, <1>6, <1>7, <2>1 DEF ProtSound, SettledInv
<1>14. CalmSound'
  <2> SUFFICES ASSUME Calm' PROVE IdleSound'
    BY <1>11 DEF CalmSound
  <2>1. up \in {"supervising", "running"} /\ link # "lost"
    <3>1. up # "recovering"
      BY <1>3, <1>4 DEF Calm
    <3> QED BY <1>3, <3>1
  <2>2. Manual \notin halts
    BY <1>7 DEF Calm
  <2>3. ~(link = "live" /\ StreamFailed \in halts)
    <3> SUFFICES ASSUME link = "live", StreamFailed \in halts PROVE FALSE
      OBVIOUS
    <3>1. ~proved
      BY <1>3
    <3> QED BY <1>4, <1>8, <3>1 DEF Calm
  <2>4. ~Hint
    BY <1>4 DEF Calm, Hint
  <2>5. Looking = "applying" /\ owner = Watcher
    BY <1>2, ReconcilerWatches
  <2>6. taken.algos = algos
    BY <2>1, <2>4, <2>5 DEF SettledInv, SnapshotFresh, taken
  <2>7. \A a \in algos : CancelUnresolved(a) \notin halts
    BY <1>4, <2>6, KeptReasons DEF Calm
  <2>8. ~Doomed
    BY <1>1, <1>2 DEF Doomed
  <2>9. Calm
    BY <2>1, <2>2, <2>3, <2>4, <2>5, <2>7, <2>8 DEF Calm
  <2>10. ClearSound
    BY <1>1, <1>2, <2>9, CalmSnapshot DEF ApplySound
  <2>11. \A a : ~Cancelling(a)
    BY <1>1, <1>2 DEF Cancelling
  <2>12. \A p \in Held' : Covered(p)' /\ Agrees(p)'
    BY <1>4, <1>6, <2>10 DEF ClearSound, Covered, Agrees
  <2>13. \A s \in Symbols : Flat(s)'
    BY <1>4, <2>10, FlatKept DEF ClearSound
  <2>14. \A a \in algos' : a \in Recorded'
    BY <1>4, <1>6, <2>10, <2>11 DEF ClearSound, Recorded
  <2> QED BY <2>12, <2>13, <2>14 DEF IdleSound
<1> QED BY <1>6, <1>11, <1>12, <1>13, <1>14 DEF SettledInv

\* An exception ends the handler, and the calm if there was one.
LEMMA RaiseSettled ==
    ASSUME SettledInv, TypeOK', Raise
    PROVE  SettledInv'
<1>1. agenda # <<>> /\ now.op = "raise" /\ TypeOK
  BY DEF Raise, Due, SettledInv
<1>2. Len(agenda) = 1 /\ Todo = {now} /\ owner \in Owners /\ owner # "none"
  BY <1>1, NowFacts, AgendaParts DEF EndOps, SettledInv, LockSound, TypeOK, TaskTypeOK
<1>3. /\ agenda' = <<>> /\ UNCHANGED <<pos, short, algos, crashes>>
  BY DEF Raise, Return, keepMarket
<1>5. ~Closing /\ \A t : ~Protecting(t)
  BY <1>1, <1>2 DEF Closing, Protecting
<1>6. Todo' = {} /\ Len(agenda') = 0
  BY <1>3, OverParts
<1>7. owner \in {"signal", "guard", "private", "startup"}
  BY <1>2 DEF Owners, Reconcilers, SettledInv, LockSound
<1>8. CASE owner \in {"signal", "guard"}
  <2>1. Manual \in halts' /\ Segment /\ SameBooks
    BY <1>1, <1>8, QuietSegment, SamePos DEF Raise, keepMarket, keepStream
  <2>2. ~Reconciling'
    BY <1>8, <2>1 DEF Reconciling, Reconcilers, Segment
  <2>3. ShapeSound'
    BY <1>6, <2>2, ShapeStart
  <2> QED BY <1>1, <1>6, <2>1, <2>3, Abandon
<1>9. ASSUME owner' = "none", LockSound', Looking' = "idle", ~Calm', halts \subseteq halts'
      PROVE  SettledInv'
  <2>1. ShapeSound' /\ HeldSound' /\ ClosingSound' /\ Held' = Held
    BY <1>3, <1>9, OverShape
  <2>2. SnapshotFresh' /\ CalmSound'
    BY <1>9 DEF SnapshotFresh, CalmSound
  <2>3. ProtSound'
    BY <1>3, <1>5, <1>9, <2>1 DEF ProtSound, SettledInv
  <2> QED BY <1>9, <2>1, <2>2, <2>3 DEF SettledInv
<1>10. CASE owner = "private"
  <2>1. up = "running" /\ up' = up /\ owner' = "none" /\ snap' = [snap EXCEPT !["private"] = Idle]
    BY <1>10 DEF Raise, SettledInv, LockSound
  <2>2. \A task \in Reconcilers : snap'[task].phase = "idle"
    BY <1>1, <2>1 DEF TypeOK, TaskTypeOK, Idle, Reconcilers, SettledInv, LockSound
  <2>3. \/ link = "proving" /\ link' = "live" /\ halts' = halts
        \/ link' = "lost" /\ halts' = halts \cup {StreamFailed}
    BY <1>10 DEF Raise, StreamLost
  <2>4. StreamFailed \in halts' /\ halts \subseteq halts' /\ link' # "proving"
    BY <2>1, <2>3 DEF SettledInv, LockSound
  <2>5. LockSound'
    BY <1>3, <2>1, <2>2, <2>4 DEF LockSound, Reconcilers
  <2>6. Looking' = "idle"
    BY <2>1, <2>2 DEF Looking, Watcher, Reconcilers
  <2>7. ~Calm'
    BY <2>3, <2>4 DEF Calm
  <2> QED BY <1>9, <2>1, <2>4, <2>5, <2>6, <2>7
<1>11. CASE owner = "startup"
  <2>1. /\ owner' = "none" /\ snap' = [snap EXCEPT !["startup"] = Idle] /\ link' = "lost"
        /\ halts' = halts /\ up' = IF up = "recovering" THEN "down" ELSE up
    BY <1>11 DEF Raise
  <2>2. up' \in {"down", "supervising"}
    BY <1>1, <1>11, <2>1 DEF SettledInv, LockSound, TypeOK, TaskTypeOK
  <2>3. \A task \in Reconcilers : snap'[task].phase = "idle"
    BY <1>1, <1>11, <2>1 DEF TypeOK, TaskTypeOK, Idle, Reconcilers, SettledInv, LockSound
  <2>4. LockSound'
    BY <1>3, <2>1, <2>2, <2>3 DEF LockSound, Reconcilers
  <2>5. Looking' = "idle"
    BY <2>2, <2>3 DEF Looking, Watcher, Reconcilers
  <2>6. ~Calm'
    BY <2>1 DEF Calm
  <2> QED BY <1>9, <2>1, <2>4, <2>5, <2>6
<1> QED BY <1>7, <1>8, <1>10, <1>11

-----------------------------------------------------------------------------
(***************************************************************************)
(* Steps that run no segment of a handler.                                 *)
(***************************************************************************)

\* The agenda and the positions stay; what remains to be shown is that the
\* tasks, the snapshots and the calm are sound.
LEMMA TaskStep ==
    ASSUME SettledInv, TypeOK', UNCHANGED <<agenda, pos, crashes>>,
           owner' = owner \/ agenda = <<>>, halts \subseteq halts',
           Reconciling' = Reconciling, Reconciling => taken' = taken,
           LockSound', SnapshotFresh', CalmSound'
    PROVE  SettledInv'
<1>1. /\ Todo' = Todo /\ Final' = Final /\ Held' = Held /\ now' = now /\ Later' = Later
      /\ \A i \in 1..Len(agenda) : agenda'[i] = agenda[i]
      /\ \A p : Closable(p)' = Closable(p)
  BY DEF Todo, Final, Held, now, Later, Closable
<1>2. ShapeSound'
  <2>1. ASSUME NEW i \in 1..Len(agenda) PROVE StepPlaced(i)'
    <3>1. StepPlaced(i)
      BY DEF SettledInv, ShapeSound
    <3>2. owner' = owner
      OBVIOUS
    <3> QED BY <1>1, <3>1, <3>2 DEF StepPlaced, SnapshotOps
  <2> QED BY <1>1, <2>1 DEF SettledInv, ShapeSound
<1>3. \A x \in Todo : StepHeld(x)'
  <2>1. \A x \in Todo : StepHeld(x)
    BY DEF SettledInv, HeldSound
  <2> QED BY <1>1, <2>1 DEF StepHeld
<1>4. HeldSound'
  BY <1>1, <1>3 DEF SettledInv, HeldSound, OneHeld, OwnStops
<1>5. ProtSound'
  BY <1>1 DEF SettledInv, ProtSound, Closing, Protecting
<1>6. ClosingSound'
  BY <1>1 DEF SettledInv, ClosingSound, Closing
<1> QED BY <1>2, <1>4, <1>5, <1>6 DEF SettledInv

\* The calm stays sound when nothing it reads changes.
LEMMA CalmKept ==
    ASSUME CalmSound, UNCHANGED <<agenda, pos, short, algos>>, Looking' = Looking,
           Calm' => Calm
    PROVE  CalmSound'
<1>1. Todo' = Todo /\ Final' = Final /\ Held' = Held /\ now' = now /\ Recorded' = Recorded
  BY DEF Todo, Final, Held, now, Recorded
<1>2. /\ \A p : /\ Covered(p)' = Covered(p) /\ Agrees(p)' = Agrees(p)
                /\ Protecting(p)' = Protecting(p) /\ Turning(p)' = Turning(p)
      /\ \A a : Replacing(a)' = Replacing(a) /\ Cancelling(a)' = Cancelling(a)
      /\ \A s : Flat(s)' = Flat(s)
  BY <1>1 DEF Covered, Agrees, Protecting, Turning, Replacing, Cancelling, Flat, HeldAt
<1>3. IdleSound => IdleSound'
  BY <1>1, <1>2 DEF IdleSound, Moving
<1>4. StraysSound => StraysSound'
  BY <1>1, <1>2 DEF StraysSound
<1>5. ClearSound => ClearSound'
  BY <1>1, <1>2 DEF ClearSound
<1>6. ApplySound => ApplySound'
  BY <1>1, <1>2, <1>4, <1>5 DEF ApplySound
<1> QED BY <1>3, <1>6 DEF CalmSound

\* The program's own bookkeeping of the signals touches nothing of it.
LEMMA SignalsAside ==
    ASSUME SettledInv, TypeOK', owner' = owner \/ (agenda = <<>> /\ owner' = "none"),
           UNCHANGED <<agenda, pos, crashes, halts, short, algos, stream, link, snap, up>>
    PROVE  SettledInv'
<1>1. owner' = owner \/ (~Reconciling /\ agenda = <<>> /\ owner' = "none")
  BY DEF SettledInv, ShapeSound
<1>2. Reconciling' = Reconciling /\ (Reconciling => taken' = taken)
  BY <1>1 DEF Reconciling, taken, Reconcilers
<1>3. LockSound'
  <2>1. CASE owner' = owner
    BY <2>1 DEF SettledInv, LockSound
  <2>2. CASE ~Reconciling /\ agenda = <<>> /\ owner' = "none"
    <3>1. \A task \in Reconcilers : snap[task].phase # "applying"
      BY <2>2 DEF SettledInv, LockSound, Reconciling
    <3> QED BY <2>2, <3>1 DEF SettledInv, LockSound
  <2> QED BY <1>1, <2>1, <2>2
<1>4. /\ Watcher' = Watcher /\ Looking' = Looking /\ Hint' = Hint
      /\ snap'[Watcher'] = snap[Watcher]
  BY DEF Watcher, Looking, Hint
<1>5. SnapshotFresh'
  BY <1>4 DEF SettledInv, SnapshotFresh
<1>6. Doomed' = Doomed
  BY DEF Doomed, Todo
<1>7. Calm' => Calm
  BY <1>4, <1>6 DEF Calm
<1>8. CalmSound'
  BY <1>4, <1>7, CalmKept DEF SettledInv
<1> QED BY <1>1, <1>2, <1>3, <1>5, <1>8, TaskStep

\* Signals that send nothing, and the end of a handler.
LEMMA SignalsSettled ==
    ASSUME SettledInv, TypeOK', DeclineEntry \/ CloseNothing \/ Release
    PROVE  SettledInv'
<1>1. owner' = owner \/ (agenda = <<>> /\ owner' = "none")
  BY DEF DeclineEntry, CloseNothing, Release, volatile
<1>2. UNCHANGED <<agenda, pos, crashes, halts, short, algos, stream, link, snap, up>>
  BY DEF DeclineEntry, CloseNothing, Release, volatile, account
<1> QED BY <1>1, <1>2, SignalsAside

\* The exchange tells the connected program of every fill and every stop.
LEMMA AccountNextHint ==
    ASSUME TypeOK, AccountNext
    PROVE  /\ Hint => Hint'
           /\ link = "lost" \/ Hint' \/ UNCHANGED <<short, algos>>
<1>1. ASSUME NEW o \in OrderIds, Fill(o)
      PROVE  (Hint => Hint') /\ (link = "lost" \/ Hint')
  <2> DEFINE left == orders[o].qty - orders[o].filled
             room == IF IsEntry(o) \/ left <= short[SymbolOfId(o)] THEN left
                     ELSE short[SymbolOfId(o)]
             st(q) == IF q = left THEN "filled" ELSE "live"
             filled(q) == orders[o].filled + q
  <2>1. PICK q \in 1..room : Emit(OrderEvent(o, st(q), filled(q), TRUE))
    BY <1>1 DEF Fill
  <2>2. filled(q) \in Nat
    <3>1. orders[o].filled \in Nat
      BY DEF TypeOK, AccountTypeOK, OrderRow
    <3> QED BY <3>1
  <2>3. st(q) \in OrderStatus
    BY DEF OrderStatus
  <2> HIDE DEF left, room, st, filled
  <2>4. /\ OrderEvent(o, st(q), filled(q), TRUE) \in Events
        /\ OrderEvent(o, st(q), filled(q), TRUE).fill
    BY <2>2, <2>3 DEF OrderEvent, Events
  <2> QED BY <2>1, <2>4, EmitHint
<1>2. ASSUME NEW o \in OrderIds, Expire(o)
      PROVE  (Hint => Hint') /\ UNCHANGED <<short, algos>>
  BY <1>2, CancelWorkingHint DEF Expire
<1>3. ASSUME NEW a \in algos, Trigger(a)
      PROVE  (Hint => Hint') /\ (link = "lost" \/ Hint')
  <2>1. StopEvent \in Events /\ StopEvent.fill
    BY DEF StopEvent, OrderEvent, Events, OrderStatus
  <2> QED BY <1>3, <2>1, EmitHint DEF Trigger
<1>4. ASSUME LateArrival
      PROVE  (Hint => Hint') /\ (link = "lost" \/ Hint' \/ UNCHANGED <<short, algos>>)
  <2>1. CASE UNCHANGED <<algos, stream>>
    BY <1>4, <2>1 DEF LateArrival, Hint
  <2>2. CASE \E a : AcceptStop(a)
    BY <2>2, AcceptStopHint
  <2> QED BY <1>4, <2>1, <2>2 DEF LateArrival, Arrive
<1> QED BY <1>1, <1>2, <1>3, <1>4 DEF AccountNext

\* The exchange fills, ends and triggers orders; requests arrive late.
LEMMA ExchangeStepSettled ==
    ASSUME SettledInv, TypeOK', ExchangeStep
    PROVE  SettledInv'
<1>1. /\ Hint => Hint'
      /\ link = "lost" \/ Hint' \/ UNCHANGED <<short, algos>>
  BY AccountNextHint DEF ExchangeStep, SettledInv
<1>2. UNCHANGED <<agenda, pos, crashes, halts, snap, up, owner, link>>
  BY DEF ExchangeStep, AccountNext, Fill, Expire, Trigger, LateArrival, ledger, volatile
<1>3. Reconciling' = Reconciling /\ taken' = taken /\ LockSound'
  BY <1>2 DEF Reconciling, taken, SettledInv, LockSound
<1>4. Watcher' = Watcher /\ Looking' = Looking
  BY <1>2 DEF Watcher, Looking
<1>5. SnapshotFresh'
  BY <1>1, <1>2, <1>4 DEF SettledInv, SnapshotFresh
<1>6. Doomed' = Doomed
  BY <1>2 DEF Doomed, Todo
<1>7. CalmSound'
  <2> SUFFICES ASSUME Calm' PROVE CalmSound'
    BY DEF CalmSound
  <2>1. UNCHANGED <<short, algos>> /\ Calm
    BY <1>1, <1>2, <1>4, <1>6 DEF Calm
  <2> QED BY <1>2, <1>4, <2>1, CalmKept DEF SettledInv
<1> QED BY <1>2, <1>3, <1>5, <1>7, TaskStep

\* A snapshot is read by a task whose snapshots count.
LEMMA ReadingTask ==
    ASSUME SettledInv, NEW task \in Reconcilers, snap[task].phase \in {"wanted", "half", "ready"}
    PROVE  /\ task = Watcher /\ task \in {"private", "startup"} /\ owner # "startup"
           /\ task = "private" => up = "running" /\ link # "lost"
           /\ task = "startup" => up # "running" /\ owner \in {"none", "startup"}
BY DEF SettledInv, LockSound, Reconcilers, Watcher

\* What a step that only moves a snapshot on keeps.
LEMMA ReadingStep ==
    ASSUME SettledInv, TypeOK', NEW task \in Reconcilers,
           snap[task].phase \in {"wanted", "half"},
           snap'[task].phase \in {"idle", "half", "ready"},
           \A k \in Reconcilers : k # task => snap'[k] = snap[k],
           UNCHANGED <<agenda, pos, crashes, owner>>, halts \subseteq halts',
           LockSound', SnapshotFresh', ~Calm'
    PROVE  SettledInv'
<1>1. Reconciling' = Reconciling /\ (Reconciling => taken' = taken)
  BY DEF Reconciling, taken
<1>2. CalmSound'
  BY DEF CalmSound
<1> QED BY <1>1, <1>2, TaskStep

\* The first half of a snapshot is what the account holds.
LEMMA FetchPositionsSettled ==
    ASSUME StreamOnly, SettledInv, TypeOK', NEW task \in Reconcilers, FetchPositions(task)
    PROVE  SettledInv'
<1>1. snap[task].phase = "wanted"
  BY DEF FetchPositions, Wanted, StreamOnly
<1>2. /\ task = Watcher /\ task \in {"private", "startup"} /\ owner # "startup"
      /\ task = "private" => up = "running" /\ link # "lost"
      /\ task = "startup" => up # "running" /\ owner \in {"none", "startup"}
  BY <1>1, ReadingTask
<1>3. /\ snap'[task].phase = "half" /\ snap'[task].short = short
      /\ \A k \in Reconcilers : k # task => snap'[k] = snap[k]
  BY DEF FetchPositions, SettledInv, TypeOK, TaskTypeOK, Idle
<1>4. UNCHANGED <<agenda, pos, crashes, owner, halts, up, link, short, algos, stream>>
  BY DEF FetchPositions, account, ledger
<1>5. LockSound'
  BY <1>1, <1>2, <1>3, <1>4 DEF SettledInv, LockSound, Reconcilers
<1>6. Watcher' = task /\ Looking' = "half" /\ snap'[Watcher'].short = short'
  BY <1>2, <1>3, <1>4 DEF Watcher, Looking
<1>7. SnapshotFresh' /\ ~Calm'
  BY <1>6 DEF SnapshotFresh, Calm
<1> QED BY <1>1, <1>3, <1>4, <1>5, <1>7, ReadingStep

\* The second half belongs to the first, unless an event came in between.
LEMMA FetchOrdersSettled ==
    ASSUME SettledInv, TypeOK', NEW task \in Reconcilers, FetchOrders(task)
    PROVE  SettledInv'
<1>1. snap[task].phase = "half"
  BY DEF FetchOrders
<1>2. /\ task = Watcher /\ task \in {"private", "startup"} /\ owner # "startup"
      /\ task = "private" => up = "running" /\ link # "lost"
      /\ task = "startup" => up # "running" /\ owner \in {"none", "startup"}
  BY <1>1, ReadingTask
<1>3. /\ snap'[task].phase = "ready" /\ snap'[task].short = snap[task].short
      /\ snap'[task].algos = algos
      /\ \A k \in Reconcilers : k # task => snap'[k] = snap[k]
  BY DEF FetchOrders, SettledInv, TypeOK, TaskTypeOK, Snapshot
<1>4. UNCHANGED <<agenda, pos, crashes, owner, halts, up, link, short, algos, stream>>
  BY DEF FetchOrders, account, ledger
<1>5. LockSound'
  BY <1>1, <1>2, <1>3, <1>4 DEF SettledInv, LockSound, Reconcilers
<1>6. Watcher' = task /\ Looking' = "ready" /\ Hint' = Hint
  BY <1>2, <1>3, <1>4 DEF Watcher, Looking, Hint
<1>7. SnapshotFresh'
  BY <1>1, <1>2, <1>3, <1>4, <1>6 DEF SettledInv, SnapshotFresh, Looking
<1>8. ~Calm'
  BY <1>6 DEF Calm
<1> QED BY <1>1, <1>3, <1>4, <1>5, <1>7, <1>8, ReadingStep

\* A snapshot that cannot be read promises nothing, and leaves the halt of a lost stream.
LEMMA FetchFailsSettled ==
    ASSUME SettledInv, TypeOK', NEW task \in Reconcilers, FetchFails(task)
    PROVE  SettledInv'
<1>1. snap[task].phase \in {"wanted", "half"} /\ owner # task
  BY DEF FetchFails
<1>2. /\ task = Watcher /\ task \in {"private", "startup"} /\ owner # "startup"
      /\ task = "private" => up = "running" /\ link # "lost"
      /\ task = "startup" => up # "running" /\ owner \in {"none", "startup"}
  BY <1>1, ReadingTask
<1>3. /\ snap'[task].phase = "idle"
      /\ \A k \in Reconcilers : k # task => snap'[k] = snap[k]
  BY DEF FetchFails, SettledInv, TypeOK, TaskTypeOK, Idle
<1>4. UNCHANGED <<agenda, pos, crashes, owner, short, algos>>
  BY DEF FetchFails, keepMarket
<1>5. CASE task = "private"
  <2>1. up' = up /\ up = "running"
    BY <1>2, <1>5 DEF FetchFails
  <2>2. \/ link = "proving" /\ link' = "live" /\ halts' = halts
        \/ link' = "lost" /\ halts' = halts \cup {StreamFailed}
    BY <1>5 DEF FetchFails, StreamLost
  <2>3. halts \subseteq halts' /\ StreamFailed \in halts'
    BY <2>1, <2>2 DEF SettledInv, LockSound
  <2>4. LockSound'
    BY <1>1, <1>2, <1>3, <1>4, <1>5, <2>1, <2>2, <2>3 DEF SettledInv, LockSound, Reconcilers
  <2>5. Looking' = "idle"
    BY <1>3, <1>5, <2>1 DEF Looking, Watcher
  <2>6. SnapshotFresh' /\ ~Calm'
    BY <2>2, <2>3, <2>5 DEF SnapshotFresh, Calm
  <2> QED BY <1>1, <1>3, <1>4, <2>3, <2>4, <2>6, ReadingStep
<1>6. CASE task = "startup"
  <2>1. /\ up' = IF up = "recovering" THEN "down" ELSE up
        /\ link' = "lost" /\ halts' = halts /\ up # "running" /\ owner = "none"
    BY <1>1, <1>2, <1>6 DEF FetchFails
  <2>2. up' # "running" /\ up' # "recovering" /\ (up' # "down" => up' = up)
    BY <2>1
  <2>3. LockSound'
    BY <1>1, <1>2, <1>3, <1>4, <1>6, <2>1, <2>2 DEF SettledInv, LockSound, Reconcilers
  <2>4. Looking' = "idle"
    BY <1>3, <1>6, <2>2 DEF Looking, Watcher
  <2>5. SnapshotFresh' /\ ~Calm'
    BY <2>1, <2>4 DEF SnapshotFresh, Calm
  <2> QED BY <1>1, <1>3, <1>4, <2>1, <2>3, <2>5, ReadingStep
<1> QED BY <1>2, <1>5, <1>6

\* The stream is lost, with the events in it, and the halt is set.
LEMMA DropStreamSettled ==
    ASSUME SettledInv, TypeOK', DropStream
    PROVE  SettledInv'
<1>1. /\ up = "running" /\ snap["private"].phase = "idle" /\ link' = "lost"
      /\ halts' = halts \cup {StreamFailed}
      /\ UNCHANGED <<agenda, pos, crashes, owner, short, algos, snap, up>>
  BY DEF DropStream, PrivateIdle, StreamLost, keepMarket, volatile
<1>2. Reconciling' = Reconciling /\ taken' = taken
  BY <1>1 DEF Reconciling, taken
<1>3. LockSound'
  BY <1>1 DEF SettledInv, LockSound
<1>4. SnapshotFresh' /\ ~Calm'
  BY <1>1 DEF SnapshotFresh, Calm
<1> QED BY <1>1, <1>2, <1>3, <1>4, TaskStep DEF CalmSound

\* The stream is back and a snapshot is wanted.
LEMMA ReconnectSettled ==
    ASSUME SettledInv, TypeOK', Reconnect
    PROVE  SettledInv'
<1>1. PICK task \in {"private", "startup"} :
        /\ IF task = "private" THEN PrivateIdle
           ELSE up = "supervising" /\ snap["startup"].phase = "idle"
        /\ link = "lost" /\ link' = "proving"
        /\ snap' = [snap EXCEPT ![task].phase = "wanted"]
        /\ UNCHANGED <<keepMarket, stream, faults, ledger, loaded, configured,
                       agenda, owner, up, crashes>>
  BY DEF Reconnect
<1>2. UNCHANGED <<agenda, pos, crashes, owner, halts, up, short, algos, stream>>
  BY <1>1 DEF keepMarket, ledger
<1>3. /\ snap[task].phase = "idle" /\ snap'[task].phase = "wanted"
      /\ \A k \in Reconcilers : k # task => snap'[k] = snap[k]
      /\ task = "private" => up = "running"
      /\ task = "startup" => up = "supervising"
  BY <1>1 DEF SettledInv, TypeOK, TaskTypeOK, Snapshot, PrivateIdle, Reconcilers
<1>4. LockSound'
  BY <1>1, <1>2, <1>3 DEF SettledInv, LockSound, Reconcilers
<1>5. Looking' = "wanted"
  BY <1>2, <1>3 DEF Looking, Watcher
<1>6. SnapshotFresh' /\ ~Calm'
  BY <1>5 DEF SnapshotFresh, Calm
<1>7. Reconciling' = Reconciling /\ (Reconciling => taken' = taken)
  BY <1>2, <1>3 DEF Reconciling, taken
<1> QED BY <1>2, <1>4, <1>6, <1>7, TaskStep DEF CalmSound

-----------------------------------------------------------------------------
(***************************************************************************)
(* Handlers that start.                                                    *)
(***************************************************************************)

\* While the lock is free nothing is left to do and no snapshot is applied.
LEMMA LockFree ==
    ASSUME SettledInv, owner = "none"
    PROVE  /\ TypeOK /\ agenda = <<>> /\ ~Reconciling
           /\ \A task \in Reconcilers : snap[task].phase # "applying"
           /\ Looking # "applying" /\ ~Closing /\ ~Doomed /\ ~Moving
           /\ \A t : ~Protecting(t)
           /\ \A a : ~Replacing(a) /\ ~Cancelling(a)
<1>1. TypeOK /\ agenda = <<>>
  BY DEF SettledInv, LockSound
<1>2. Todo = {}
  <2>1. Len(agenda) = 0
    BY <1>1
  <2> QED BY <2>1 DEF Todo, StepsIn
<1>3. \A task \in Reconcilers : snap[task].phase # "applying"
  BY DEF SettledInv, LockSound, Reconcilers
<1>4. ~Reconciling /\ Looking # "applying"
  BY <1>3 DEF Reconciling, Looking, Watcher, Reconcilers
<1>5. /\ ~Closing /\ ~Doomed
      /\ \A t : ~Protecting(t)
      /\ \A a : ~Replacing(a) /\ ~Cancelling(a)
  BY <1>1, <1>2 DEF Closing, Doomed, Protecting, Replacing, Cancelling
<1> QED BY <1>1, <1>3, <1>4, <1>5 DEF Moving

\* What a handler that starts has to keep: it finds nothing on the agenda.
LEMMA Started ==
    ASSUME SettledInv, TypeOK', owner = "none", UNCHANGED crashes, halts \subseteq halts',
           Held' = Held, OwnStops', \A t \in Held : pos'[t].prot = pos[t].prot,
           ShapeSound', \A x \in Todo' : StepHeld(x)',
           agenda' # <<>> => Final'.op # "strays",
           LockSound', SnapshotFresh', CalmSound'
    PROVE  SettledInv'
<1>1. ~Closing /\ \A t : ~Protecting(t)
  BY LockFree
<1>2. HeldSound'
  BY DEF HeldSound, SettledInv, OneHeld
<1>3. ProtSound'
  BY <1>1 DEF ProtSound, SettledInv
<1>4. ClosingSound'
  BY DEF ClosingSound
<1> QED BY <1>2, <1>3, <1>4 DEF SettledInv

\* The handlers of the signal loop and the protection sync start without
\* touching the books.
LEMMA StartedAside ==
    ASSUME SettledInv, TypeOK', owner = "none", owner' \in {"signal", "guard"},
           up = "running", SameBooks,
           UNCHANGED <<crashes, halts, short, algos, stream, link, snap, up>>,
           \A i \in 1..Len(agenda') :
             /\ agenda'[i].op \in {"configure", "submit", "trail"}
             /\ i > 1 => Trailing(agenda'[i])
             /\ (agenda'[i].op = "submit" /\ IsEntry(agenda'[i].order))
                  \/ agenda'[i].op = "configure" => owner' = "signal",
           \A x \in Todo' : StepHeld(x)'
    PROVE  SettledInv'
<1>1. /\ TypeOK /\ \A task \in Reconcilers : snap[task].phase # "applying"
      /\ \A t : ~Protecting(t)
      /\ \A a : ~Replacing(a) /\ ~Cancelling(a)
      /\ ~Moving /\ Looking # "applying"
  BY LockFree
<1>2. ~Reconciling'
  BY DEF Reconciling, Reconcilers
<1>3. ShapeSound'
  BY <1>2, ShapeStart DEF EndOps, SnapshotOps, AskOps
<1>4. agenda' # <<>> => Final'.op # "strays"
  <2> SUFFICES ASSUME agenda' # <<>> PROVE Final'.op # "strays"
    OBVIOUS
  <2>1. Len(agenda') \in 1..Len(agenda')
    BY LenProperties, EmptySeq DEF TypeOK, TaskTypeOK
  <2> QED BY <2>1 DEF Final
<1>6. /\ Held' = Held /\ \A t \in Trades : pos'[t].prot = pos[t].prot /\ pos'[t].stop = pos[t].stop
      /\ Held \subseteq Trades
  BY HeldTrades DEF SameBooks
<1>7. OwnStops'
  BY <1>6 DEF SettledInv, HeldSound, OwnStops
<1>8. LockSound'
  BY <1>1 DEF SettledInv, LockSound, Reconcilers
<1>9. Watcher' = Watcher /\ Looking' = Looking /\ Hint' = Hint
  BY DEF Watcher, Looking, Hint
<1>10. SnapshotFresh'
  BY <1>9 DEF SettledInv, SnapshotFresh
<1>11. CalmSound'
  <2> SUFFICES ASSUME Calm', Looking' = "idle" PROVE IdleSound'
    BY <1>1, <1>9 DEF CalmSound
  <2>1. Calm
    <3>1. ~Doomed
      BY LockFree
    <3> QED BY <1>9, <3>1 DEF Calm
  <2>2. IdleSound
    BY <1>9, <2>1 DEF SettledInv, CalmSound
  <2>3. /\ \A p \in Held : Covered(p) /\ Agrees(p)
        /\ \A s \in Symbols : Flat(s)
        /\ \A a \in algos : a \in Recorded
    BY <1>1, <2>2 DEF IdleSound
  <2>4. /\ \A p \in Held' : Covered(p)' /\ Agrees(p)'
        /\ \A s \in Symbols : Flat(s)'
        /\ \A a \in algos' : a \in Recorded'
    BY <1>6, <2>3, BooksKept
  <2> QED BY <2>4 DEF IdleSound
<1> QED BY <1>3, <1>4, <1>6, <1>7, <1>8, <1>10, <1>11, Started

\* An entry is taken up.
LEMMA OpenShortSettled ==
    ASSUME SettledInv, TypeOK', OpenShort
    PROVE  SettledInv'
<1>1. PICK t \in Trades : t = NextSignal.trade
  BY SignalTypes DEF OpenShort, SettledInv
<1>2. PICK o \in OrderIds : o = Entry(t)
  BY <1>1, IdTypes
<1>3. IsEntry(o) /\ ~IsExit(o) /\ o.role = "en"
  BY <1>2 DEF Entry, IsEntry, IsExit
<1>4. /\ owner = "none" /\ owner' = "signal" /\ up = "running"
      /\ UNCHANGED <<crashes, halts, short, algos, stream, link, snap, up, pos>>
  BY DEF OpenShort, Polling, Take, account
<1>5. PICK x, y : x = OrderStep("submit", o, t) /\ y = OrderStep("configure", o, t)
  OBVIOUS
<1>6. /\ x.op = "submit" /\ x.order = o
      /\ y.op = "configure" /\ y.order = o
  <2>1. "submit" \in Ops /\ "configure" \in Ops
    BY DEF Ops, PlacementOps
  <2> QED BY <1>5, <2>1, StepParts
<1>7. agenda' = <<x>> \/ agenda' = <<y, x>>
  BY <1>1, <1>2, <1>5 DEF OpenShort, Return
<1>8. StepHeld(x)' /\ StepHeld(y)'
  BY <1>3, <1>6 DEF StepHeld, AskOps
<1>9. Trailing(x)
  BY <1>3, <1>6 DEF Trailing, FirstOps
<1>10. \A i \in 1..Len(agenda') :
         \/ agenda'[i] = x
         \/ agenda'[i] = y /\ i = 1
  BY <1>7
<1>12. \A z \in Todo' : StepHeld(z)'
  <2>1. \A z \in Todo' : z = x \/ z = y
    BY <1>10 DEF Todo, StepsIn
  <2> QED BY <1>8, <2>1
<1>11. SameBooks
  BY <1>4, SamePos
<1> QED BY <1>4, <1>6, <1>8, <1>9, <1>10, <1>11, <1>12, StartedAside

\* An exit of a position that is held.
LEMMA BeginExitSettled ==
    ASSUME SettledInv, TypeOK', NEW o \in OrderIds, IsExit(o), NEW p \in Held, BeginExit(o, p),
           owner = "none", owner' \in {"signal", "guard"}, up = "running"
    PROVE  SettledInv'
<1>1. p \in Trades /\ pos \in [Trades -> PositionRow]
  BY DEF Held, SettledInv, TypeOK, LedgerTypeOK
<1>2. /\ UNCHANGED <<crashes, halts, short, algos, stream, link, snap, up>>
      /\ pos' = [pos EXCEPT ![p].st = "closing"]
      /\ agenda' = <<OrderStep("submit", o, p)>>
  BY DEF BeginExit, Return, account
<1>3. \A t \in Trades :
        /\ pos'[t].qty = pos[t].qty /\ pos'[t].stop = pos[t].stop
        /\ pos'[t].trail = pos[t].trail /\ pos'[t].prot = pos[t].prot
        /\ t # p => pos'[t].st = pos[t].st
        /\ pos'[p].st = "closing"
  BY <1>1, <1>2 DEF PositionRow
<1>4. Held' = Held
  BY <1>3 DEF Held
<1>5. SameBooks
  BY <1>3, <1>4 DEF SameBooks
<1>6. PICK x : x = OrderStep("submit", o, p)
  OBVIOUS
<1>7. x.op = "submit" /\ x.order = o /\ x.trade = p
  <2>1. "submit" \in Ops
    BY DEF Ops, PlacementOps
  <2> QED BY <1>1, <1>6, <2>1, StepParts
<1>8. ~IsEntry(o) /\ o.role # "em"
  BY DEF IsExit, IsEntry
<1>9. StepHeld(x)'
  BY <1>4, <1>7, <1>8 DEF StepHeld, AskOps
<1>10. \A i \in 1..Len(agenda') : agenda'[i] = x /\ i = 1
  BY <1>2, <1>6
<1>11. \A z \in Todo' : StepHeld(z)'
  <2>1. \A z \in Todo' : z = x
    BY <1>10 DEF Todo, StepsIn
  <2> QED BY <1>9, <2>1
<1> QED BY <1>2, <1>5, <1>7, <1>8, <1>10, <1>11, StartedAside

\* The positions a fill or an exit is about are held.
LEMMA PositionForHeld ==
    ASSUME NEW t
    PROVE  PositionFor(t) \subseteq Held
BY DEF PositionFor, HeldAt

\* An exit is taken up.
LEMMA CloseShortSettled ==
    ASSUME SettledInv, TypeOK', CloseShort
    PROVE  SettledInv'
<1>1. PICK t \in Trades : t = NextSignal.trade
  BY SignalTypes DEF CloseShort, SettledInv
<1>2. PICK o \in OrderIds : o = SignalExit(t)
  BY <1>1, IdTypes
<1>3. IsExit(o)
  BY <1>2 DEF SignalExit, IsExit
<1>4. PICK p \in PositionFor(o.trade) : BeginExit(o, p)
  BY <1>1, <1>2 DEF CloseShort
<1>5. p \in Held
  BY PositionForHeld
<1>6. owner = "none" /\ owner' = "signal" /\ up = "running"
  BY DEF CloseShort, Polling, Take
<1> QED BY <1>3, <1>4, <1>5, <1>6, BeginExitSettled

\* The protection sync closes a position.
LEMMA ProtectiveExitSettled ==
    ASSUME SettledInv, TypeOK', NEW p \in Trades, ProtectiveExit(p)
    PROVE  SettledInv'
<1>1. PICK o \in Fresh(p, "px") : BeginExit(o, p)
  BY DEF ProtectiveExit
<1>2. o \in OrderIds /\ IsExit(o)
  BY FreshTypes DEF Fresh, IsExit
<1>3. p \in Held /\ owner = "none" /\ owner' = "guard" /\ up = "running"
  BY DEF ProtectiveExit, Take
<1> QED BY <1>1, <1>2, <1>3, BeginExitSettled

\* The protection sync moves the trailing stop.
LEMMA SyncTrailSettled ==
    ASSUME SettledInv, TypeOK', NEW p \in Trades, SyncTrail(p)
    PROVE  SettledInv'
<1>1. /\ owner = "none" /\ owner' = "guard" /\ up = "running"
      /\ UNCHANGED <<crashes, halts, short, algos, stream, link, snap, up, pos>>
      /\ agenda' = <<TradeStep("trail", p)>>
  BY DEF SyncTrail, Take, Return, account, ledger
<1>2. PICK x : x = TradeStep("trail", p)
  OBVIOUS
<1>3. x.op = "trail"
  <2>1. "trail" \in Ops
    BY DEF Ops, TradeOps
  <2> QED BY <1>2, <2>1, TradeParts
<1>4. StepHeld(x)'
  BY <1>3 DEF StepHeld, AskOps
<1>5. \A i \in 1..Len(agenda') : agenda'[i] = x /\ i = 1
  BY <1>1, <1>2
<1>6. SameBooks
  BY <1>1, SamePos
<1>7. \A z \in Todo' : StepHeld(z)'
  <2>1. \A z \in Todo' : z = x
    BY <1>5 DEF Todo, StepsIn
  <2> QED BY <1>4, <2>1
<1> QED BY <1>1, <1>3, <1>5, <1>6, <1>7, StartedAside

\* An event of the stream: one that reports a fill makes the program read the
\* account again.
LEMMA HandleEventSettled ==
    ASSUME SettledInv, TypeOK', HandleEvent
    PROVE  SettledInv'
<1> DEFINE e == Head(stream)
           o == e.order
<1>1. /\ owner = "none" /\ owner' = "private" /\ up = "running" /\ link # "lost"
      /\ stream # <<>> /\ stream' = Tail(stream) /\ snap["private"].phase = "idle"
      /\ UNCHANGED <<crashes, halts, short, algos, link, up, pos, loaded>>
  BY DEF HandleEvent, PrivateIdle, Take, keepMarket
<1>2. /\ TypeOK /\ ~Doomed /\ ~Moving
      /\ \A task \in Reconcilers : snap[task].phase # "applying"
      /\ \A t : ~Protecting(t)
      /\ \A a : ~Replacing(a) /\ ~Cancelling(a)
  BY <1>1, LockFree
<1>3. /\ snap'["private"].phase \in {"idle", "wanted"}
      /\ snap'["private"].phase = "idle" => ~e.fill
      /\ \A task \in Reconcilers : task # "private" => snap'[task] = snap[task]
  BY <1>1, <1>2 DEF HandleEvent, WantsReconcile, TypeOK, TaskTypeOK, Snapshot, Reconcilers
<1>4. \/ agenda' = <<>>
      \/ \E x : /\ agenda' = <<x>> /\ x.op \in {"entry_fill", "exit_fill"}
                /\ x.op = "exit_fill" => x.trade \in Held
  <2>1. CASE Return(<<>>)
    BY <2>1 DEF Return
  <2>2. CASE o \in loaded /\ Return(<<OrderStep("entry_fill", o, o.trade)>>)
    <3>1. "entry_fill" \in Ops /\ o \in OrderIds
      BY <1>2, <2>2 DEF Ops, OrderOps, TypeOK, TaskTypeOK
    <3>2. OrderStep("entry_fill", o, o.trade).op = "entry_fill"
      BY <3>1, TradeOfOrder, StepParts
    <3> QED BY <2>2, <3>2 DEF Return
  <2>3. CASE o \in loaded /\ \E p \in PositionFor(o.trade) : Return(<<OrderStep("exit_fill", o, p)>>)
    <3>1. PICK p \in PositionFor(o.trade) : Return(<<OrderStep("exit_fill", o, p)>>)
      BY <2>3
    <3>2. "exit_fill" \in Ops /\ o \in OrderIds
      BY <1>2, <2>3 DEF Ops, PlacementOps, TypeOK, TaskTypeOK
    <3>3. p \in Held /\ p \in Trades
      BY PositionForHeld, HeldTrades
    <3>4. /\ OrderStep("exit_fill", o, p).op = "exit_fill"
          /\ OrderStep("exit_fill", o, p).trade = p
      BY <3>2, <3>3, StepParts
    <3> QED BY <3>1, <3>3, <3>4 DEF Return
  <2> QED BY <2>1, <2>2, <2>3 DEF HandleEvent
<1>5. Held' = Held /\ Held \subseteq Trades
  BY <1>1 DEF Held
<1>6. ~Reconciling'
  BY <1>1, <1>3 DEF Reconciling
<1>7. \A i \in 1..Len(agenda') :
        /\ i = 1 /\ agenda'[i].op \in {"entry_fill", "exit_fill"}
        /\ agenda'[i].op = "exit_fill" => agenda'[i].trade \in Held
  BY <1>4
<1>8. ShapeSound'
  BY <1>6, <1>7, ShapeStart DEF EndOps, SnapshotOps, AskOps
<1>9. \A x \in Todo' : StepHeld(x)'
  <2>1. \A x \in Todo' : /\ x.op \in {"entry_fill", "exit_fill"}
                         /\ x.op = "exit_fill" => x.trade \in Held'
    BY <1>5, <1>7 DEF Todo, StepsIn
  <2> QED BY <2>1 DEF StepHeld, AskOps, Closable
<1>10. agenda' # <<>> => Final'.op # "strays"
  BY <1>4 DEF Final
<1>11. OwnStops' /\ \A t \in Held : pos'[t].prot = pos[t].prot
  BY <1>1 DEF SettledInv, HeldSound, OwnStops
<1>12. link = "live"
  BY <1>1, <1>2 DEF SettledInv, LockSound, TypeOK, AccountTypeOK
<1>13. LockSound'
  BY <1>1, <1>2, <1>3, <1>12 DEF SettledInv, LockSound, Reconcilers
<1>14. Watcher = "private" /\ Watcher' = "private" /\ Looking = "idle"
  BY <1>1 DEF Watcher, Looking
<1>15. Looking' \in {"idle", "wanted"} /\ SnapshotFresh'
  BY <1>3, <1>14 DEF Looking, SnapshotFresh
<1>16. CalmSound'
  <2> SUFFICES ASSUME Calm' PROVE IdleSound'
    BY <1>15 DEF CalmSound
  <2>1. ~e.fill
    BY <1>3, <1>14 DEF Calm, Looking
  <2>2. ~Hint
    <3> SUFFICES ASSUME NEW i \in 1..Len(stream), stream[i].fill PROVE Hint'
      BY DEF Hint, Calm
    <3>1. stream \in Seq(Events) /\ Len(stream) \in Nat /\ Len(Tail(stream)) = Len(stream) - 1
      BY <1>1, <1>2, LenProperties, HeadTailProperties DEF TypeOK, AccountTypeOK
    <3>2. i # 1
      BY <1>1, <2>1, <3>1
    <3>3. i - 1 \in 1..Len(Tail(stream)) /\ Tail(stream)[i - 1] = stream[i]
      <4>1. i \in 2..Len(stream) /\ i - 1 \in 1..(Len(stream) - 1) /\ (i - 1) + 1 = i
        BY ONLY <3>1, <3>2, i \in 1..Len(stream)
      <4> QED BY <1>1, <3>1, <4>1, HeadTailProperties
    <3> QED BY <1>1, <3>3 DEF Hint
  <2>3. Calm
    BY <1>1, <1>2, <1>14, <2>2 DEF Calm
  <2>4. IdleSound
    BY <1>14, <2>3 DEF SettledInv, CalmSound
  <2>5. /\ \A p \in Held' : Covered(p)' /\ Agrees(p)'
        /\ \A s \in Symbols : Flat(s)'
        /\ \A a \in algos' : a \in Recorded'
    BY <1>1, <1>2, <1>5, <2>4, FlatKept DEF IdleSound, Covered, Agrees, Recorded
  <2> QED BY <2>5 DEF IdleSound
<1> QED BY <1>1, <1>5, <1>8, <1>9, <1>10, <1>11, <1>13, <1>15, <1>16, Started

\* What recover_inflight_orders is to do.
LEMMA RecoverOps ==
    ASSUME TypeOK
    PROVE  RecoverSteps \in Seq(StepType) /\ \A i \in 1..Len(RecoverSteps) :
             RecoverSteps[i].op = "recover"
<1>1. RecoverSteps \in Seq(StepType)
  BY RecoverStepsType, SeqMonotonic DEF TypeOK, StepsOf
<1>2. PICK n, q : RecoverSteps = [i \in 1..n |-> OrderStep("recover", q[i], q[i].trade)]
  BY DEF RecoverSteps
<1>3. \A i \in DOMAIN RecoverSteps : RecoverSteps[i].op = "recover"
  BY <1>2 DEF OrderStep, Step
<1>4. DOMAIN RecoverSteps = 1..Len(RecoverSteps)
  BY <1>1, LenProperties
<1> QED BY <1>1, <1>3, <1>4

\* A snapshot that has been read is applied: if no event has come since, it is
\* the account.
LEMMA BeginReconcileSettled ==
    ASSUME SettledInv, TypeOK', NEW task \in Reconcilers, BeginReconcile(task)
    PROVE  SettledInv'
<1>1. /\ snap[task].phase = "ready" /\ owner = "none" /\ owner' = task
      /\ snap' = [snap EXCEPT ![task].phase = "applying"]
      /\ agenda' = (IF up = "recovering" THEN RecoverSteps ELSE <<>>) \o <<Step("reconcile")>>
      /\ UNCHANGED <<crashes, halts, short, algos, stream, link, up, pos>>
  BY DEF BeginReconcile, Take, Return, account, ledger
<1>2. /\ task = Watcher /\ task \in {"private", "startup"}
      /\ task = "private" => up = "running" /\ link # "lost"
      /\ task = "startup" => up # "running"
  BY <1>1, ReadingTask
<1>3. TypeOK /\ \A k \in Reconcilers : snap[k].phase # "applying"
  BY <1>1, LockFree
<1>4. /\ snap'[task].phase = "applying" /\ snap'[task].short = snap[task].short
      /\ snap'[task].algos = snap[task].algos
      /\ \A k \in Reconcilers : k # task => snap'[k] = snap[k]
  BY <1>1, <1>3 DEF TypeOK, TaskTypeOK, Snapshot
<1>5. Reconciling'
  BY <1>1, <1>4 DEF Reconciling
<1>6. PICK front \in Seq(StepType), e \in StepType :
        /\ e = Step("reconcile") /\ e.op = "reconcile"
        /\ agenda' = front \o <<e>>
        /\ \A i \in 1..Len(front) : front[i].op = "recover"
        /\ up # "recovering" => front = <<>>
  <2>1. Step("reconcile") \in StepType /\ Step("reconcile").op = "reconcile"
    BY DEF Step, StepType, Ops, SnapshotOps
  <2>2. CASE up = "recovering"
    BY <1>1, <1>3, <2>1, <2>2, RecoverOps
  <2>3. CASE up # "recovering"
    <3>1. <<>> \in Seq(StepType) /\ \A i \in 1..Len(<<>>) : FALSE
      OBVIOUS
    <3> QED BY <1>1, <2>1, <2>3, <3>1
  <2> QED BY <2>2, <2>3
<1>7. ShapeSound' /\ agenda' # <<>> /\ Final' = e /\ Todo' = StepsIn(front) \cup {e}
  <2>1. "recover" \notin EndOps \cup FirstOps \cup SnapshotOps \cup TradedOps
                         \cup {"submit", "cancel_order", "flat", "position", "iterate"}
    BY DEF EndOps, FirstOps, SnapshotOps, TradedOps, TradeOps, PlacementOps
  <2>2. e.op \in EndOps /\ e.op \notin {"positions", "strays", "clear"}
    BY <1>6 DEF EndOps
  <2> QED BY <1>5, <1>6, <2>1, <2>2, ShapeEnd
<1>8. \A x \in Todo' : StepHeld(x)'
  <2>1. \A x \in Todo' : x.op \in {"recover", "reconcile"}
    BY <1>6, <1>7 DEF StepsIn
  <2> QED BY <2>1 DEF StepHeld, AskOps
<1>9. Held' = Held /\ OwnStops' /\ \A t \in Held : pos'[t].prot = pos[t].prot
  BY <1>1 DEF Held, SettledInv, HeldSound, OwnStops
<1>10. LockSound'
  <2>1. task = "startup" => up # "down"
    BY <1>1 DEF SettledInv, LockSound
  <2>2. CASE task = "private"
    BY <1>1, <1>2, <1>3, <1>4, <2>2 DEF SettledInv, LockSound, Reconcilers
  <2>3. CASE task = "startup"
    BY <1>1, <1>2, <1>3, <1>4, <2>1, <2>3 DEF SettledInv, LockSound, Reconcilers
  <2> QED BY <1>2, <2>2, <2>3
<1>11. /\ Watcher' = Watcher /\ Hint' = Hint /\ Looking = "ready" /\ Looking' = "applying"
       /\ snap'[Watcher'].short = snap[Watcher].short
       /\ snap'[Watcher'].algos = snap[Watcher].algos
  BY <1>1, <1>2, <1>4 DEF Watcher, Hint, Looking
<1>12. SnapshotFresh'
  BY <1>1, <1>11 DEF SettledInv, SnapshotFresh
<1>13. CalmSound'
  <2> SUFFICES ASSUME Calm' PROVE ApplySound'
    BY <1>11 DEF CalmSound
  <2>1. front = <<>>
    BY <1>1, <1>6 DEF Calm
  <2>2. Len(agenda') = 1
    BY <1>6, <2>1
  <2> QED BY <1>6, <1>7, <2>2 DEF ApplySound, EndOps
<1>14. Final'.op # "strays"
  BY <1>6, <1>7
<1> QED BY <1>1, <1>7, <1>8, <1>9, <1>10, <1>12, <1>13, <1>14, Started

-----------------------------------------------------------------------------
(***************************************************************************)
(* The process dies and starts again.                                      *)
(***************************************************************************)

\* A crash forgets what there was to do; what is in the ledger stays.
LEMMA DieSettled ==
    ASSUME SettledInv, TypeOK', Die, UNCHANGED <<pos, halts>>
    PROVE  SettledInv'
<1>1. /\ crashes' = crashes + 1 /\ up' = "down" /\ owner' = "none" /\ agenda' = <<>>
      /\ link' = "lost" /\ \A task \in Reconcilers : snap'[task].phase = "idle"
  BY DEF Die, Idle
<1>2. ShapeSound' /\ HeldSound' /\ ClosingSound' /\ Held' = Held
  BY <1>1, OverShape
<1>3. LockSound'
  BY <1>1 DEF LockSound, Reconcilers
<1>4. SnapshotFresh' /\ CalmSound'
  BY <1>1 DEF SnapshotFresh, CalmSound, Calm
<1>5. ProtSound'
  <2>1. crashes \in Nat
    BY DEF SettledInv, TypeOK, TaskTypeOK
  <2>2. crashes' > 0
    BY ONLY <1>1, <2>1
  <2> QED BY <2>2 DEF ProtSound
<1> QED BY <1>2, <1>3, <1>4, <1>5 DEF SettledInv

\* Crashes, restarts and the way back to the running program.
LEMMA CrashStepSettled ==
    ASSUME SettledInv, TypeOK', CrashStep
    PROVE  SettledInv'
<1>1. CASE Crash
  BY <1>1, DieSettled DEF Crash, ledger
<1>2. CASE CrashAfterSend
  BY <1>2, DieSettled DEF CrashAfterSend, ledger
<1>3. CASE CrashBetweenCommits
  BY <1>3, DieSettled DEF CrashBetweenCommits
<1>4. CASE Boot
  <2>1. /\ up = "down" /\ up' = "recovering" /\ snap' = [snap EXCEPT !["startup"].phase = "wanted"]
        /\ UNCHANGED <<agenda, pos, crashes, owner, halts, link, short, algos, stream>>
    BY <1>4 DEF Boot, account, ledger
  <2>2. /\ owner = "none" /\ link = "lost" /\ snap["private"].phase = "idle"
        /\ TypeOK
    BY <2>1 DEF SettledInv, LockSound
  <2>3. /\ snap'["startup"].phase = "wanted"
        /\ \A k \in Reconcilers : k # "startup" => snap'[k] = snap[k]
    BY <2>1, <2>2 DEF TypeOK, TaskTypeOK, Snapshot, Reconcilers
  <2>4. LockSound'
    BY <2>1, <2>2, <2>3 DEF SettledInv, LockSound, Reconcilers
  <2>5. SnapshotFresh' /\ CalmSound'
    BY <2>1, <2>2 DEF SnapshotFresh, CalmSound, Calm
  <2>6. Reconciling' = Reconciling /\ ~Reconciling
    BY <2>1, <2>2 DEF Reconciling, Reconcilers
  <2> QED BY <2>1, <2>4, <2>5, <2>6, TaskStep
<1> QED BY <1>1, <1>2, <1>3, <1>4 DEF CrashStep

\* A program that has just been deployed holds nothing.
LEMMA InitSettled ==
    ASSUME StreamOnly, Init
    PROVE  SettledInv
<1>1. /\ TypeOK /\ agenda = <<>> /\ owner = "none" /\ up = "running" /\ link = "live"
      /\ crashes = 0 /\ halts = {} /\ stream = <<>> /\ algos = {}
      /\ \A s \in Symbols : short[s] = 0
      /\ \A t \in Trades : pos[t] = NoPosition
      /\ \A task \in Reconcilers : snap[task].phase = "idle"
  BY InitType DEF Init, AccountInit, StreamOnly, Idle
<1>2. Held = {} /\ OwnStops
  BY <1>1, NoAlgoAssumption DEF Held, NoPosition, OwnStops
<1>3. Todo = {} /\ Len(agenda) = 0
  BY <1>1 DEF Todo, StepsIn
<1>4. LockSound /\ Looking = "idle"
  BY <1>1 DEF LockSound, Reconcilers, Looking, Watcher
<1>5. SnapshotFresh
  BY <1>4 DEF SnapshotFresh
<1>6. ShapeSound
  BY <1>1, <1>3 DEF ShapeSound, Reconciling, Reconcilers
<1>7. HeldSound /\ ProtSound /\ ClosingSound
  BY <1>1, <1>2, <1>3 DEF HeldSound, OneHeld, ProtSound, ClosingSound
<1>8. IdleSound
  BY <1>1, <1>2 DEF IdleSound, Flat
<1>9. CalmSound
  BY <1>4, <1>8 DEF CalmSound
<1> QED BY <1>1, <1>4, <1>5, <1>6, <1>7, <1>9 DEF SettledInv

\* The sum over no position,
LEMMA SumNone ==
    ASSUME NEW S, S = {}
    PROVE  MapThenSumSet(LAMBDA t : pos[t].qty, S) = 0
<1> DEFINE Sums(g) == g = [s \in SUBSET S |->
                             IF s = {} THEN 0
                             ELSE pos[CHOOSE x \in s : TRUE].qty + g[s \ {CHOOSE x \in s : TRUE}]]
<1>1. Sums([s \in SUBSET S |-> 0])
  OBVIOUS
<1>2. Sums(CHOOSE g : Sums(g))
  BY <1>1
<1>3. {} \in SUBSET S
  OBVIOUS
<1>4. (CHOOSE g : Sums(g))[{}] = 0
  BY <1>2, <1>3
<1> QED BY <1>4 DEF MapThenSumSet, MapThenFoldSet

\* and over one.
LEMMA SumOne ==
    ASSUME NEW p, pos[p].qty \in Nat
    PROVE  MapThenSumSet(LAMBDA t : pos[t].qty, {p}) = pos[p].qty
<1> DEFINE Sums(g) == g = [s \in SUBSET {p} |->
                             IF s = {} THEN 0
                             ELSE pos[CHOOSE x \in s : TRUE].qty + g[s \ {CHOOSE x \in s : TRUE}]]
           sum == [s \in SUBSET {p} |-> IF s = {} THEN 0 ELSE pos[p].qty + 0]
<1>1. \A s \in SUBSET {p} : s = {} \/ s = {p}
  OBVIOUS
<1>2. (CHOOSE x \in {p} : TRUE) = p /\ {p} \ {p} = {} /\ {} \in SUBSET {p} /\ {p} \in SUBSET {p}
      /\ {p} # {}
  OBVIOUS
<1>3. Sums(sum)
  <2>1. \A s \in SUBSET {p} :
          s # {} => /\ (CHOOSE x \in s : TRUE) = p
                    /\ sum[s \ {CHOOSE x \in s : TRUE}] = 0
    BY <1>1, <1>2
  <2> QED BY <2>1
<1>8. Sums(CHOOSE h : Sums(h))
  <2> HIDE DEF sum, Sums
  <2> QED BY <1>3
<1>4. PICK g : g = (CHOOSE h : Sums(h)) /\ Sums(g)
  <2> HIDE DEF Sums
  <2> QED BY <1>8
<1>5. g[{}] = 0
  BY <1>2, <1>4
<1>6. g[{p}] = pos[p].qty + 0
  BY <1>2, <1>4, <1>5, ZenonT(40)
<1>7. g[{p}] = pos[p].qty
  BY <1>6
<1> QED BY <1>4, <1>7 DEF MapThenSumSet, MapThenFoldSet

-----------------------------------------------------------------------------
(***************************************************************************)
(* Every step keeps the invariant, and what it says of a program at rest.  *)
(***************************************************************************)

\* One case for each group of actions of Next.
LEMMA NextSettled ==
    ASSUME StreamOnly, SettledInv, TypeOK', [Next]_vars
    PROVE  SettledInv'
<1>1. CASE UNCHANGED vars
  BY <1>1, SignalsAside DEF vars, account, ledger, volatile
<1>2. CASE ExchangeStep
  BY <1>2, ExchangeStepSettled
<1>3. CASE SignalStep
  BY <1>3, SignalsSettled, OpenShortSettled, ConfigureSettled, CloseShortSettled,
     ProtectiveExitSettled, SyncTrailSettled
  DEF SignalStep
<1>4. CASE PlacementStep
  BY <1>4, SubmitSettled, SettleSettled, ResolveSettled, CheckSettled, AbortSettled,
     RaiseSettled
  DEF PlacementStep
<1>5. CASE PositionStep
  <2>1. CASE EntryFillApplied \/ EntryFillUnpriced \/ EntryFillNothing \/ Review
    BY <2>1, EntryFillSettled, EntryUnpricedSettled, NothingSettled, ReviewSettled
  <2>2. CASE ProtectBegin \/ PlaceStopAccepted \/ PlaceStopFailed \/ CancelAlgo
    BY <2>2, ProtectBeginSettled, PlaceStopAcceptedSettled, PlaceStopFailedSettled,
       CancelAlgoSettled
  <2>3. CASE Emergency \/ Alarm \/ ExitFillApplied \/ ExitFillUnpriced \/ ExitFillNothing
    BY <2>3, EmergencySettled, AlarmSettled, ExitFillSettled, NothingSettled
  <2>4. CASE TrailSkipped \/ TrailPlaced \/ TrailFailed \/ TrailDisarmed
    BY <2>4, NothingSettled, TrailPlacedSettled, TrailFailedSettled, TrailDisarmedSettled
  <2> QED BY <1>5, <2>1, <2>2, <2>3, <2>4 DEF PositionStep
<1>6. CASE StreamStep
  BY <1>6, HandleEventSettled, DropStreamSettled, ReconnectSettled DEF StreamStep
<1>7. CASE ReconcileStep
  <2>1. ASSUME NEW task \in Reconcilers,
               FetchPositions(task) \/ FetchOrders(task) \/ FetchFails(task)
                 \/ BeginReconcile(task)
        PROVE  SettledInv'
    BY <2>1, FetchPositionsSettled, FetchOrdersSettled, FetchFailsSettled,
       BeginReconcileSettled
  <2>2. CASE Recover \/ Reconcile \/ CloseFlat \/ CancelOrphanOrder
    BY <2>2, RecoverSettled, ReconcileSettled, CloseFlatSettled, CancelOrphanSettled
  <2>3. CASE ReconcilePositions \/ ReconcilePosition \/ ReconcileIterate
             \/ ReconcileStrays \/ ReconcileDone
    BY <2>3, ReconcilePositionsSettled, ReconcilePositionSettled, IterateSettled,
       ReconcileStraysSettled, ReconcileDoneSettled
  <2> QED BY <1>7, <2>1, <2>2, <2>3 DEF ReconcileStep
<1>8. CASE CrashStep
  BY <1>8, CrashStepSettled
<1> QED BY <1>1, <1>2, <1>3, <1>4, <1>5, <1>6, <1>7, <1>8 DEF Next

\* At rest and not halted: the stream is live and no event waits, so the calm
\* holds and nothing is left to do for the books.
LEMMA RestSound ==
    ASSUME SettledInv, AtRest, ~Halted
    PROVE  /\ \A p \in Held : Covered(p) /\ Agrees(p) /\ (crashes = 0 => pos[p].prot)
           /\ \A s \in Symbols : Flat(s)
           /\ algos \subseteq Recorded
<1>1. /\ TypeOK /\ up = "running" /\ agenda = <<>> /\ stream = <<>> /\ halts = {}
      /\ \A task \in Reconcilers : snap[task].phase = "idle"
  BY DEF AtRest, Halted, SettledInv, Idle
<1>2. link = "live"
  BY <1>1 DEF SettledInv, LockSound
<1>3. Todo = {}
  <2>1. Len(agenda) = 0
    BY <1>1
  <2> QED BY <2>1 DEF Todo, StepsIn
<1>4. ~Closing /\ ~Doomed /\ (\A p : ~Protecting(p)) /\ (\A a : ~Replacing(a) /\ ~Cancelling(a))
  BY <1>1, <1>3 DEF Closing, Doomed, Protecting, Replacing, Cancelling
<1>5. ~Hint
  BY <1>1 DEF Hint
<1>6. Looking = "idle"
  BY <1>1 DEF Looking, Watcher, Reconcilers
<1>7. Calm
  BY <1>1, <1>2, <1>4, <1>5, <1>6 DEF Calm
<1>8. IdleSound
  BY <1>6, <1>7 DEF SettledInv, CalmSound
<1>9. \A p \in Held : crashes = 0 => pos[p].prot
  BY <1>1, <1>4 DEF SettledInv, ProtSound
<1> QED BY <1>4, <1>8, <1>9 DEF IdleSound, Moving

\* Without the periodic reconcile every execution keeps the invariant, whatever
\* requests are refused, lost or late, stops trigger and crashes happen.
THEOREM SettledInvariant ==
    ASSUME StreamOnly
    PROVE  Spec => []SettledInv
<1>1. Init => SettledInv
  BY InitSettled
<1>2. SettledInv /\ TypeOK' /\ [Next]_vars => SettledInv'
  BY NextSettled
<1>3. Spec => []TypeOK
  BY TypeCorrect
<1> QED BY <1>1, <1>2, <1>3, PTL DEF Spec

\* No stop outlives its position: one the program lost sight of is cancelled by a
\* reconcile (oms.py 1657-1681) or halts, before the program is at rest.
THEOREM StrayStopsSwept ==
    ASSUME StreamOnly
    PROVE  Spec => []NoStrayStops
<1>1. SettledInv => NoStrayStops
  BY RestSound DEF NoStrayStops, Quiet
<1> QED BY <1>1, SettledInvariant, PTL

\* At rest and not halted every position has a working stop of its own quantity
\* (ensure_structure_protection and the reconcile that repeats it), and is marked
\* as protected unless a crash lost the answer.
THEOREM HeldProtected ==
    ASSUME StreamOnly
    PROVE  Spec => []HeldIsProtected
<1>1. SettledInv => HeldIsProtected
  BY RestSound DEF HeldIsProtected, Quiet, Covered
<1> QED BY <1>1, SettledInvariant, PTL

\* At rest and not halted the open quantities of the books (live_positions) add up
\* to the short of every symbol (oms.py, reconcile).
THEOREM BooksAgreeAtRest ==
    ASSUME StreamOnly
    PROVE  Spec => []BooksAgree
<1>1. ASSUME SettledInv, Quiet, ~Halted, NEW s \in Symbols
      PROVE  short[s] = MapThenSumSet(LAMBDA t : pos[t].qty, HeldAt(s))
  <2>1. (\A p \in Held : Agrees(p)) /\ Flat(s)
    BY <1>1, RestSound DEF Quiet
  <2>2. CASE HeldAt(s) = {}
    <3>1. MapThenSumSet(LAMBDA t : pos[t].qty, HeldAt(s)) = 0
      BY <2>2, SumNone
    <3> QED BY <2>1, <2>2, <3>1 DEF Flat
  <2>3. CASE HeldAt(s) # {}
    <3>1. PICK p \in HeldAt(s) : TRUE
      BY <2>3
    <3>2. p \in Held /\ SymbolOf[p] = s
      BY <3>1 DEF HeldAt
    <3>3. HeldAt(s) = {p}
      BY <1>1, <3>1, <3>2 DEF HeldAt, SettledInv, HeldSound, OneHeld
    <3>4. pos[p].qty \in Nat /\ pos[p].qty = short[s]
      BY <1>1, <2>1, <3>2 DEF Agrees, Held, SettledInv, TypeOK, LedgerTypeOK, PositionRow
    <3>5. MapThenSumSet(LAMBDA t : pos[t].qty, {p}) = pos[p].qty
      BY <3>4, SumOne
    <3> QED BY <3>3, <3>4, <3>5
  <2> QED BY <2>2, <2>3
<1>2. SettledInv => BooksAgree
  BY <1>1 DEF BooksAgree
<1> QED BY <1>2, SettledInvariant, PTL

\* At rest a short no stop covers has halted the program: entries are stopped
\* until an operator or a reconcile has seen it.
THEOREM NakedHasHalted ==
    ASSUME StreamOnly
    PROVE  Spec => []NakedRaisesAlarm
<1>1. ASSUME SettledInv, AtRest, ~Halted, NEW s \in Symbols, Naked(s)
      PROVE  FALSE
  <2>1. /\ \A p \in Held : Covered(p) /\ Agrees(p)
        /\ Flat(s)
    BY <1>1, RestSound
  <2>2. short[s] \in Nat /\ short[s] > 0 /\ \A a \in StopsAt(s) : a.qty < short[s]
    BY <1>1 DEF Naked, SettledInv, TypeOK, AccountTypeOK
  <2>3. PICK p \in Held : SymbolOf[p] = s
    BY <2>1, <2>2 DEF Flat, HeldAt
  <2>4. PICK a \in algos : a = pos[p].stop /\ a.qty = short[s]
    BY <2>1, <2>3 DEF Covered, Agrees
  <2>5. a.trade = p
    BY <1>1, <2>3, <2>4 DEF Held, SettledInv, HeldSound, OwnStops, TypeOK, AccountTypeOK
  <2>6. a \in StopsAt(s)
    BY <2>3, <2>5 DEF StopsAt, SymbolOfId
  <2>7. short[s] < short[s]
    BY <2>2, <2>4, <2>6
  <2> QED BY ONLY <2>2, <2>7
<1>2. SettledInv => NakedRaisesAlarm
  BY <1>1 DEF NakedRaisesAlarm
<1> QED BY <1>2, SettledInvariant, PTL
=============================================================================
