-------------------------- MODULE PumpMonitorProofs --------------------------
(***************************************************************************)
(* The properties of the pump watch, for every horizon, every set of       *)
(* heights and every number of crashes.                                    *)
(*                                                                         *)
(* The marks of an event tell of every alert of it that went out (Tells),  *)
(* in the row as in memory; the row is the event whenever it need not be   *)
(* stored; and a row that is alive is that of the event at hand.           *)
(***************************************************************************)
EXTENDS PumpMonitor, TLAPS, FiniteSetTheorems, SequenceTheorems

AlertsOf ==
    [id : Times, level : Levels, model : {"high_pump", "router"}, time : Times,
     high : Heights]

\* What the types leave out of TypeOK: the job, and what went out.
JobTypes ==
    /\ clock >= 1
    /\ job \in [alerts : Seq(AlertsOf), then : {"idle", "emit", "prewarm", "watch"}]
    /\ sent \in Seq(AlertsOf)
    /\ event # None => event.highTime >= 1
    /\ \A id \in DOMAIN rows : rows[id].highTime >= 1
    /\ arriving => clock >= 2

\* The marks of event e tell of alert a.
Tells(e, a) ==
    a.id = e.id =>
      /\ a.high <= e.high
      /\ a.high = e.high => e.alerted[a.level] = e.highTime
      /\ a.time \in 1..e.last[a.level]
      /\ a.model = "high_pump" => a.level \in e.emitted

MarksTell ==
    \A i \in DOMAIN sent :
      /\ sent[i].id \in DOMAIN rows /\ Tells(rows[sent[i].id], sent[i])
      /\ event # None => Tells(event, sent[i])

\* Alert b may follow alert a.
MayFollow(a, b) ==
    a.id = b.id =>
      /\ a.level = b.level => a.high < b.high /\ b.time - a.time >= Cooldown
      /\ a.model = "high_pump" /\ b.model = "high_pump" =>
           a.level = "early_alert" /\ b.level = "short_signal"

\* The alert at hand is that of the event, which is marked with it.
JobFits ==
    pc \in {"store", "emit"} /\ job.alerts # <<>> =>
      /\ Len(job.alerts) = 1 /\ job.then = "emit"
      /\ event # None /\ event.st = "active" /\ job.alerts[1].id = event.id
      /\ Tells(event, job.alerts[1])
      /\ \A i \in DOMAIN sent : MayFollow(sent[i], job.alerts[1])

\* Outside "store" the row is the event; a step never takes back what is stored.
Stored ==
    /\ pc = "store" => event # None
    /\ pc # "store" /\ event # None => event.id \in DOMAIN rows /\ rows[event.id] = event
    /\ event # None /\ event.id \in DOMAIN rows =>
         /\ rows[event.id].expires <= event.expires
         /\ rows[event.id].st = "closed" => event.st = "closed"

Live(r) == r.st = "active" /\ r.expires >= clock

\* The row of an event that may still be followed is that of the event at hand,
\* and one that was made just now has not been completed.
LiveIsEvent ==
    /\ \A id \in DOMAIN rows : Live(rows[id]) => event # None /\ event.id = id
    /\ \A id \in DOMAIN rows : id <= clock /\ (id = clock => Live(rows[id]))
    /\ event # None => event.id <= clock /\ (event.id = clock => Live(event))
    /\ arriving /\ event # None => event.id < clock

OneAfterAnother ==
    \A i, j \in DOMAIN sent : i < j => MayFollow(sent[i], sent[j])

IInv ==
    /\ TypeOK /\ JobTypes /\ MarksTell /\ JobFits /\ Stored /\ LiveIsEvent
    /\ OneAfterAnother

-----------------------------------------------------------------------------
(***************************************************************************)
(* The operators on an event.                                              *)
(***************************************************************************)

\* f goes on from e: the same event, its high no lower, its end no earlier.
GoesOn(e, f) ==
    /\ f \in PumpEvent /\ f.id = e.id /\ f.high >= e.high
    /\ f.expires >= e.expires /\ f.highTime >= 1

\* The parameters are numbers, heights are positive.
LEMMA Numbers ==
    /\ \A h \in Heights : h \in Nat /\ h >= 1
    /\ MaxTime \in Nat /\ Cooldown \in Nat /\ ActiveFor \in Nat /\ ConfirmBars \in Nat
    /\ DiscoverEvery \in Nat /\ MaxCrashes \in Nat
    /\ MaxTime >= 1 /\ Cooldown >= 1 /\ ActiveFor >= 1 /\ ConfirmBars >= 1
BY PumpAssumption

\* An event that observes a price goes on, and what it knows of its alerts with it.
LEMMA ObservedGoesOn ==
    ASSUME NEW e \in PumpEvent, e.highTime >= 1, NEW h \in Heights \cup {0},
           NEW t \in 1..MaxTime
    PROVE  LET f == Observed(e, h, t) IN
             /\ GoesOn(e, f) /\ f.st = e.st /\ f.emitted = e.emitted
             /\ f.last = e.last
             /\ f = e \/ f.high > e.high
             /\ h <= e.high => f = e
<1> USE Numbers
<1>0. e.high \in Heights /\ e.expires \in Nat
  BY DEF PumpEvent
<1>1. e.high \in Nat /\ e.expires \in Nat /\ h \in Nat /\ t + ActiveFor \in Nat
  <2>1. h \in Nat
    OBVIOUS
  <2>2. t + ActiveFor \in Nat
    OBVIOUS
  <2> QED BY <1>0, <2>1, <2>2
<1>2. CASE h <= e.high
  BY <1>1, <1>2 DEF Observed, GoesOn
<1>3. CASE ~(h <= e.high)
  <2>1. h \in Heights /\ h > e.high
    BY <1>1, <1>3
  <2>2. Larger(e.expires, t + ActiveFor) \in Nat /\ Larger(e.expires, t + ActiveFor) >= e.expires
    BY <1>1 DEF Larger
  <2>3. t \in Times /\ [l \in Levels |-> 0] \in [Levels -> Times]
    BY DEF Times
  <2>4. Observed(e, h, t)
          = [e EXCEPT !.high = h, !.highTime = t, !.alerted = [l \in Levels |-> 0],
                      !.expires = Larger(e.expires, t + ActiveFor)]
    BY <1>3 DEF Observed
  <2> DEFINE f == Observed(e, h, t)
  <2>5. f \in PumpEvent
    BY <2>1, <2>2, <2>3, <2>4 DEF PumpEvent
  <2>6. /\ f.id = e.id /\ f.high = h /\ f.highTime = t /\ f.st = e.st
        /\ f.emitted = e.emitted /\ f.last = e.last
        /\ f.expires = Larger(e.expires, t + ActiveFor)
    BY <2>4 DEF PumpEvent
  <2> QED BY <1>1, <1>3, <2>1, <2>2, <2>5, <2>6 DEF GoesOn
<1> QED BY <1>2, <1>3

\* What the marks tell of an alert they tell after a price as well.
LEMMA ObservedTells ==
    ASSUME NEW e \in PumpEvent, e.highTime >= 1, NEW h \in Heights \cup {0},
           NEW t \in 1..MaxTime, NEW a \in AlertsOf, Tells(e, a)
    PROVE  Tells(Observed(e, h, t), a)
<1> DEFINE f == Observed(e, h, t)
<1> SUFFICES Tells(f, a)
  OBVIOUS
<1>1. GoesOn(e, f) /\ f.emitted = e.emitted /\ f.last = e.last /\ (f = e \/ f.high > e.high)
  BY ObservedGoesOn
<1>2. e.high \in Nat /\ a.high \in Nat /\ f.high \in Nat
  BY <1>1, Numbers DEF PumpEvent, AlertsOf, GoesOn
<1> HIDE DEF f
<1>3. CASE f = e
  BY <1>3 DEF Tells
<1>4. CASE f.high > e.high
  BY <1>1, <1>2, <1>4 DEF Tells, GoesOn
<1> QED BY <1>1, <1>3, <1>4

\* Routing an event changes nothing an alert depends on.
LEMMA RoutedKeeps ==
    ASSUME NEW e \in PumpEvent, NEW c \in Candidates
    PROVE  LET f == Routed(e, c) IN
             /\ f \in PumpEvent /\ f.id = e.id /\ f.st = e.st /\ f.expires = e.expires
             /\ f.high = e.high /\ f.highTime = e.highTime
             /\ f.alerted = e.alerted /\ f.last = e.last /\ f.emitted = e.emitted
<1> DEFINE streak == IF c = "unknown" THEN 0
                     ELSE IF c # e.candidate THEN 1
                     ELSE IF e.streak < ConfirmBars THEN e.streak + 1 ELSE e.streak
<1>1. streak \in 0..ConfirmBars
  BY Numbers DEF PumpEvent
<1>2. Routed(e, c) = [e EXCEPT !.candidate = c, !.streak = streak]
  BY DEF Routed
<1> HIDE DEF streak
<1> QED BY <1>1, <1>2 DEF PumpEvent

\* f is e, but for its marks, its route and its state.
SameHigh(e, f) ==
    /\ f \in PumpEvent /\ f.id = e.id /\ f.high = e.high /\ f.highTime = e.highTime
    /\ f.expires = e.expires

\* Nothing is raised: the marks stay.
Quiet(e, o) ==
    /\ o.alerts = <<>> /\ SameHigh(e, o.event)
    /\ o.event.alerted = e.alerted /\ o.event.last = e.last /\ o.event.emitted = e.emitted
    /\ e.st = "closed" => o.event.st = "closed"

\* An alert of level l is raised, and marked.
RaisesAt(e, o, t, l, model) ==
    /\ CanEmit(e, l, t) /\ o.alerts = <<Alert(e, l, model, t)>>
    /\ SameHigh(e, o.event) /\ o.event.st = e.st
    /\ o.event.alerted = [e.alerted EXCEPT ![l] = e.highTime]
    /\ o.event.last = [e.last EXCEPT ![l] = t]
    /\ model = "router" => o.event.emitted = e.emitted
    /\ model = "high_pump" =>
         /\ l \notin e.emitted /\ "short_signal" \notin e.emitted
         /\ o.event.emitted = e.emitted \cup {l}
Raises(e, o, t) ==
    \E l \in Levels : \E model \in {"high_pump", "router"} : RaisesAt(e, o, t, l, model)

\* Alerted marks the event with the alert it makes.
LEMMA AlertedMarks ==
    ASSUME NEW e \in PumpEvent, NEW t \in Times, NEW l \in Levels, NEW model
    PROVE  LET o == Alerted(e, l, model, t) IN
             /\ o.alerts = <<Alert(e, l, model, t)>>
             /\ SameHigh(e, o.event) /\ o.event.st = e.st /\ o.event.emitted = e.emitted
             /\ o.event.alerted = [e.alerted EXCEPT ![l] = e.highTime]
             /\ o.event.last = [e.last EXCEPT ![l] = t]
<1> DEFINE f == [e EXCEPT !.alerted[l] = e.highTime, !.last[l] = t]
<1>1. Alerted(e, l, model, t) = [event |-> f, alerts |-> <<Alert(e, l, model, t)>>]
  BY DEF Alerted, Outcome
<1>2. /\ e.alerted \in [Levels -> Times] /\ e.last \in [Levels -> Times]
      /\ e.highTime \in Times
  BY DEF PumpEvent
<1>3. /\ [e.alerted EXCEPT ![l] = e.highTime] \in [Levels -> Times]
      /\ [e.last EXCEPT ![l] = t] \in [Levels -> Times]
  BY <1>2
<1>4. f = [e EXCEPT !.alerted = [e.alerted EXCEPT ![l] = e.highTime],
                    !.last = [e.last EXCEPT ![l] = t]]
  BY DEF PumpEvent
<1>5. /\ f \in PumpEvent /\ f.id = e.id /\ f.high = e.high /\ f.highTime = e.highTime
      /\ f.expires = e.expires /\ f.st = e.st /\ f.emitted = e.emitted
      /\ f.alerted = [e.alerted EXCEPT ![l] = e.highTime]
      /\ f.last = [e.last EXCEPT ![l] = t]
  BY <1>3, <1>4 DEF PumpEvent
<1> HIDE DEF f
<1> QED BY <1>1, <1>5 DEF SameHigh

\* What a candle of the confirm interval does to an event: it stays quiet, or
\* raises one alert that may be raised.
LEMMA OutcomeRaises ==
    ASSUME NEW e \in PumpEvent, NEW t \in Times, NEW o \in Outcomes(e, t)
    PROVE  Quiet(e, o) \/ Raises(e, o, t)
<1> DEFINE routed == {Routed(e, c) : c \in Candidates}
<1>1. ASSUME NEW r \in routed
      PROVE  /\ r \in PumpEvent /\ r.id = e.id /\ r.st = e.st /\ r.expires = e.expires
             /\ r.high = e.high /\ r.highTime = e.highTime
             /\ r.alerted = e.alerted /\ r.last = e.last /\ r.emitted = e.emitted
  BY RoutedKeeps
<1>2. \/ \E x \in {e} \cup routed \cup {[r EXCEPT !.st = "closed"] : r \in routed} :
             o = Outcome(x, <<>>)
      \/ \E r \in routed : o \in HighPumpAlerts(r, t) \cup RouterAlerts(r, t)
  BY DEF Outcomes
<1>3. CASE o = Outcome(e, <<>>)
  BY <1>3 DEF Outcome, Quiet, SameHigh
<1>4. CASE \E r \in routed : o = Outcome(r, <<>>)
  BY <1>1, <1>4 DEF Outcome, Quiet, SameHigh
<1>5. CASE \E r \in routed : o = Outcome([r EXCEPT !.st = "closed"], <<>>)
  <2>1. PICK r \in routed : o = Outcome([r EXCEPT !.st = "closed"], <<>>)
    BY <1>5
  <2> DEFINE x == [r EXCEPT !.st = "closed"]
  <2>2. /\ x \in PumpEvent /\ x.id = r.id /\ x.st = "closed" /\ x.expires = r.expires
        /\ x.high = r.high /\ x.highTime = r.highTime
        /\ x.alerted = r.alerted /\ x.last = r.last /\ x.emitted = r.emitted
    BY <1>1 DEF PumpEvent
  <2>3. o.event = x /\ o.alerts = <<>>
    BY <2>1 DEF Outcome
  <2> HIDE DEF x, routed
  <2> QED BY <1>1, <2>2, <2>3 DEF Quiet, SameHigh
<1>6. ASSUME NEW r \in routed, o \in RouterAlerts(r, t)
      PROVE  Raises(e, o, t)
  <2>1. PICK l \in Levels : CanEmit(r, l, t) /\ o = Alerted(r, l, "router", t)
    BY <1>6 DEF RouterAlerts, Levels
  <2>2. RaisesAt(r, o, t, l, "router")
    BY <1>1, <2>1, AlertedMarks DEF RaisesAt
  <2>3. RaisesAt(e, o, t, l, "router")
    BY <1>1, <2>2 DEF RaisesAt, CanEmit, Alert, SameHigh
  <2> QED BY <2>3 DEF Raises
<1>7. ASSUME NEW r \in routed, o \in HighPumpAlerts(r, t)
      PROVE  Raises(e, o, t)
  <2>1. PICK l \in HighPumpLevels(r, t) :
          o = Alerted([r EXCEPT !.emitted = @ \cup {l}], l, "high_pump", t)
    BY <1>7 DEF HighPumpAlerts
  <2>2. l \in Levels \ r.emitted /\ CanEmit(r, l, t) /\ "short_signal" \notin r.emitted
    BY <2>1 DEF HighPumpLevels
  <2> DEFINE f == [r EXCEPT !.emitted = @ \cup {l}]
  <2>3. /\ f \in PumpEvent /\ f.id = r.id /\ f.st = r.st /\ f.expires = r.expires
        /\ f.high = r.high /\ f.highTime = r.highTime
        /\ f.alerted = r.alerted /\ f.last = r.last /\ f.emitted = r.emitted \cup {l}
    BY <1>1, <2>2 DEF PumpEvent
  <2>4. o = Alerted(f, l, "high_pump", t)
    BY <2>1
  <2> HIDE DEF f, routed
  <2>5. /\ o.alerts = <<Alert(f, l, "high_pump", t)>>
        /\ SameHigh(f, o.event) /\ o.event.st = f.st /\ o.event.emitted = f.emitted
        /\ o.event.alerted = [f.alerted EXCEPT ![l] = f.highTime]
        /\ o.event.last = [f.last EXCEPT ![l] = t]
    BY <2>2, <2>3, <2>4, AlertedMarks
  <2>6. RaisesAt(e, o, t, l, "high_pump")
    BY <1>1, <2>2, <2>3, <2>5 DEF RaisesAt, CanEmit, Alert, SameHigh
  <2> QED BY <2>2, <2>6 DEF Raises
<1> QED BY <1>2, <1>3, <1>4, <1>5, <1>6, <1>7

\* An alert that is raised is told of by the marks, as those before it are, and
\* may follow them.
LEMMA RaisedFits ==
    ASSUME NEW e \in PumpEvent, e.highTime >= 1, NEW t \in 1..MaxTime, NEW o,
           Raises(e, o, t)
    PROVE  /\ o.alerts \in Seq(AlertsOf) /\ Len(o.alerts) = 1
           /\ o.alerts[1].id = e.id /\ Tells(o.event, o.alerts[1])
           /\ o.event.st = e.st /\ SameHigh(e, o.event)
           /\ \A s \in AlertsOf :
                Tells(e, s) => Tells(o.event, s) /\ MayFollow(s, o.alerts[1])
<1> USE Numbers
<1>1. PICK l \in Levels, model \in {"high_pump", "router"} : RaisesAt(e, o, t, l, model)
  BY DEF Raises
<1> DEFINE a == Alert(e, l, model, t)
<1>2. /\ e.id \in Times /\ e.high \in Heights /\ e.highTime \in Times
      /\ e.alerted \in [Levels -> Times] /\ e.last \in [Levels -> Times]
      /\ e.emitted \subseteq Levels
  BY DEF PumpEvent
<1>3. t \in Times /\ t >= 1
  BY DEF Times
<1>4. /\ a \in AlertsOf /\ a.id = e.id /\ a.level = l /\ a.model = model /\ a.time = t
      /\ a.high = e.high
  BY <1>2, <1>3 DEF Alert, AlertsOf
<1>5. o.alerts = <<a>> /\ o.alerts[1] = a /\ o.alerts \in Seq(AlertsOf) /\ Len(o.alerts) = 1
  BY <1>1, <1>4 DEF RaisesAt
<1> DEFINE f == o.event
<1>6. /\ SameHigh(e, f) /\ f.st = e.st
      /\ f.alerted = [e.alerted EXCEPT ![l] = e.highTime]
      /\ f.last = [e.last EXCEPT ![l] = t]
      /\ model = "high_pump" => /\ l \notin e.emitted /\ "short_signal" \notin e.emitted
                                /\ f.emitted = e.emitted \cup {l}
      /\ model = "router" => f.emitted = e.emitted
      /\ CanEmit(e, l, t)
  BY <1>1 DEF RaisesAt
<1> HIDE DEF a, f
<1>7. f.id = e.id /\ f.high = e.high /\ f.highTime = e.highTime
  BY <1>6 DEF SameHigh
<1>8. Tells(f, a)
  <2>1. f.alerted[l] = e.highTime /\ f.last[l] = t
    BY <1>2, <1>6
  <2>2. a.high <= f.high /\ a.time \in 1..f.last[a.level]
    BY <1>2, <1>3, <1>4, <1>7, <2>1 DEF Times
  <2>3. a.model = "high_pump" => a.level \in f.emitted
    BY <1>4, <1>6
  <2> QED BY <1>4, <1>7, <2>1, <2>2, <2>3 DEF Tells
<1>9. ASSUME NEW s \in AlertsOf, Tells(e, s), s.id = e.id
      PROVE  Tells(f, s) /\ MayFollow(s, a)
  <2>1. /\ s.high <= e.high /\ (s.high = e.high => e.alerted[s.level] = e.highTime)
        /\ s.time \in 1..e.last[s.level]
        /\ (s.model = "high_pump" => s.level \in e.emitted)
    BY <1>9 DEF Tells
  <2>2. s.level \in Levels /\ s.time \in Nat /\ s.high \in Nat /\ e.high \in Nat
    BY <1>2 DEF AlertsOf, Times
  <2>4. e.last[s.level] \in Nat /\ e.last[l] \in Nat /\ t \in Nat
    BY <1>2, <1>3, <2>2 DEF Times
  <2>5. s.level = l => t - s.time >= Cooldown
    BY <1>6, <2>1, <2>2, <2>4 DEF CanEmit
  <2>6. s.level = l => s.high < e.high
    BY <1>6, <2>1, <2>2 DEF CanEmit
  <2>7. Tells(f, s)
    <3>1. CASE s.level = l
      <4>1. f.alerted[l] = e.highTime /\ f.last[l] = t
        BY <1>2, <1>6
      <4>2. s.time \in 1..f.last[s.level]
        BY <2>1, <2>2, <2>4, <2>5, <3>1, <4>1
      <4>3. s.model = "high_pump" => s.level \in f.emitted
        BY <1>6, <2>1
      <4> QED BY <1>7, <2>1, <3>1, <4>1, <4>2, <4>3 DEF Tells
    <3>2. CASE s.level # l
      <4>1. f.alerted[s.level] = e.alerted[s.level] /\ f.last[s.level] = e.last[s.level]
        BY <1>2, <1>6, <2>2, <3>2
      <4>2. s.model = "high_pump" => s.level \in f.emitted
        BY <1>6, <2>1
      <4> QED BY <1>7, <2>1, <4>1, <4>2 DEF Tells
    <3> QED BY <3>1, <3>2
  <2>8. MayFollow(s, a)
    <3>1. s.model = "high_pump" /\ a.model = "high_pump" =>
            s.level = "early_alert" /\ a.level = "short_signal"
      BY <1>4, <1>6, <2>1, <2>2 DEF Levels
    <3> QED BY <1>4, <2>5, <2>6, <3>1 DEF MayFollow
  <2> QED BY <2>7, <2>8
<1>10. ASSUME NEW s \in AlertsOf, s.id # e.id
       PROVE  Tells(f, s) /\ MayFollow(s, a)
  BY <1>4, <1>7, <1>10 DEF Tells, MayFollow
<1>11. o.alerts[1].id = e.id /\ Tells(o.event, o.alerts[1]) /\ o.event.st = e.st
  BY <1>4, <1>5, <1>6, <1>8 DEF f
<1>12. ASSUME NEW s \in AlertsOf, Tells(e, s)
       PROVE  Tells(o.event, s) /\ MayFollow(s, o.alerts[1])
  BY <1>5, <1>9, <1>10, <1>12 DEF f
<1> QED BY <1>5, <1>6, <1>11, <1>12 DEF f

-----------------------------------------------------------------------------
(***************************************************************************)
(* The steps.                                                              *)
(***************************************************************************)

\* What the invariant says of the event besides its type.
LEMMA EventFacts ==
    ASSUME IInv, event # None
    PROVE  /\ event \in PumpEvent /\ event.highTime >= 1 /\ event.high \in Heights
           /\ event.id \in Times /\ event.expires \in Nat /\ clock \in 1..MaxTime
BY Numbers DEF IInv, TypeOK, JobTypes, PumpEvent, Times

\* What went out consists of alerts.
LEMMA SentFacts ==
    ASSUME IInv
    PROVE  \A i \in DOMAIN sent : sent[i] \in AlertsOf
<1>1. sent \in Seq(AlertsOf)
  BY DEF IInv, JobTypes
<1> QED BY <1>1

\* While rows and time stand still and the event goes on, with its state and
\* what it knows of its alerts, nothing of what the invariant says is lost.
LEMMA EventGoesOn ==
    ASSUME IInv, event # None, event' # None, GoesOn(event, event'),
           UNCHANGED <<clock, rows, sent>>, arriving' => arriving,
           \A s \in AlertsOf : Tells(event, s) => Tells(event', s),
           event.st = "closed" => event'.st = "closed",
           event.id = clock => event'.st = event.st
    PROVE  MarksTell' /\ OneAfterAnother' /\ LiveIsEvent'
           /\ (event.id \in DOMAIN rows =>
                 /\ rows[event.id].expires <= event'.expires
                 /\ rows[event.id].st = "closed" => event'.st = "closed")
<1> USE Numbers
<1>0. /\ MarksTell /\ OneAfterAnother /\ LiveIsEvent /\ Stored
      /\ \A id \in DOMAIN rows : rows[id] \in PumpEvent
  BY DEF IInv, TypeOK
<1>1. MarksTell'
  BY <1>0, SentFacts DEF MarksTell
<1>2. OneAfterAnother'
  BY <1>0 DEF OneAfterAnother
<1>3. event'.id = event.id /\ event'.expires >= event.expires
      /\ event.expires \in Nat /\ event'.expires \in Nat /\ clock \in Nat
  BY EventFacts DEF GoesOn, PumpEvent
<1>4. LiveIsEvent'
  <2>1. \A id \in DOMAIN rows : Live(rows[id])' <=> Live(rows[id])
    BY DEF Live
  <2>2. event.id <= clock /\ (event.id = clock => Live(event)')
    BY <1>0, <1>3 DEF LiveIsEvent, Live
  <2> QED BY <1>0, <1>3, <2>1, <2>2 DEF LiveIsEvent
<1>5. ASSUME event.id \in DOMAIN rows
      PROVE  /\ rows[event.id].expires <= event'.expires
             /\ rows[event.id].st = "closed" => event'.st = "closed"
  <2>1. rows[event.id].expires \in Nat
    BY <1>0, <1>5 DEF PumpEvent
  <2> QED BY <1>0, <1>3, <1>5, <2>1 DEF Stored
<1> QED BY <1>1, <1>2, <1>4, <1>5

\* on_kline keeps the invariant, but for the types of what it leaves alone.
LEMMA OnKlineKeeps ==
    ASSUME IInv, pc = "idle", NEW h \in Heights, NEW confirm \in BOOLEAN, OnKline(h, confirm),
           UNCHANGED <<clock, rows, sent>>, arriving' => arriving,
           confirm => arriving /\ ~arriving'
    PROVE  /\ event' = None \/ event' \in PumpEvent
           /\ event' # None => event'.highTime >= 1
           /\ pc' \in {"idle", "store", "emit"}
           /\ job' \in [alerts : Seq(AlertsOf), then : {"idle", "emit", "prewarm", "watch"}]
           /\ MarksTell' /\ JobFits' /\ Stored' /\ LiveIsEvent' /\ OneAfterAnother'
<1> USE Numbers
<1>1. CASE ~Followed(event, clock)
  <2>1. UNCHANGED <<event, pc, job>>
    BY <1>1 DEF OnKline
  <2>2. LiveIsEvent'
    BY <2>1 DEF IInv, LiveIsEvent, Live
  <2>3. MarksTell' /\ OneAfterAnother' /\ Stored'
    BY <2>1 DEF IInv, MarksTell, OneAfterAnother, Stored
  <2>4. JobFits'
    BY <2>1 DEF JobFits
  <2> QED BY <2>1, <2>2, <2>3, <2>4 DEF IInv, TypeOK, JobTypes
<1>2. CASE Followed(event, clock)
  <2> DEFINE e == Observed(event, h, clock)
  <2>1. event # None /\ event.st = "active"
    BY <1>2 DEF Followed
  <2>2. /\ event \in PumpEvent /\ event.highTime >= 1 /\ event.high \in Nat /\ h \in Nat
        /\ event.id \in Times /\ event.expires \in Nat /\ clock \in 1..MaxTime
    BY <2>1, EventFacts
  <2>3. /\ GoesOn(event, e) /\ e.st = "active" /\ e.emitted = event.emitted
        /\ (e = event \/ e.high > event.high) /\ (h <= event.high => e = event)
    BY <2>1, <2>2, ObservedGoesOn
  <2>4. \A s \in AlertsOf : Tells(event, s) => Tells(e, s)
    BY <2>2, ObservedTells
  <2>5. PICK o \in IF confirm THEN Outcomes(e, clock) ELSE {Outcome(e, <<>>)} :
          LET changed == Changed(confirm, h > event.high, o.alerts)
              then == IF o.alerts = <<>> THEN "idle" ELSE "emit"
          IN /\ event' = o.event
             /\ pc' = IF changed THEN "store" ELSE then
             /\ job' = [alerts |-> o.alerts, then |-> then]
    BY <1>2 DEF OnKline
  <2> HIDE DEF e
  <2>6. e \in PumpEvent /\ e.highTime >= 1 /\ e.id = event.id /\ e.high \in Nat
    BY <2>3 DEF GoesOn, PumpEvent
  <2>7. clock \in Times
    BY <2>2 DEF Times
  <2>8. Quiet(e, o) \/ Raises(e, o, clock)
    BY <2>5, <2>6, <2>7, OutcomeRaises DEF Outcome, Quiet, SameHigh
  <2>9. SameHigh(e, o.event) /\ (o.event.st = "closed" => confirm)
        /\ (o.alerts = <<>> \/ (o.alerts \in Seq(AlertsOf) /\ Len(o.alerts) = 1))
    BY <2>2, <2>3, <2>5, <2>6, <2>8, RaisedFits DEF Quiet, Outcome, PumpEvent
  <2>10. GoesOn(event, event') /\ event' # None
    BY <2>3, <2>5, <2>6, <2>9, NoneAssumption DEF GoesOn, SameHigh
  <2>11. \A s \in AlertsOf : Tells(event, s) => Tells(event', s)
    <3>1. \A s \in AlertsOf : Tells(e, s) => Tells(o.event, s)
      BY <2>2, <2>6, <2>8, RaisedFits DEF Quiet, SameHigh, Tells
    <3> QED BY <2>4, <2>5, <3>1
  <2>12. event.id = clock => event'.st = event.st
    <3>1. confirm => event.id < clock
      BY <2>1 DEF IInv, LiveIsEvent
    <3>2. o.event.st \in {"active", "closed"}
      BY <2>9 DEF SameHigh, PumpEvent
    <3> QED BY <2>1, <2>2, <2>5, <2>7, <2>9, <3>1, <3>2 DEF Times
  <2>13. /\ MarksTell' /\ OneAfterAnother' /\ LiveIsEvent'
         /\ (event.id \in DOMAIN rows =>
               /\ rows[event.id].expires <= event'.expires
               /\ rows[event.id].st = "closed" => event'.st = "closed")
    BY <2>1, <2>10, <2>11, <2>12, EventGoesOn
  <2>14. pc' \in {"idle", "store", "emit"} /\ job' = [alerts |-> o.alerts,
           then |-> IF o.alerts = <<>> THEN "idle" ELSE "emit"]
         /\ (o.alerts # <<>> => pc' = "store")
    BY <2>5 DEF Changed
  <2>15. pc' # "store" => event' = event
    <3>1. pc' # "store" => ~confirm /\ ~(h > event.high)
      BY <2>5 DEF Changed
    <3>2. ~confirm => event' = e
      BY <2>5 DEF Outcome
    <3> QED BY <2>2, <2>3, <3>1, <3>2
  <2>16. Stored'
    <3>1. event'.id = event.id
      BY <2>10 DEF GoesOn
    <3>2. event.id \in DOMAIN rows /\ rows[event.id] = event
      BY <2>1 DEF IInv, Stored
    <3> QED BY <2>10, <2>13, <2>15, <3>1, <3>2 DEF Stored
  <2>17. JobFits'
    <3>1. CASE o.alerts = <<>>
      BY <2>14, <3>1 DEF JobFits
    <3>2. CASE o.alerts # <<>>
      <4>1. Raises(e, o, clock)
        BY <2>8, <3>2 DEF Quiet
      <4>2. /\ Len(o.alerts) = 1 /\ o.alerts[1].id = e.id /\ Tells(o.event, o.alerts[1])
            /\ o.event.st = e.st /\ SameHigh(e, o.event)
            /\ \A s \in AlertsOf : Tells(e, s) => MayFollow(s, o.alerts[1])
        BY <2>2, <2>6, <4>1, RaisedFits
      <4>3. ASSUME NEW i \in DOMAIN sent
            PROVE  MayFollow(sent[i], o.alerts[1])
        <5>1. Tells(event, sent[i]) /\ sent[i] \in AlertsOf
          BY <2>1, SentFacts DEF IInv, MarksTell
        <5> QED BY <2>4, <4>2, <5>1
      <4>4. job'.alerts = o.alerts /\ job'.then = "emit"
        BY <2>14, <3>2
      <4>5. event'.st = "active" /\ o.alerts[1].id = event'.id /\ event' = o.event
        BY <2>3, <2>5, <4>2 DEF SameHigh
      <4> QED BY <2>10, <4>2, <4>3, <4>4, <4>5 DEF JobFits
    <3> QED BY <3>1, <3>2
  <2>18. job' \in [alerts : Seq(AlertsOf), then : {"idle", "emit", "prewarm", "watch"}]
    <3>1. <<>> \in Seq(AlertsOf)
      OBVIOUS
    <3>2. o.alerts \in Seq(AlertsOf)
      BY <2>9, <3>1
    <3> QED BY <2>14, <3>2
  <2> QED BY <2>10, <2>13, <2>14, <2>16, <2>17, <2>18 DEF GoesOn
<1> QED BY <1>1, <1>2

\* The parts of TypeOK that are not about the event.
LEMMA TypeParts ==
    ASSUME IInv
    PROVE  /\ clock \in 1..MaxTime /\ clock \in Times /\ candles \in Seq(Heights)
           /\ Len(candles) = Number /\ Number \in Nat
           /\ \A k \in 1..Number : candles[k] \in Heights /\ 2 * k \in 1..MaxTime /\ 2 * k <= clock
           /\ \A id \in DOMAIN rows : rows[id] \in PumpEvent /\ rows[id].id = id
<1> USE Numbers
<1>1. clock \in 1..MaxTime /\ clock \in Times /\ candles \in Seq(Heights) /\ Len(candles) = Number
  BY DEF IInv, TypeOK, JobTypes, Times
<1>2. Number \in Nat /\ 2 * Number <= clock
  BY <1>1 DEF Number
<1>3. ASSUME NEW k \in 1..Number
      PROVE  candles[k] \in Heights /\ 2 * k \in 1..MaxTime /\ 2 * k <= clock
  BY <1>1, <1>2
<1> QED BY <1>1, <1>2, <1>3 DEF IInv, TypeOK

LEMMA KlineKeeps ==
    ASSUME IInv, Kline
    PROVE  IInv'
<1> USE Numbers
<1>1. /\ pc = "idle" /\ arriving /\ arriving' = FALSE
      /\ UNCHANGED <<clock, candles, forming, watched, next, rows, sent, crashes>>
  BY DEF Kline, market
<1>2. CASE Number \in seen
  <2>1. UNCHANGED <<event, pc, job, seen>>
    BY <1>2 DEF Kline
  <2>2. TypeOK' /\ JobTypes'
    BY <1>1, <2>1 DEF IInv, TypeOK, JobTypes, Number
  <2>3. MarksTell' /\ JobFits' /\ Stored' /\ OneAfterAnother'
    BY <1>1, <2>1 DEF IInv, MarksTell, JobFits, Stored, OneAfterAnother
  <2>4. LiveIsEvent'
    BY <1>1, <2>1 DEF IInv, LiveIsEvent, Live
  <2> QED BY <2>2, <2>3, <2>4 DEF IInv
<1>3. CASE Number \notin seen
  <2>1. seen' = seen \cup {Number} /\ OnKline(candles[Number], TRUE)
    BY <1>3 DEF Kline
  <2>2. CASE Number >= 1
    <3>1. candles[Number] \in Heights
      BY <2>2, TypeParts
    <3>2. /\ event' = None \/ event' \in PumpEvent
          /\ event' # None => event'.highTime >= 1
          /\ pc' \in {"idle", "store", "emit"}
          /\ job' \in [alerts : Seq(AlertsOf), then : {"idle", "emit", "prewarm", "watch"}]
          /\ MarksTell' /\ JobFits' /\ Stored' /\ LiveIsEvent' /\ OneAfterAnother'
      BY <1>1, <2>1, <3>1, OnKlineKeeps
    <3>3. seen' \subseteq 1..Number
      <4>1. Number \in 1..Number
        BY <2>2, TypeParts
      <4>2. seen \subseteq 1..Number
        BY DEF IInv, TypeOK
      <4> QED BY <2>1, <4>1, <4>2
    <3>4. TypeOK' /\ JobTypes'
      BY <1>1, <3>2, <3>3 DEF IInv, TypeOK, JobTypes, Number
    <3> QED BY <3>2, <3>4 DEF IInv
  <2>3. Number >= 1
    <3>1. clock >= 2 /\ clock \in Nat
      BY <1>1, TypeParts DEF IInv, JobTypes
    <3> QED BY <3>1 DEF Number
  <2> QED BY <2>2, <2>3
<1> QED BY <1>2, <1>3

LEMMA FastKlineKeeps ==
    ASSUME IInv, FastKline
    PROVE  IInv'
<1> USE Numbers
<1>1. /\ pc = "idle"
      /\ UNCHANGED <<clock, candles, seen, watched, arriving, next, rows, sent, crashes>>
  BY DEF FastKline, source
<1>2. PICK h \in Heights : forming' = Larger(forming, h) /\ OnKline(h, FALSE)
  BY DEF FastKline
<1>3. /\ event' = None \/ event' \in PumpEvent
      /\ event' # None => event'.highTime >= 1
      /\ pc' \in {"idle", "store", "emit"}
      /\ job' \in [alerts : Seq(AlertsOf), then : {"idle", "emit", "prewarm", "watch"}]
      /\ MarksTell' /\ JobFits' /\ Stored' /\ LiveIsEvent' /\ OneAfterAnother'
  BY <1>1, <1>2, OnKlineKeeps
<1>4. forming' \in Heights \cup {0}
  BY <1>2 DEF IInv, TypeOK, Larger
<1>5. TypeOK' /\ JobTypes'
  BY <1>1, <1>3, <1>4 DEF IInv, TypeOK, JobTypes, Number
<1> QED BY <1>3, <1>5 DEF IInv

\* upsert_pump_events: the row becomes the event.
LEMMA StoreKeeps ==
    ASSUME IInv, Store
    PROVE  IInv'
<1> USE Numbers
<1>1. /\ pc = "store" /\ rows' = Put(rows, event.id, event) /\ pc' = job.then
      /\ UNCHANGED <<clock, candles, forming, event, seen, watched, arriving, next, job,
                     sent, crashes>>
  BY DEF Store, market, engine, source
<1>2. event # None /\ event \in PumpEvent
  BY <1>1, EventFacts DEF IInv, Stored
<1>3. /\ DOMAIN rows' = DOMAIN rows \cup {event.id} /\ rows'[event.id] = event
      /\ \A id \in DOMAIN rows : id # event.id => rows'[id] = rows[id]
  BY <1>1 DEF Put
<1>4. TypeOK'
  <2>1. \A id \in DOMAIN rows' : rows'[id] \in PumpEvent /\ rows'[id].id = id
    BY <1>2, <1>3 DEF IInv, TypeOK
  <2>2. job.then \in {"idle", "emit", "prewarm", "watch"}
    BY DEF IInv, TypeOK
  <2> QED BY <1>1, <2>1, <2>2 DEF IInv, TypeOK, Number
<1>5. JobTypes'
  <2>1. \A id \in DOMAIN rows' : rows'[id].highTime >= 1
    BY <1>2, <1>3 DEF IInv, JobTypes
  <2> QED BY <1>1, <2>1 DEF IInv, JobTypes
<1>6. MarksTell'
  <2>1. ASSUME NEW i \in DOMAIN sent
        PROVE  sent[i].id \in DOMAIN rows' /\ Tells(rows'[sent[i].id], sent[i])
               /\ Tells(event, sent[i])
    <3>1. sent[i].id \in DOMAIN rows /\ Tells(rows[sent[i].id], sent[i]) /\ Tells(event, sent[i])
      BY <1>2 DEF IInv, MarksTell
    <3> QED BY <1>3, <3>1
  <2> QED BY <1>1, <2>1 DEF MarksTell
<1>7. JobFits'
  BY <1>1 DEF IInv, JobFits
<1>8. Stored'
  BY <1>1, <1>2, <1>3 DEF Stored, IInv, JobTypes, PumpEvent
<1>9. LiveIsEvent'
  <2>1. \A id \in DOMAIN rows : Live(rows[id]) => event.id = id
    BY DEF IInv, LiveIsEvent
  <2>2. event.id <= clock /\ (event.id = clock => Live(event))
    BY <1>2 DEF IInv, LiveIsEvent
  <2>3. ASSUME NEW id \in DOMAIN rows'
        PROVE  /\ Live(rows'[id]) => event.id = id
               /\ id <= clock /\ (id = clock => Live(rows'[id]))
    BY <1>3, <2>1, <2>2 DEF IInv, LiveIsEvent
  <2> QED BY <1>1, <1>2, <2>2, <2>3 DEF IInv, LiveIsEvent, Live
<1>10. OneAfterAnother'
  BY <1>1 DEF IInv, OneAfterAnother
<1> QED BY <1>4, <1>5, <1>6, <1>7, <1>8, <1>9, <1>10 DEF IInv

\* emit_alerts: the alert that goes out is in the row already.
LEMMA EmitKeeps ==
    ASSUME IInv, Emit
    PROVE  IInv'
<1> USE Numbers
<1>1. /\ pc = "emit" /\ sent' = sent \o job.alerts /\ pc' = "idle" /\ job' = NoJob
      /\ UNCHANGED <<clock, candles, forming, event, seen, watched, arriving, next, rows,
                     crashes>>
  BY DEF Emit, market, engine, source
<1>2. sent \in Seq(AlertsOf) /\ job.alerts \in Seq(AlertsOf)
  BY DEF IInv, JobTypes
<1>3. TypeOK'
  BY <1>1 DEF IInv, TypeOK, Number, NoJob
<1>4. JobTypes'
  <2>1. sent' \in Seq(AlertsOf) /\ <<>> \in Seq(AlertsOf)
    BY <1>1, <1>2
  <2> QED BY <1>1, <2>1 DEF IInv, JobTypes, NoJob
<1>5. JobFits' /\ Stored'
  BY <1>1 DEF IInv, JobFits, Stored
<1>6. LiveIsEvent'
  BY <1>1 DEF IInv, LiveIsEvent, Live
<1>7. MarksTell' /\ OneAfterAnother'
  <2>1. CASE job.alerts = <<>>
    <3>1. sent' = sent
      BY <1>1, <1>2, <2>1
    <3> QED BY <1>1, <3>1 DEF IInv, MarksTell, OneAfterAnother
  <2>2. CASE job.alerts # <<>>
    <3> DEFINE a == job.alerts[1]
    <3>1. /\ Len(job.alerts) = 1 /\ event # None /\ a.id = event.id /\ Tells(event, a)
          /\ \A i \in DOMAIN sent : MayFollow(sent[i], a)
      BY <1>1, <2>2 DEF IInv, JobFits
    <3>2. /\ DOMAIN sent' = 1..(Len(sent) + 1) /\ DOMAIN sent = 1..Len(sent) /\ Len(sent) \in Nat
          /\ \A i \in 1..Len(sent) : sent'[i] = sent[i]
          /\ sent'[Len(sent) + 1] = a
      BY <1>1, <1>2, <3>1
    <3>3. event.id \in DOMAIN rows /\ rows[event.id] = event
      BY <1>1, <3>1 DEF IInv, Stored
    <3> HIDE DEF a
    <3>4. ASSUME NEW i \in DOMAIN sent'
          PROVE  sent'[i].id \in DOMAIN rows /\ Tells(rows[sent'[i].id], sent'[i])
                 /\ Tells(event, sent'[i])
      <4>1. CASE i = Len(sent) + 1
        BY <3>1, <3>2, <3>3, <4>1
      <4>2. CASE i # Len(sent) + 1
        <5>1. i \in DOMAIN sent /\ sent'[i] = sent[i]
          BY <3>2, <4>2
        <5> QED BY <3>1, <5>1 DEF IInv, MarksTell
      <4> QED BY <4>1, <4>2
    <3>5. ASSUME NEW i \in DOMAIN sent', NEW j \in DOMAIN sent', i < j
          PROVE  MayFollow(sent'[i], sent'[j])
      <4>1. i \in DOMAIN sent /\ sent'[i] = sent[i]
        BY <3>2, <3>5
      <4>2. CASE j = Len(sent) + 1
        BY <3>1, <3>2, <4>1, <4>2
      <4>3. CASE j # Len(sent) + 1
        <5>1. j \in DOMAIN sent /\ sent'[j] = sent[j]
          BY <3>2, <4>3
        <5> QED BY <3>5, <4>1, <5>1 DEF IInv, OneAfterAnother
      <4> QED BY <4>2, <4>3
    <3> QED BY <1>1, <3>4, <3>5 DEF MarksTell, OneAfterAnother
  <2> QED BY <2>1, <2>2
<1> QED BY <1>3, <1>4, <1>5, <1>6, <1>7 DEF IInv

\* NewEvent makes an event of its own, alive, with no marks.
LEMMA NewEventFacts ==
    ASSUME IInv, NEW price \in Heights
    PROVE  LET f == NewEvent(price) IN
             /\ f \in PumpEvent /\ f.id = clock /\ f.st = "active" /\ f.expires > clock
             /\ f.highTime = clock /\ f # None
<1> USE Numbers
<1>1. clock \in 1..MaxTime /\ clock \in Times /\ clock + ActiveFor \in Nat
  BY TypeParts
<1>2. [l \in Levels |-> 0] \in [Levels -> Times]
  BY DEF Times
<1>3. NewEvent(price) \in PumpEvent
  BY <1>1, <1>2 DEF NewEvent, PumpEvent, Candidates
<1>4. NewEvent(price) # None
  BY <1>3, NoneAssumption
<1> QED BY <1>1, <1>3, <1>4 DEF NewEvent

\* A discovery that makes an event: the one before, if any, is over, its rows
\* with it, and no row has the new one's name.
LEMMA NewEventKeeps ==
    ASSUME IInv, NEW price \in Heights, event' = NewEvent(price),
           event = None \/ event.expires < clock,
           UNCHANGED <<clock, rows, sent>>, ~arriving'
    PROVE  /\ MarksTell' /\ OneAfterAnother' /\ LiveIsEvent'
           /\ event'.id \notin DOMAIN rows
<1> USE Numbers
<1>1. /\ event' \in PumpEvent /\ event'.id = clock /\ event'.st = "active"
      /\ event'.expires > clock /\ event' # None
  BY NewEventFacts
<1>2. clock \in Nat /\ \A id \in DOMAIN rows : rows[id] \in PumpEvent /\ rows[id].id = id
  BY TypeParts
<1>3. ASSUME NEW id \in DOMAIN rows
      PROVE  ~Live(rows[id])
  <2>1. SUFFICES ASSUME Live(rows[id]) PROVE FALSE
    OBVIOUS
  <2>2. event # None /\ event.id = id
    BY <2>1 DEF IInv, LiveIsEvent
  <2>3. rows[id].expires <= event.expires /\ event.expires < clock /\ rows[id].expires >= clock
    BY <2>1, <2>2 DEF IInv, Stored, Live
  <2>4. rows[id].expires \in Nat /\ event.expires \in Nat
    BY <1>2, <2>2, EventFacts DEF PumpEvent
  <2> QED BY <1>2, <2>3, <2>4
<1>4. clock \notin DOMAIN rows
  BY <1>3 DEF IInv, LiveIsEvent
<1>5. MarksTell'
  <2>1. ASSUME NEW i \in DOMAIN sent
        PROVE  Tells(event', sent[i])
    <3>1. sent[i].id \in DOMAIN rows
      BY DEF IInv, MarksTell
    <3> QED BY <1>1, <1>4, <3>1 DEF Tells
  <2> QED BY <2>1 DEF IInv, MarksTell
<1>6. LiveIsEvent'
  <2>1. \A id \in DOMAIN rows : ~Live(rows[id])' /\ id <= clock
    BY <1>3 DEF IInv, LiveIsEvent, Live
  <2>2. event'.expires \in Nat
    BY <1>1 DEF PumpEvent
  <2>3. event'.id <= clock /\ event'.st = "active" /\ event'.expires >= clock
    BY <1>1, <1>2, <2>2
  <2> QED BY <1>1, <1>4, <2>1, <2>3 DEF LiveIsEvent, Live
<1> QED BY <1>1, <1>4, <1>5, <1>6 DEF IInv, OneAfterAnother

LEMMA QualifiesKeeps ==
    ASSUME IInv, Qualifies
    PROVE  IInv'
<1> USE Numbers
<1>1. /\ watched' = FALSE /\ arriving' = FALSE
      /\ pc' = "store" /\ job' = [NoJob EXCEPT !.then = "prewarm"]
      /\ UNCHANGED <<clock, candles, seen, next, rows, sent, crashes>>
  BY DEF Qualifies, CloseSource
<1>2. PICK price \in Heights : forming' = Larger(forming, price) /\ event' = Discovered(price)
  BY DEF Qualifies
<1>3. forming' \in Heights \cup {0}
  BY <1>2 DEF IInv, TypeOK, Larger
<1>4. job' = [alerts |-> <<>>, then |-> "prewarm"]
  BY <1>1 DEF NoJob
<1>5. /\ event' \in PumpEvent /\ event' # None /\ event'.highTime >= 1
      /\ MarksTell' /\ OneAfterAnother' /\ LiveIsEvent' /\ Stored'
  <2>1. CASE event # None /\ event.expires >= clock
    <3> DEFINE e == Observed(event, price, clock)
               f == [e EXCEPT !.expires = Larger(@, clock + ActiveFor)]
    <3>1. event' = f
      BY <1>2, <2>1 DEF Discovered
    <3>2. event \in PumpEvent /\ event.highTime >= 1 /\ clock \in 1..MaxTime
      BY <2>1, EventFacts
    <3>3. GoesOn(event, e) /\ e.st = event.st
      BY <3>2, ObservedGoesOn
    <3>4. \A s \in AlertsOf : Tells(event, s) => Tells(e, s)
      BY <3>2, ObservedTells
    <3> HIDE DEF e
    <3>5. e \in PumpEvent /\ e.expires \in Nat /\ clock + ActiveFor \in Nat
      BY <3>2, <3>3 DEF GoesOn, PumpEvent
    <3>6. Larger(e.expires, clock + ActiveFor) \in Nat /\ Larger(e.expires, clock + ActiveFor) >= e.expires
      BY <3>5 DEF Larger
    <3>7. /\ f \in PumpEvent /\ f.id = e.id /\ f.st = e.st /\ f.high = e.high
          /\ f.highTime = e.highTime /\ f.alerted = e.alerted /\ f.last = e.last
          /\ f.emitted = e.emitted /\ f.expires >= e.expires
      BY <3>5, <3>6 DEF PumpEvent
    <3> HIDE DEF f
    <3>8. GoesOn(event, event')
      <4>1. event.expires \in Nat /\ f.expires \in Nat
        BY <3>2, <3>7 DEF PumpEvent
      <4> QED BY <3>1, <3>3, <3>5, <3>7, <4>1 DEF GoesOn
    <3>9. \A s \in AlertsOf : Tells(event, s) => Tells(event', s)
      BY <3>1, <3>4, <3>7 DEF Tells
    <3>10. event' # None
      BY <3>1, <3>7, NoneAssumption
    <3>11. event'.st = event.st
      BY <3>1, <3>3, <3>7
    <3>12. /\ MarksTell' /\ OneAfterAnother' /\ LiveIsEvent'
           /\ (event.id \in DOMAIN rows =>
                 /\ rows[event.id].expires <= event'.expires
                 /\ rows[event.id].st = "closed" => event'.st = "closed")
      BY <1>1, <2>1, <3>8, <3>9, <3>10, <3>11, EventGoesOn
    <3> QED BY <1>1, <3>8, <3>10, <3>12 DEF GoesOn, Stored
  <2>2. CASE ~(event # None /\ event.expires >= clock)
    <3>1. event' = NewEvent(price)
      BY <1>2, <2>2 DEF Discovered
    <3>2. event = None \/ event.expires < clock
      BY <2>2, EventFacts
    <3>3. /\ MarksTell' /\ OneAfterAnother' /\ LiveIsEvent'
          /\ event'.id \notin DOMAIN rows
      BY <1>1, <3>1, <3>2, NewEventKeeps
    <3>4. event' \in PumpEvent /\ event' # None /\ event'.highTime = clock
      BY <3>1, NewEventFacts
    <3> QED BY <1>1, <3>3, <3>4, TypeParts DEF Stored
  <2> QED BY <2>1, <2>2
<1>6. JobTypes'
  <2>1. <<>> \in Seq(AlertsOf)
    OBVIOUS
  <2>2. job' \in [alerts : Seq(AlertsOf), then : {"idle", "emit", "prewarm", "watch"}]
    BY <1>4, <2>1
  <2> QED BY <1>1, <1>5, <2>2 DEF IInv, JobTypes
<1>7. TypeOK'
  BY <1>1, <1>3, <1>4, <1>5 DEF IInv, TypeOK, Number
<1>8. JobFits'
  BY <1>4 DEF JobFits
<1> QED BY <1>5, <1>6, <1>7, <1>8 DEF IInv

LEMMA DoesNotQualifyKeeps ==
    ASSUME IInv, DoesNotQualify
    PROVE  IInv'
<1>1. /\ watched' = FALSE /\ arriving' = FALSE /\ pc' = "prewarm" /\ pc # "store"
      /\ UNCHANGED <<clock, candles, forming, event, seen, next, job, rows, sent, crashes>>
  BY DEF DoesNotQualify, DiscoveryDue, CloseSource, market, engine
<1>2. TypeOK' /\ JobTypes'
  BY <1>1 DEF IInv, TypeOK, JobTypes, Number
<1>3. MarksTell' /\ JobFits' /\ Stored' /\ OneAfterAnother'
  BY <1>1 DEF IInv, MarksTell, JobFits, Stored, OneAfterAnother
<1>4. LiveIsEvent'
  BY <1>1 DEF IInv, LiveIsEvent, Live
<1> QED BY <1>2, <1>3, <1>4 DEF IInv

\* The candles that were missed: the event goes on.
LEMMA PrewarmKeeps ==
    ASSUME IInv, Prewarm
    PROVE  IInv'
<1> USE Numbers
<1>1. /\ pc = "prewarm"
      /\ UNCHANGED <<clock, candles, forming, watched, arriving, next, rows, sent, crashes>>
  BY DEF Prewarm, market, source
<1>2. CASE pc' = "watch" /\ UNCHANGED <<event, seen, job>>
  <2>1. TypeOK' /\ JobTypes'
    BY <1>1, <1>2 DEF IInv, TypeOK, JobTypes, Number
  <2>2. MarksTell' /\ JobFits' /\ Stored' /\ OneAfterAnother'
    BY <1>1, <1>2 DEF IInv, MarksTell, JobFits, Stored, OneAfterAnother
  <2>3. LiveIsEvent'
    BY <1>1, <1>2 DEF IInv, LiveIsEvent, Live
  <2> QED BY <2>1, <2>2, <2>3 DEF IInv
<1>3. CASE /\ Followed(event, clock)
           /\ \E e \in Primed : event' = IF Closes THEN e ELSE Observed(e, forming, clock)
           /\ seen' = seen \cup 1..Number
           /\ pc' = "store" /\ job' = [NoJob EXCEPT !.then = "watch"]
  <2>1. PICK e \in Primed : event' = IF Closes THEN e ELSE Observed(e, forming, clock)
    BY <1>3
  <2>2. event # None /\ event \in PumpEvent /\ event.highTime >= 1 /\ clock \in 1..MaxTime
    BY <1>3, EventFacts DEF Followed
  <2>3. /\ GoesOn(event, e) /\ e.st = event.st
        /\ \A s \in AlertsOf : Tells(event, s) => Tells(e, s)
    <3>1. CASE e = event
      BY <2>2, <3>1 DEF GoesOn, PumpEvent
    <3>2. CASE e # event
      <4>1. PICK k \in Missed : e = Observed(event, candles[k], 2 * k)
        BY <2>1, <3>2 DEF Primed, Peaks
      <4>2. candles[k] \in Heights /\ 2 * k \in 1..MaxTime
        BY <4>1, TypeParts DEF Missed
      <4> QED BY <2>2, <4>1, <4>2, ObservedGoesOn, ObservedTells
    <3> QED BY <3>1, <3>2
  <2>4. e \in PumpEvent /\ e.highTime >= 1 /\ forming \in Heights \cup {0}
    BY <2>3 DEF GoesOn, IInv, TypeOK
  <2>5. /\ GoesOn(e, event') /\ event'.st = e.st
        /\ \A s \in AlertsOf : Tells(e, s) => Tells(event', s)
    <3>1. CASE event' = e
      BY <2>4, <3>1 DEF GoesOn, PumpEvent
    <3>2. CASE event' # e
      <4>1. event' = Observed(e, forming, clock)
        BY <2>1, <3>2
      <4> QED BY <2>2, <2>4, <4>1, ObservedGoesOn, ObservedTells
    <3> QED BY <3>1, <3>2
  <2>6. GoesOn(event, event') /\ event'.st = event.st /\ event' # None
    <3>1. /\ event.high \in Nat /\ e.high \in Nat /\ event'.high \in Nat
          /\ event.expires \in Nat /\ e.expires \in Nat /\ event'.expires \in Nat
      BY <2>2, <2>4, <2>5 DEF GoesOn, PumpEvent
    <3> QED BY <2>3, <2>5, <3>1, NoneAssumption DEF GoesOn
  <2>7. \A s \in AlertsOf : Tells(event, s) => Tells(event', s)
    BY <2>3, <2>5
  <2>8. /\ MarksTell' /\ OneAfterAnother' /\ LiveIsEvent'
        /\ (event.id \in DOMAIN rows =>
              /\ rows[event.id].expires <= event'.expires
              /\ rows[event.id].st = "closed" => event'.st = "closed")
    BY <1>1, <2>2, <2>6, <2>7, EventGoesOn
  <2>9. Stored'
    BY <1>1, <1>3, <2>6, <2>8 DEF Stored, GoesOn
  <2>10. job' = [alerts |-> <<>>, then |-> "watch"]
    BY <1>3 DEF NoJob
  <2>11. JobTypes'
    <3>1. <<>> \in Seq(AlertsOf)
      OBVIOUS
    <3> QED BY <1>1, <2>6, <2>10, <3>1 DEF IInv, JobTypes, GoesOn
  <2>12. TypeOK'
    <3>1. seen' \subseteq 1..Number
      BY <1>3 DEF IInv, TypeOK
    <3> QED BY <1>1, <1>3, <2>6, <2>10, <3>1 DEF IInv, TypeOK, Number, GoesOn
  <2> QED BY <2>8, <2>9, <2>10, <2>11, <2>12 DEF IInv, JobFits
<1> QED BY <1>2, <1>3 DEF Prewarm, engine

LEMMA WatchKeeps ==
    ASSUME IInv, Watch
    PROVE  IInv'
<1> USE Numbers
<1>1. /\ pc = "watch" /\ pc' = "idle" /\ job' = [alerts |-> <<>>, then |-> "idle"]
      /\ next' = clock + DiscoverEvery
      /\ UNCHANGED <<clock, candles, forming, event, seen, arriving, rows, sent, crashes>>
  BY DEF Watch, market, engine, NoJob
<1>2. watched' \in BOOLEAN
  BY DEF Watch, Followed
<1>3. JobTypes'
  <2>1. <<>> \in Seq(AlertsOf)
    OBVIOUS
  <2> QED BY <1>1, <2>1 DEF IInv, JobTypes
<1>4. TypeOK'
  BY <1>1, <1>2, TypeParts DEF IInv, TypeOK, Number
<1>5. MarksTell' /\ JobFits' /\ Stored' /\ OneAfterAnother'
  BY <1>1 DEF IInv, MarksTell, JobFits, Stored, OneAfterAnother
<1>6. LiveIsEvent'
  BY <1>1 DEF IInv, LiveIsEvent, Live
<1> QED BY <1>3, <1>4, <1>5, <1>6 DEF IInv

LEMMA TickKeeps ==
    ASSUME IInv, Tick
    PROVE  IInv'
<1> USE Numbers
<1>1. /\ clock < MaxTime /\ clock' = clock + 1 /\ pc \in {"idle", "prewarm", "watch"}
      /\ UNCHANGED <<event, seen, watched, next, pc, job, rows, sent, crashes>>
  BY DEF Tick, engine
<1>2. clock \in 1..MaxTime /\ clock' \in 1..MaxTime /\ clock' \in Times
  BY <1>1, TypeParts DEF Times
<1>3. /\ candles' \in Seq(Heights) /\ Len(candles') = Number' /\ Number' >= Number
      /\ forming' \in Heights \cup {0} /\ arriving' \in BOOLEAN
  <2>1. CASE Closes
    <3>1. UNCHANGED <<candles, forming>> /\ arriving' = FALSE
      BY <2>1 DEF Tick
    <3>2. Number' = Number
      BY <1>1, <1>2, <2>1 DEF Closes, Number
    <3>3. candles \in Seq(Heights) /\ Len(candles) = Number /\ Number \in Nat
      BY TypeParts
    <3>4. forming \in Heights \cup {0}
      BY DEF IInv, TypeOK
    <3>5. candles' \in Seq(Heights) /\ Len(candles') = Number' /\ forming' \in Heights \cup {0}
      BY <3>1, <3>2, <3>3, <3>4, Zenon
    <3>6. Number' >= Number
      BY <3>2, <3>3
    <3> QED BY <3>1, <3>5, <3>6
  <2>2. CASE ~Closes
    <3>1. PICK h \in Heights : candles' = Append(candles, h) /\ forming' = 0 /\ arriving' = watched
      BY <2>2 DEF Tick
    <3>2. Number' = Number + 1
      BY <1>1, <1>2, <2>2 DEF Closes, Number
    <3>3. candles' \in Seq(Heights) /\ Len(candles') = Len(candles) + 1
      BY <3>1, TypeParts
    <3>4. watched \in BOOLEAN
      BY DEF IInv, TypeOK
    <3> QED BY <3>1, <3>2, <3>3, <3>4, TypeParts
  <2> QED BY <2>1, <2>2
<1>4. TypeOK'
  <2>1. seen \subseteq 1..Number'
    <3>1. seen \subseteq 1..Number
      BY DEF IInv, TypeOK
    <3>2. Number' \in Nat
      BY <1>3
    <3> QED BY <1>3, <3>1, <3>2, TypeParts
  <2>2. watched \in BOOLEAN
    BY DEF IInv, TypeOK
  <2> QED BY <1>1, <1>2, <1>3, <2>1, <2>2 DEF IInv, TypeOK
<1>5. JobTypes'
  BY <1>1, <1>2 DEF IInv, JobTypes
<1>6. MarksTell' /\ JobFits' /\ Stored' /\ OneAfterAnother'
  BY <1>1 DEF IInv, MarksTell, JobFits, Stored, OneAfterAnother
<1>7. LiveIsEvent'
  <2>1. ASSUME NEW id \in DOMAIN rows
        PROVE  /\ Live(rows[id])' => event # None /\ event.id = id
               /\ id <= clock' /\ id # clock'
    <3>1. rows[id] \in PumpEvent /\ rows[id].id = id
      BY TypeParts
    <3>2. rows[id].expires \in Nat /\ id \in Nat
      BY <3>1 DEF PumpEvent, Times
    <3>3. Live(rows[id])' => Live(rows[id])
      BY <1>1, <1>2, <3>2 DEF Live
    <3> QED BY <1>1, <1>2, <3>2, <3>3 DEF IInv, LiveIsEvent
  <2>2. event # None => event.id <= clock' /\ event.id # clock' /\ event.id < clock'
    <3>1. event # None => event.id \in Nat
      BY EventFacts DEF Times
    <3> QED BY <1>1, <1>2, <3>1 DEF IInv, LiveIsEvent
  <2> QED BY <1>1, <2>1, <2>2 DEF LiveIsEvent
<1> QED BY <1>4, <1>5, <1>6, <1>7 DEF IInv

\* Two rows that are alive are one.
LEMMA LiveRowsAgree ==
    ASSUME IInv
    PROVE  /\ \A r \in LiveRows : /\ event # None /\ r.id = event.id /\ event.id \in DOMAIN rows
                                  /\ r = rows[event.id] /\ Live(r) /\ r \in PumpEvent
           /\ \A r, s \in LiveRows : r = s
<1>1. ASSUME NEW r \in LiveRows
      PROVE  /\ event # None /\ r.id = event.id /\ event.id \in DOMAIN rows
             /\ r = rows[event.id] /\ Live(r) /\ r \in PumpEvent
  <2>1. PICK id \in DOMAIN rows : r = rows[id]
    BY DEF LiveRows
  <2>2. Live(r)
    BY DEF LiveRows, Live
  <2>3. event # None /\ event.id = id
    BY <2>1, <2>2 DEF IInv, LiveIsEvent
  <2> QED BY <2>1, <2>2, <2>3, TypeParts
<1> QED BY <1>1

\* The row a start takes up is the one that is alive, if there is one.
LEMMA LoadedFacts ==
    ASSUME IInv, LiveRows # {}
    PROVE  Loaded \in LiveRows
<1>2. PICK r \in LiveRows : TRUE
  OBVIOUS
<1>3. \A x \in LiveRows : x.id <= r.id
  <2>1. r.id \in Nat
    BY LiveRowsAgree DEF PumpEvent, Times
  <2> QED BY <2>1, LiveRowsAgree
<1> QED BY <1>3 DEF Loaded

LEMMA RestartKeeps ==
    ASSUME IInv, Restart
    PROVE  IInv'
<1> USE Numbers
<1>1. /\ crashes < MaxCrashes /\ crashes' = crashes + 1 /\ event' = Loaded /\ seen' = {}
      /\ watched' = FALSE /\ arriving' = FALSE /\ pc' = "start" /\ next' = 0
      /\ job' = [alerts |-> <<>>, then |-> "idle"]
      /\ UNCHANGED <<clock, candles, forming, rows, sent>>
  BY DEF Restart, CloseSource, market, NoJob
<1>2. event' # None => /\ event' \in LiveRows /\ event' \in PumpEvent /\ Live(event')
                       /\ event'.id \in DOMAIN rows /\ rows[event'.id] = event'
                       /\ event # None /\ event'.id = event.id
  <2>1. Loaded # None => LiveRows # {}
    BY DEF Loaded
  <2> QED BY <1>1, <2>1, LoadedFacts, LiveRowsAgree
<1>3. TypeOK'
  <2>1. crashes' \in 0..MaxCrashes
    BY <1>1 DEF IInv, TypeOK
  <2>2. event' = None \/ event' \in PumpEvent
    BY <1>2
  <2> QED BY <1>1, <2>1, <2>2 DEF IInv, TypeOK, Number
<1>4. JobTypes'
  <2>1. <<>> \in Seq(AlertsOf)
    OBVIOUS
  <2>2. event' # None => event'.highTime >= 1
    BY <1>2 DEF IInv, JobTypes
  <2> QED BY <1>1, <2>1, <2>2 DEF IInv, JobTypes
<1>5. MarksTell' /\ JobFits' /\ OneAfterAnother'
  <2>1. ASSUME NEW i \in DOMAIN sent, event' # None
        PROVE  Tells(event', sent[i])
    <3>1. CASE sent[i].id = event'.id
      BY <1>2, <2>1, <3>1 DEF IInv, MarksTell
    <3>2. CASE sent[i].id # event'.id
      BY <3>2 DEF Tells
    <3> QED BY <3>1, <3>2
  <2> QED BY <1>1, <2>1 DEF IInv, MarksTell, JobFits, OneAfterAnother
<1>6. Stored'
  <2>1. event' # None => event'.expires \in Nat
    BY <1>2 DEF PumpEvent
  <2> QED BY <1>1, <1>2, <2>1 DEF Stored
<1>7. LiveIsEvent'
  <2>1. ASSUME NEW id \in DOMAIN rows, Live(rows[id])
        PROVE  event' # None /\ event'.id = id
    <3>1. rows[id] \in LiveRows
      BY <2>1 DEF LiveRows, Live
    <3>2. Loaded \in LiveRows
      BY <3>1, LoadedFacts
    <3> QED BY <1>1, <1>2, <3>1, <3>2, LiveRowsAgree, TypeParts, NoneAssumption
  <2>2. \A id \in DOMAIN rows : Live(rows[id])' <=> Live(rows[id])
    BY <1>1 DEF Live
  <2>3. event' # None => Live(event)' /\ event'.id <= clock
    BY <1>1, <1>2 DEF IInv, LiveIsEvent, Live
  <2> QED BY <1>1, <2>1, <2>2, <2>3 DEF IInv, LiveIsEvent
<1> QED BY <1>3, <1>4, <1>5, <1>6, <1>7 DEF IInv

-----------------------------------------------------------------------------
(***************************************************************************)
(* The theorems.                                                           *)
(***************************************************************************)

LEMMA InitHolds == Init => IInv
<1> SUFFICES ASSUME Init PROVE IInv
  OBVIOUS
<1> USE Numbers DEF Init
<1>1. <<>> \in Seq(Heights) /\ <<>> \in Seq(AlertsOf) /\ Len(<<>>) = 0 /\ DOMAIN <<>> = {}
  OBVIOUS
<1>2. Number = 0 /\ clock \in Times
  BY DEF Number, Times
<1>3. TypeOK
  <2>1. candles \in Seq(Heights) /\ Len(candles) = Number
    BY <1>1, <1>2
  <2>2. seen \subseteq 1..Number /\ crashes \in 0..MaxCrashes
    OBVIOUS
  <2>3. job.then = "idle" /\ DOMAIN rows = {}
    BY <1>1 DEF NoJob
  <2> QED BY <1>2, <2>1, <2>2, <2>3 DEF TypeOK
<1>4. JobTypes
  BY <1>1 DEF JobTypes, NoJob
<1>5. MarksTell /\ JobFits /\ Stored /\ OneAfterAnother
  BY <1>1 DEF MarksTell, JobFits, Stored, OneAfterAnother
<1>6. LiveIsEvent
  BY <1>1 DEF LiveIsEvent
<1> QED BY <1>3, <1>4, <1>5, <1>6 DEF IInv

LEMMA NextKeeps == IInv /\ [Next]_vars => IInv'
<1> SUFFICES ASSUME IInv, [Next]_vars PROVE IInv'
  OBVIOUS
<1>1. CASE UNCHANGED vars
  <2>1. UNCHANGED <<clock, candles, forming, event, seen, watched, arriving, next, pc, job,
                    rows, sent, crashes>>
    BY <1>1 DEF vars, market, engine, source
  <2>2. TypeOK' /\ JobTypes' /\ MarksTell' /\ JobFits' /\ Stored' /\ OneAfterAnother'
    BY <2>1 DEF IInv, TypeOK, JobTypes, Number, MarksTell, JobFits, Stored, OneAfterAnother
  <2>3. LiveIsEvent'
    BY <2>1 DEF IInv, LiveIsEvent, Live
  <2> QED BY <2>2, <2>3 DEF IInv
<1>2. CASE Kline \/ FastKline \/ Store \/ Emit
  BY <1>2, KlineKeeps, FastKlineKeeps, StoreKeeps, EmitKeeps
<1>3. CASE Qualifies \/ DoesNotQualify \/ Prewarm \/ Watch
  BY <1>3, QualifiesKeeps, DoesNotQualifyKeeps, PrewarmKeeps, WatchKeeps
<1>4. CASE Tick \/ Restart
  BY <1>4, TickKeeps, RestartKeeps
<1> QED BY <1>1, <1>2, <1>3, <1>4 DEF Next

LEMMA Invariance == Spec => []IInv
BY InitHolds, NextKeeps, PTL DEF Spec

\* The type invariant of the pump watch.
THEOREM WatchTypes == Spec => []TypeOK
<1>1. IInv => TypeOK
  BY DEF IInv
<1> QED BY <1>1, Invariance, PTL

\* Of two alerts of an event and level the later stands at a higher high, a
\* cooldown after the earlier: discoveries, replays of missed candles and
\* restarts never take back the marks of an alert that went out.
THEOREM RearmedOnlyByNewHigh == Spec => []AlertsSpaced
<1>1. IInv => AlertsSpaced
  BY DEF IInv, OneAfterAnother, MayFollow, AlertsSpaced
<1> QED BY <1>1, Invariance, PTL

\* The high pump models warn once, call a short once and do not warn after it,
\* whatever crashes lie between.
THEOREM HighPumpOncePerEvent == Spec => []HighPumpOnce
<1>1. IInv => HighPumpOnce
  BY DEF IInv, OneAfterAnother, MayFollow, HighPumpOnce
<1> QED BY <1>1, Invariance, PTL

\* Between events the row is the event, so that a restart forgets nothing.
THEOREM NothingToForget == Spec => []RowIsMemory
<1>1. IInv => RowIsMemory
  BY DEF IInv, Stored, RowIsMemory
<1> QED BY <1>1, Invariance, PTL

\* A restart finds at most one row to follow.
THEOREM OneRowToFollow == Spec => []OneLiveRow
<1>1. IInv => OneLiveRow
  <2> SUFFICES ASSUME IInv PROVE OneLiveRow
    OBVIOUS
  <2>1. CASE LiveRows = {}
    BY <2>1, FS_EmptySet DEF OneLiveRow
  <2>2. CASE LiveRows # {}
    <3>1. PICK r \in LiveRows : TRUE
      BY <2>2
    <3>2. LiveRows = {r}
      BY LiveRowsAgree
    <3>3. Cardinality({r}) = 1
      BY FS_Singleton
    <3> QED BY <3>2, <3>3 DEF OneLiveRow
  <2> QED BY <2>1, <2>2
<1> QED BY <1>1, Invariance, PTL

\* A completed event stays completed and raises nothing any more, although
\* discoveries go on refreshing it.
THEOREM CompletedStaysOut == Spec => CompletedIsFinal
<1> DEFINE Final == \A id \in DOMAIN rows :
                      rows[id].st = "closed" =>
                        /\ rows'[id].st = "closed"
                        /\ \A i \in DOMAIN sent' \ DOMAIN sent : sent'[i].id # id
<1>1. ASSUME IInv, [Next]_vars
      PROVE  [Final]_vars
  <2>1. CASE Store
    <3>1. rows' = Put(rows, event.id, event) /\ sent' = sent
      BY <2>1 DEF Store
    <3>2. event # None /\ (event.id \in DOMAIN rows /\ rows[event.id].st = "closed" =>
                             event.st = "closed")
      BY <1>1, <2>1 DEF Store, IInv, Stored
    <3> QED BY <3>1, <3>2 DEF Put
  <2>2. CASE Emit
    <3>1. rows' = rows /\ sent' = sent \o job.alerts /\ pc = "emit"
      BY <2>2 DEF Emit
    <3>2. sent \in Seq(AlertsOf) /\ job.alerts \in Seq(AlertsOf)
      BY <1>1 DEF IInv, JobTypes
    <3>3. CASE job.alerts = <<>>
      <4>1. sent' = sent
        BY <3>1, <3>2, <3>3
      <4> QED BY <3>1, <4>1
    <3>4. CASE job.alerts # <<>>
      <4>1. /\ Len(job.alerts) = 1 /\ event # None /\ event.st = "active"
            /\ job.alerts[1].id = event.id /\ event.id \in DOMAIN rows /\ rows[event.id] = event
        BY <1>1, <3>1, <3>4 DEF IInv, JobFits, Stored
      <4>2. \A i \in DOMAIN sent' \ DOMAIN sent : sent'[i] = job.alerts[1]
        BY <3>1, <3>2, <4>1
      <4> QED BY <3>1, <4>1, <4>2
    <3> QED BY <3>3, <3>4
  <2>3. CASE UNCHANGED <<rows, sent>>
    BY <2>3
  <2>4. Store \/ Emit \/ UNCHANGED <<rows, sent>>
    BY <1>1 DEF Next, vars, Kline, FastKline, Qualifies, DoesNotQualify, Prewarm, Watch, Tick,
                Restart
  <2> QED BY <2>1, <2>2, <2>3, <2>4
<1>2. []IInv /\ [][Next]_vars => [][Final]_vars
  BY <1>1, PTL
<1> QED BY <1>2, Invariance, PTL DEF Spec, CompletedIsFinal
==============================================================================
