-------------------------- MODULE LiveServiceProofs --------------------------
(***************************************************************************)
(* The live process of LiveService keeps its types, trades only on a       *)
(* stream that was proven or has halted, and implements SignalQueue.       *)
(*                                                                         *)
(* What makes these inductive: the batch is the piece of the outbox right  *)
(* behind the cursor (Follows), the tasks run only in the loop and a       *)
(* stream being reconnected has its halt (Supervised), and a signal whose  *)
(* cursor is about to be saved may be passed (Handled).                    *)
(***************************************************************************)
EXTENDS LiveService, SequenceTheorems, TLAPS

\* The batch is what follows the cursor in the outbox.
Follows ==
    /\ cursor + Len(batch) <= Len(outbox)
    /\ \A i \in 1..Len(batch) : batch[i] = outbox[cursor + i]
    /\ ~Running => batch = <<>>
    /\ ~ready => main \in {"down", "cursor", "ready"}
    /\ main = "ready" => cursor >= History

\* A signal at which the handler has returned was taken, or may be passed.
Handled ==
    main = "save" => row \in intents \/ row.act = "open" \/ "manual" \in halts

\* The tasks run in the loop only; the halt outlasts the reconnect it waits for.
Supervised ==
    /\ ~Running => private = "off" /\ periodic = "off"
    /\ main = "prove" => stream # "off"
    /\ private \in {"connect", "prove"} => "stream" \in halts
    /\ private = "prove" => stream # "off"

-----------------------------------------------------------------------------
(***************************************************************************)
(* Types.                                                                  *)
(***************************************************************************)

\* The signal at hand is the one after the cursor.
LEMMA RowIsNext ==
    ASSUME TypeOK, Follows, batch # <<>>
    PROVE  /\ cursor + 1 \in 1..Len(outbox)
           /\ row = outbox[cursor + 1] /\ row \in Row /\ row.seq = cursor + 1
           /\ Tail(batch) \in Seq(Row) /\ Len(Tail(batch)) = Len(batch) - 1
           /\ \A i \in 1..Len(Tail(batch)) : Tail(batch)[i] = batch[i + 1]
<1>1. /\ batch \in Seq(Row) /\ outbox \in Seq(Row) /\ cursor \in Nat
      /\ Len(batch) \in Nat /\ Len(outbox) \in Nat /\ Len(batch) >= 1
  BY EmptySeq, LenProperties DEF TypeOK
<1>2. cursor + 1 \in 1..Len(outbox)
  BY <1>1 DEF Follows
<1>3. row = batch[1] /\ batch[1] = outbox[cursor + 1]
  BY <1>1 DEF row, Follows
<1>4. row \in Row /\ row.seq = cursor + 1
  BY <1>1, <1>2, <1>3, ElementOfSeq DEF TypeOK
<1> QED BY <1>1, <1>2, <1>3, <1>4, HeadTailProperties

\* Saving the cursor keeps the types and the place of the batch.
LEMMA PassedRow ==
    ASSUME TypeOK, Follows, batch # <<>>, PassRow, UNCHANGED outbox, ready
    PROVE  /\ cursor' = cursor + 1 /\ cursor' \in 0..Len(outbox)
           /\ batch' \in Seq(Row) /\ main' \in {"sync", "row"}
           /\ main' = "row" => batch' # <<>>
           /\ cursor' + Len(batch') <= Len(outbox')
           /\ \A i \in 1..Len(batch') : batch'[i] = outbox'[cursor' + i]
<1>1. /\ cursor \in Nat /\ Len(batch) \in Nat /\ Len(outbox) \in Nat
  BY LenProperties DEF TypeOK
<1>2. cursor' = cursor + 1 /\ batch' = Tail(batch)
  BY RowIsNext DEF PassRow
<1> QED
  BY <1>1, <1>2, RowIsNext DEF PassRow, Follows

\* A read of the outbox keeps the types and the place of the batch.
LEMMA PolledBatch ==
    ASSUME TypeOK, Follows, Poll
    PROVE  /\ batch' \in Seq(Row) /\ UNCHANGED <<outbox, cursor>>
           /\ main' = "row" => batch' # <<>>
           /\ cursor' + Len(batch') <= Len(outbox')
           /\ \A i \in 1..Len(batch') : batch'[i] = outbox'[cursor' + i]
<1> DEFINE last == IF cursor + BatchSize < Len(outbox) THEN cursor + BatchSize ELSE Len(outbox)
<1>1. /\ outbox \in Seq(Row) /\ Len(outbox) \in Nat /\ cursor \in Nat /\ cursor <= Len(outbox)
      /\ BatchSize \in Nat \ {0}
  BY LenProperties, ServiceAssumption DEF TypeOK
<1>2. last \in Nat /\ cursor <= last /\ last <= Len(outbox)
  BY <1>1
<1>3. batch' = SubSeq(outbox, cursor + 1, last) /\ UNCHANGED <<outbox, cursor>>
  BY DEF Poll, source, ledger
<1> HIDE DEF last
<1>4. /\ batch' \in Seq(Row) /\ Len(batch') = last - cursor
      /\ \A i \in 1..(last - cursor) : batch'[i] = outbox[cursor + i]
  <2>1. \A i \in cursor + 1..last : outbox[i] \in Row
    BY <1>1, <1>2, ElementOfSeq
  <2>2. /\ SubSeq(outbox, cursor + 1, last) \in Seq(Row)
        /\ Len(SubSeq(outbox, cursor + 1, last)) =
             IF cursor + 1 <= last THEN last - (cursor + 1) + 1 ELSE 0
        /\ \A i \in 1..last - (cursor + 1) + 1 :
             SubSeq(outbox, cursor + 1, last)[i] = outbox[cursor + 1 + i - 1]
    BY <1>1, <1>2, <2>1, SubSeqProperties
  <2> QED BY <1>1, <1>2, <1>3, <2>2
<1> QED BY <1>1, <1>2, <1>3, <1>4 DEF Poll

\* The paper monitor appends one signal, and the next number.
LEMMA PublishType ==
    ASSUME TypeOK, Follows, NEW s \in Symbols, Publish(s)
    PROVE  TypeOK' /\ Follows'
<1> DEFINE r == [seq |-> Len(outbox) + 1, sym |-> s,
                 act |-> IF OpenOnPaper(s) THEN "close" ELSE "open"]
<1>1. /\ outbox \in Seq(Row) /\ Len(outbox) \in Nat /\ Len(outbox) < MaxRows
      /\ MaxRows \in Nat /\ Len(outbox) >= History /\ History \in Nat
  BY LenProperties, ServiceAssumption DEF TypeOK, Publish
<1>2. r \in Row
  BY <1>1 DEF Row
<1>3. outbox' = Append(outbox, r)
  BY DEF Publish
<1> HIDE DEF r
<1>4. /\ outbox' \in Seq(Row) /\ Len(outbox') = Len(outbox) + 1
      /\ outbox'[Len(outbox) + 1] = r
      /\ \A i \in 1..Len(outbox) : outbox'[i] = outbox[i]
  BY <1>1, <1>2, <1>3, AppendProperties
<1>5. \A i \in 1..Len(outbox') : outbox'[i].seq = i
  <2>1. r.seq = Len(outbox) + 1
    BY DEF r
  <2> QED BY <1>1, <1>4, <2>1 DEF TypeOK
<1>6. UNCHANGED <<aged, ledger, held, loop, tasks, stream, crashes>>
  BY DEF Publish
<1>7. TypeOK'
  BY <1>1, <1>4, <1>5, <1>6, LenProperties DEF TypeOK, ledger, loop, tasks
<1>8. Follows'
  <2>1. cursor \in Nat /\ Len(batch) \in Nat
    BY <1>1, LenProperties DEF TypeOK
  <2>2. UNCHANGED <<cursor, ready, main, batch>>
    BY <1>6 DEF ledger, loop
  <2>3. cursor + Len(batch) <= Len(outbox')
    BY <1>1, <1>4, <2>1 DEF Follows
  <2>4. ASSUME NEW i \in 1..Len(batch) PROVE batch[i] = outbox'[cursor + i]
    <3>1. cursor + i \in 1..Len(outbox)
      BY <1>1, <2>1 DEF Follows
    <3> QED BY <1>4, <3>1 DEF Follows
  <2> QED BY <2>2, <2>3, <2>4 DEF Follows, Running
<1> QED BY <1>7, <1>8

\* Steps that leave outbox, cursor and batch alone keep what is known of them.
LEMMA KeptRows ==
    ASSUME Follows, UNCHANGED <<outbox, cursor, batch>>,
           ~Running' => batch' = <<>>,
           ~ready' => main' \in {"down", "cursor", "ready"},
           main' = "ready" => cursor' >= History
    PROVE  Follows'
BY DEF Follows

\* Starting keeps types and rows.
LEMMA StartupType ==
    ASSUME TypeOK, Follows, Startup
    PROVE  TypeOK' /\ Follows'
<1>1. /\ outbox \in Seq(Row) /\ Len(outbox) \in Nat /\ Len(outbox) \in History..MaxRows
      /\ History \in Nat /\ MaxRows \in Nat /\ cursor \in Nat
  BY LenProperties, ServiceAssumption DEF TypeOK
<1>2. ASSUME InitCursor PROVE TypeOK' /\ Follows'
  <2>1. TypeOK'
    <3>1. /\ healthy' \in BOOLEAN /\ dbFailed' \in BOOLEAN
          /\ main' \in {"ready", "supervise"} /\ cursor' \in {cursor, Len(outbox)}
          /\ UNCHANGED <<outbox, aged, ready, intents, halts, held, batch, private, periodic,
                         fails, stream, crashes>>
      BY <1>2 DEF InitCursor, TypeOK, source, tasks
    <3> QED BY <1>1, <3>1 DEF TypeOK
  <2>2. batch = <<>> /\ Len(batch) = 0
    BY <1>2 DEF InitCursor, Follows, Running
  <2> QED BY <1>1, <1>2, <2>1, <2>2 DEF InitCursor, Follows, source, Running
<1>3. ASSUME Boot \/ MarkReady \/ InitCursorFails \/ Supervise \/ SuperviseProves \/ SuperviseFails
      PROVE  TypeOK' /\ Follows'
  <2>1. TypeOK'
    BY <1>1, <1>3 DEF Boot, MarkReady, InitCursorFails, Supervise, SuperviseProves,
       SuperviseFails, ReconcileSucceeds, TypeOK, source, ledger, tasks
  <2>2. Follows'
    BY <1>3, KeptRows DEF Boot, MarkReady, InitCursorFails, Supervise, SuperviseProves,
       SuperviseFails, Follows, Running, source, ledger
  <2> QED BY <2>1, <2>2
<1> QED BY <1>2, <1>3 DEF Startup

\* The end of the process keeps types and rows, whatever intent was saved last.
LEMMA EndedType ==
    ASSUME TypeOK, Follows, Ended, UNCHANGED <<outbox, aged, cursor, ready, halts, held>>,
           intents' \subseteq Row, crashes' \in 0..MaxCrashes
    PROVE  TypeOK' /\ Follows'
<1>1. batch' = <<>> /\ Len(batch') = 0 /\ batch' \in Seq(Row)
  BY DEF Ended
<1>2. /\ main' = "down" /\ healthy' = FALSE /\ dbFailed' = FALSE /\ private' = "off"
      /\ periodic' = "off" /\ fails' = 0 /\ stream' = "off"
  BY DEF Ended
<1>3. TypeOK'
  <2>1. /\ outbox' = outbox /\ aged' = aged /\ cursor' = cursor /\ ready' = ready
        /\ halts' = halts /\ held' = held
    OBVIOUS
  <2>2. /\ outbox' \in Seq(Row) /\ Len(outbox') \in History..MaxRows
        /\ \A i \in DOMAIN outbox' : outbox'[i].seq = i
        /\ aged' \in 0..Len(outbox') /\ cursor' \in 0..Len(outbox') /\ ready' \in BOOLEAN
        /\ halts' \subseteq Halts /\ held' \subseteq Symbols
    BY <2>1 DEF TypeOK
  <2>3. batch' \in Seq(Row) /\ (main' \in {"row", "oms", "save"} => batch' # <<>>)
    BY <1>1, <1>2
  <2>4. healthy' \in BOOLEAN /\ dbFailed' \in BOOLEAN
    BY <1>2
  <2>5. /\ main' \in {"down", "cursor", "ready", "supervise", "prove", "loop", "poll", "row",
                      "oms", "save", "sync", "tasks"}
        /\ private' \in {"off", "events", "connect", "prove", "dead"}
        /\ periodic' \in {"off", "on", "dead"} /\ fails' \in 0..3
        /\ stream' \in {"off", "up", "proven", "lost"}
    BY <1>2
  <2> QED BY <2>2, <2>3, <2>4, <2>5 DEF TypeOK
<1>4. cursor \in Nat /\ Len(outbox) \in Nat /\ cursor <= Len(outbox)
  BY LenProperties DEF TypeOK
<1>5. Follows'
  BY <1>1, <1>2, <1>4 DEF Follows
<1> QED BY <1>3, <1>5

\* The loop keeps types and rows.
LEMMA LoopType ==
    ASSUME TypeOK, Follows, Loop
    PROVE  TypeOK' /\ Follows'
<1>1. /\ outbox \in Seq(Row) /\ Len(outbox) \in Nat /\ cursor \in Nat
  BY LenProperties DEF TypeOK
<1>2. main \in {"row", "oms", "save"} => batch # <<>> /\ row \in Row /\ ready
  BY RowIsNext DEF TypeOK, Follows
<1>3. ASSUME SkipEntry \/ SaveCursor PROVE TypeOK' /\ Follows'
  <2>1. /\ UNCHANGED <<source, ready, intents, halts, held, healthy, dbFailed, tasks, stream,
                       crashes>>
        /\ PassRow /\ batch # <<>> /\ ready
    BY <1>2, <1>3 DEF SkipEntry, SaveCursor, AtRow
  <2>2. TypeOK'
    BY <1>1, <2>1, PassedRow DEF TypeOK, source, tasks
  <2> QED BY <2>1, <2>2, PassedRow DEF Follows, Running, source
<1>4. ASSUME Poll PROVE TypeOK' /\ Follows'
  <2>1. /\ UNCHANGED <<source, ledger, held, tasks, stream, crashes>>
        /\ main' \in {"sync", "row"} /\ dbFailed' = FALSE /\ healthy' \in BOOLEAN /\ ready
    BY <1>4 DEF Poll, TypeOK, Follows
  <2>2. TypeOK'
    BY <1>4, <2>1, PolledBatch DEF TypeOK, source, ledger, tasks
  <2> QED BY <1>4, <2>1, <2>2, PolledBatch DEF Follows, Running, source, ledger
<1>5. ASSUME QuoteFails PROVE TypeOK' /\ Follows'
  <2>1. Len(batch') = 0 /\ batch' = <<>>
    BY <1>5 DEF QuoteFails
  <2>2. TypeOK'
    BY <1>5, <2>1 DEF QuoteFails, TypeOK, source, ledger, tasks
  <2>3. ready
    BY <1>2, <1>5 DEF QuoteFails, NeedsQuote
  <2> QED BY <1>1, <1>5, <2>1, <2>2, <2>3
          DEF QuoteFails, TypeOK, Follows, Running, source, ledger
<1>6. ASSUME RefreshHealth \/ PollFails \/ PollWaits \/ Quote
      PROVE  TypeOK' /\ Follows'
  <2>1. /\ UNCHANGED <<outbox, aged, cursor, ready, intents, halts, held, batch, private,
                       periodic, fails, stream, crashes>>
        /\ main' \in {"poll", "sync", "oms"} /\ (main' = "oms" => main = "row")
    BY <1>6 DEF RefreshHealth, PollFails, PollWaits, Quote, NeedsQuote, source, ledger, tasks
  <2>2. healthy' \in BOOLEAN /\ dbFailed' \in BOOLEAN
    BY <1>6 DEF RefreshHealth, PollFails, PollWaits, Quote, TypeOK
  <2>3. TypeOK'
    BY <2>1, <2>2 DEF TypeOK
  <2>4. Follows'
    BY <1>6, KeptRows DEF RefreshHealth, PollFails, PollWaits, Quote, NeedsQuote, Follows,
       Running, source, ledger
  <2> QED BY <2>3, <2>4
<1>7. ASSUME FlatExit \/ HandleEntry \/ HandleExit \/ HandleRaises
      PROVE  TypeOK' /\ Follows'
  <2>1. row \in Row /\ batch # <<>> /\ row.sym \in Symbols
    BY <1>2, <1>7 DEF FlatExit, HandleEntry, HandleExit, HandleRaises, AtRow, Row
  <2>2. /\ UNCHANGED <<source, cursor, ready, batch, healthy, dbFailed, tasks, stream, crashes>>
        /\ main' = "save"
    BY <1>7 DEF FlatExit, HandleEntry, HandleExit, HandleRaises
  <2>3. intents' \subseteq Row
    BY <1>7, <2>1 DEF FlatExit, HandleEntry, HandleExit, HandleRaises, TypeOK
  <2>4. halts' \subseteq Halts /\ held' \subseteq Symbols
    BY <1>7, <2>1 DEF FlatExit, HandleEntry, HandleExit, HandleRaises, TypeOK, Halts
  <2>5. TypeOK'
    BY <2>1, <2>2, <2>3, <2>4 DEF TypeOK, source, tasks
  <2>6. main \in {"row", "oms"}
    BY <1>7 DEF FlatExit, HandleEntry, HandleExit, HandleRaises, AtRow
  <2>7. Follows'
    BY <1>2, <2>2, <2>6, KeptRows DEF Running, source
  <2> QED BY <2>5, <2>7
<1>8. ASSUME SyncProtection PROVE TypeOK' /\ Follows'
  <2>1. TypeOK'
    BY <1>8 DEF SyncProtection, TypeOK, Halts, source, tasks
  <2> QED BY <1>8, <2>1, KeptRows DEF SyncProtection, Follows, Running, source
<1>9. ASSUME WatchTasks PROVE TypeOK' /\ Follows'
  <2>1. CASE Ended
    <3>1. UNCHANGED <<outbox, aged, cursor, ready, intents, halts, held, crashes>>
      BY <1>9 DEF WatchTasks, source, ledger
    <3> QED BY <2>1, <3>1, EndedType DEF TypeOK
  <2>2. CASE ~Ended
    <3>1. TypeOK'
      BY <1>9, <2>2 DEF WatchTasks, TypeOK, source, ledger, tasks
    <3> QED BY <1>9, <2>2, <3>1, KeptRows DEF WatchTasks, Follows, Running, source, ledger
  <2> QED BY <2>1, <2>2
<1> QED
  BY <1>3, <1>4, <1>5, <1>6, <1>7, <1>8, <1>9 DEF Loop

\* The stream task, the periodic reconcile and the world keep types and rows.
LEMMA OthersType ==
    ASSUME TypeOK, Follows, Age \/ PrivateTask \/ PeriodicTask \/ World
    PROVE  TypeOK' /\ Follows'
<1>1. /\ outbox \in Seq(Row) /\ Len(outbox) \in Nat /\ cursor \in Nat
  BY LenProperties DEF TypeOK
<1>2. ASSUME Age PROVE TypeOK' /\ Follows'
  <2>1. TypeOK'
    BY <1>1, <1>2 DEF Age, TypeOK, ledger, loop, tasks
  <2> QED BY <1>2, <2>1 DEF Age, Follows, Running, ledger, loop
<1>3. ASSUME PrivateTask PROVE TypeOK' /\ Follows'
  <2>1. UNCHANGED <<source, cursor, ready, intents, held, loop, periodic, fails, crashes>>
    BY <1>3 DEF PrivateTask, EventsConnects, EventsFails, StreamEvent, PrivateConnects,
       PrivateProves, PrivateRetryFails, PrivateDies, keepPrivate
  <2>2. /\ halts' \subseteq Halts /\ private' \in {"off", "events", "connect", "prove", "dead"}
        /\ stream' \in {"off", "up", "proven", "lost"}
    BY <1>3 DEF PrivateTask, EventsConnects, EventsFails, StreamEvent, PrivateConnects,
       PrivateProves, PrivateRetryFails, PrivateDies, StreamFailed, ReconcileSucceeds, TypeOK,
       Halts
  <2>3. TypeOK'
    BY <2>1, <2>2 DEF TypeOK, source, loop
  <2> QED BY <2>1, <2>3 DEF Follows, Running, source, loop
<1>4. ASSUME PeriodicTask PROVE TypeOK' /\ Follows'
  <2>1. UNCHANGED <<source, cursor, ready, intents, held, loop, private, crashes>>
    BY <1>4 DEF PeriodicTask, PeriodicSucceeds, PeriodicFails, PeriodicDies, keepPeriodic
  <2>2. /\ halts' \subseteq Halts /\ periodic' \in {"off", "on", "dead"} /\ fails' \in 0..3
        /\ stream' \in {"off", "up", "proven", "lost"}
    <3>1. /\ halts \subseteq Halts /\ fails \in 0..3 /\ periodic \in {"off", "on", "dead"}
          /\ stream \in {"off", "up", "proven", "lost"}
      BY DEF TypeOK
    <3>2. CASE PeriodicSucceeds
      BY <3>1, <3>2 DEF PeriodicSucceeds, ReconcileSucceeds, Recoverable
    <3>3. CASE PeriodicFails
      BY <3>1, <3>3 DEF PeriodicFails, Halts
    <3>4. CASE PeriodicDies
      BY <3>1, <3>4 DEF PeriodicDies
    <3> QED BY <1>4, <3>2, <3>3, <3>4 DEF PeriodicTask
  <2>3. TypeOK'
    BY <2>1, <2>2 DEF TypeOK, source, loop
  <2> QED BY <2>1, <2>3 DEF Follows, Running, source, loop
<1>5. ASSUME Crash PROVE TypeOK' /\ Follows'
  <2>1. intents' \subseteq Row
    BY <1>5, RowIsNext DEF Crash, TypeOK
  <2>2. crashes' \in 0..MaxCrashes
    BY <1>5, ServiceAssumption DEF Crash, TypeOK
  <2> QED BY <1>5, <2>1, <2>2, EndedType DEF Crash, source
<1>6. ASSUME StreamDrops \/ \E s \in Symbols : StopFires(s) PROVE TypeOK' /\ Follows'
  <2>1. TypeOK'
    BY <1>6 DEF StreamDrops, StopFires, TypeOK, source, ledger, loop, tasks
  <2> QED BY <1>6, <2>1 DEF StreamDrops, StopFires, Follows, Running, source, ledger, loop, tasks
<1> QED BY <1>2, <1>3, <1>4, <1>5, <1>6 DEF World

\* Every step keeps types and rows.
LEMMA TypeStep ==
    ASSUME TypeOK, Follows, [Next]_vars
    PROVE  TypeOK' /\ Follows'
<1>1. CASE UNCHANGED vars
  BY <1>1 DEF vars, source, ledger, loop, tasks, TypeOK, Follows, Running
<1>2. CASE Next
  BY <1>2, PublishType, StartupType, LoopType, OthersType DEF Next, Monitor
<1> QED BY <1>1, <1>2

\* At first nothing has been read.
LEMMA InitTypes ==
    ASSUME Init
    PROVE  TypeOK /\ Follows
<1>1. History \in Nat /\ MaxRows \in Nat /\ MaxCrashes \in Nat
  BY ServiceAssumption
<1>2. outbox \in Seq(Row) /\ Len(outbox) = History /\ DOMAIN outbox = 1..History
  BY <1>1, SeqDef, LenProperties DEF Init
<1>3. History <= MaxRows
  <2>1. CASE History = 0
    BY <1>1, <2>1
  <2>2. CASE History # 0
    <3>1. History \in 1..History
      BY <1>1, <2>2
    <3>2. outbox[History] \in Row /\ outbox[History].seq = History
      BY <3>1 DEF Init
    <3> QED BY <1>1, <3>2 DEF Row
  <2> QED BY <2>1, <2>2
<1>4. batch = <<>> /\ Len(batch) = 0 /\ batch \in Seq(Row)
  BY DEF Init
<1>5. TypeOK
  <2>1. /\ \A i \in DOMAIN outbox : outbox[i].seq = i
        /\ aged \in 0..Len(outbox) /\ cursor \in 0..Len(outbox)
    BY <1>1, <1>2 DEF Init
  <2>2. main = "down" /\ ready \in BOOLEAN /\ healthy \in BOOLEAN /\ dbFailed \in BOOLEAN
    BY DEF Init
  <2>3. private = "off" /\ periodic = "off" /\ fails \in 0..3 /\ stream = "off" /\ crashes \in 0..MaxCrashes
    BY <1>1 DEF Init
  <2>4. intents \subseteq Row /\ halts \subseteq Halts /\ held \subseteq Symbols
    BY DEF Init
  <2> QED BY <1>1, <1>2, <1>3, <1>4, <2>1, <2>2, <2>3, <2>4 DEF TypeOK
<1>6. Follows
  BY <1>1, <1>2, <1>4 DEF Init, Follows
<1> QED BY <1>5, <1>6

(* Every variable of LiveService keeps its shape; in particular no signal is handled
   without one, and the cursor never leaves the outbox. *)
THEOREM TypesHold == Spec => []TypeOK
<1>1. Init => TypeOK /\ Follows
  BY InitTypes
<1>2. TypeOK /\ Follows /\ [Next]_vars => TypeOK' /\ Follows'
  BY TypeStep
<1> QED BY <1>1, <1>2, PTL DEF Spec

-----------------------------------------------------------------------------
(***************************************************************************)
(* Halts.                                                                  *)
(***************************************************************************)
StreamInv == Supervised /\ HaltUntilProven

\* Only a reconnect's reconcile takes the stream's halt back.
LEMMA Recovered ==
    /\ Recoverable(TRUE) = {"reconcile", "stream"}
    /\ "stream" \notin Recoverable(FALSE) /\ "manual" \notin Recoverable(FALSE)
BY DEF Recoverable

\* Starting, the loop and the end of a process keep the invariant of the stream.
LEMMA LoopStream ==
    ASSUME TypeOK, StreamInv, Startup \/ Loop
    PROVE  StreamInv'
<1>1. ASSUME SuperviseProves PROVE StreamInv'
  BY <1>1 DEF SuperviseProves, ReconcileSucceeds, StreamInv, Supervised, HaltUntilProven, TypeOK,
     Running
<1>2. ASSUME Boot \/ InitCursor \/ MarkReady \/ InitCursorFails \/ Supervise \/ SuperviseFails
      PROVE  StreamInv'
  BY <1>2 DEF Boot, InitCursor, MarkReady, InitCursorFails, Supervise, SuperviseFails, StreamInv,
     Supervised, HaltUntilProven, Running, tasks, ledger
<1>3. ASSUME Loop, ~Ended PROVE StreamInv'
  <2>1. UNCHANGED <<private, periodic, stream>> /\ halts \subseteq halts' /\ Running
    <3>1. CASE \/ RefreshHealth \/ Poll \/ PollFails \/ PollWaits \/ SkipEntry \/ FlatExit \/ Quote
               \/ QuoteFails \/ SaveCursor
      BY <3>1 DEF RefreshHealth, Poll, PollFails, PollWaits, SkipEntry, FlatExit, Quote, QuoteFails,
         SaveCursor, NeedsQuote, AtRow, tasks, ledger, Running
    <3>2. CASE HandleEntry \/ HandleExit \/ HandleRaises \/ SyncProtection
      BY <3>2 DEF HandleEntry, HandleExit, HandleRaises, SyncProtection, AtRow, tasks, ledger,
         Running
    <3>3. CASE WatchTasks
      BY <1>3, <3>3 DEF WatchTasks, tasks, ledger, Running
    <3> QED BY <1>3, <3>1, <3>2, <3>3 DEF Loop
  <2>2. main' # "prove"
    BY <1>3 DEF Loop, RefreshHealth, Poll, PollFails, PollWaits, SkipEntry, FlatExit, Quote,
       QuoteFails, HandleEntry, HandleExit, HandleRaises, SaveCursor, SyncProtection, WatchTasks,
       PassRow
  <2>3. Running'
    BY <1>3 DEF Loop, RefreshHealth, Poll, PollFails, PollWaits, SkipEntry, FlatExit, Quote,
       QuoteFails, HandleEntry, HandleExit, HandleRaises, SaveCursor, SyncProtection, WatchTasks,
       PassRow, Running
  <2> QED BY <2>1, <2>2, <2>3 DEF StreamInv, Supervised, HaltUntilProven
<1>4. ASSUME Ended PROVE StreamInv'
  BY <1>4 DEF Ended, StreamInv, Supervised, HaltUntilProven, Running
<1> QED BY <1>1, <1>2, <1>3, <1>4 DEF Startup

\* The stream's task and the periodic reconcile keep it.
LEMMA TasksStream ==
    ASSUME TypeOK, StreamInv, PrivateTask \/ PeriodicTask
    PROVE  StreamInv'
<1>1. main' = main /\ (Running' <=> Running)
  BY DEF PrivateTask, PeriodicTask, EventsConnects, EventsFails, StreamEvent, PrivateConnects,
     PrivateProves, PrivateRetryFails, PrivateDies, PeriodicSucceeds, PeriodicFails, PeriodicDies,
     keepPrivate, keepPeriodic, loop, Running
<1>2. Running /\ main # "prove"
  BY DEF PrivateTask, PeriodicTask, EventsConnects, EventsFails, StreamEvent, PrivateConnects,
     PrivateProves, PrivateRetryFails, PrivateDies, PeriodicSucceeds, PeriodicFails, PeriodicDies,
     StreamInv, Supervised, Running
<1>3. ASSUME EventsFails \/ PrivateConnects \/ PrivateRetryFails \/ PrivateDies
      PROVE  StreamInv'
  BY <1>1, <1>2, <1>3 DEF EventsFails, PrivateConnects, PrivateRetryFails, PrivateDies,
     StreamFailed, StreamInv, Supervised, HaltUntilProven
<1>4. ASSUME EventsConnects PROVE StreamInv'
  BY <1>1, <1>2, <1>4 DEF EventsConnects, StreamInv, Supervised, HaltUntilProven
<1>5. ASSUME StreamEvent PROVE StreamInv'
  BY <1>1, <1>2, <1>5 DEF StreamEvent, ReconcileSucceeds, StreamInv, Supervised, HaltUntilProven
<1>6. ASSUME PrivateProves PROVE StreamInv'
  BY <1>1, <1>2, <1>6 DEF PrivateProves, ReconcileSucceeds, StreamInv, Supervised,
     HaltUntilProven, TypeOK
<1>7. ASSUME PeriodicTask PROVE StreamInv'
  <2>1. private' = private /\ ("stream" \in halts => "stream" \in halts')
    BY <1>7, Recovered DEF PeriodicTask, PeriodicSucceeds, PeriodicFails, PeriodicDies,
       keepPeriodic
  <2>2. stream' = IF stream = "up" /\ PeriodicSucceeds THEN "proven" ELSE stream
    BY <1>7 DEF PeriodicTask, PeriodicSucceeds, PeriodicFails, PeriodicDies, ReconcileSucceeds
  <2> QED BY <1>1, <1>2, <2>1, <2>2 DEF StreamInv, Supervised, HaltUntilProven
<1> QED BY <1>3, <1>4, <1>5, <1>6, <1>7 DEF PrivateTask

\* So do the monitor and the world.
LEMMA WorldStream ==
    ASSUME TypeOK, StreamInv, Monitor \/ World
    PROVE  StreamInv'
<1>1. CASE Crash
  BY <1>1 DEF Crash, Ended, StreamInv, Supervised, HaltUntilProven, Running
<1>2. CASE StreamDrops
  BY <1>2 DEF StreamDrops, StreamInv, Supervised, HaltUntilProven, Running, ledger, loop, tasks
<1>3. CASE Monitor \/ \E s \in Symbols : StopFires(s)
  BY <1>3 DEF Monitor, Publish, Age, StopFires, StreamInv, Supervised, HaltUntilProven, Running,
     ledger, loop, tasks
<1> QED BY <1>1, <1>2, <1>3 DEF World

(* Whatever connects, fails, drops, dies or crashes, in whatever order the tasks of
   service.py run: while no halt of the stream stands, the loop runs on a stream a
   reconcile has confirmed since it connected (or whose loss nobody was told yet). *)
THEOREM HaltsUntilProven == Spec => []HaltUntilProven
<1>1. Init => StreamInv
  BY DEF Init, StreamInv, Supervised, HaltUntilProven, Running
<1>2. TypeOK /\ StreamInv /\ [Next]_vars => StreamInv'
  <2> SUFFICES ASSUME TypeOK, StreamInv, [Next]_vars PROVE StreamInv'
    OBVIOUS
  <2>1. CASE UNCHANGED vars
    BY <2>1 DEF vars, ledger, loop, tasks, StreamInv, Supervised, HaltUntilProven, Running
  <2>2. CASE Next
    BY <2>2, LoopStream, TasksStream, WorldStream DEF Next
  <2> QED BY <2>1, <2>2
<1>3. StreamInv => HaltUntilProven
  BY DEF StreamInv
<1> QED BY <1>1, <1>2, <1>3, TypesHold, PTL DEF Spec

-----------------------------------------------------------------------------
(***************************************************************************)
(* The queue.                                                              *)
(***************************************************************************)

\* What is known of every state.
IInv == TypeOK /\ Follows /\ Handled

Place == IF ready THEN cursor + 1 ELSE 0
Alarm == "manual" \in halts

\* The terms of the queue, as the refinement maps them.
LEMMA Mapped ==
    /\ Queue!Other <=> UNCHANGED <<outbox, Place, intents>>
    /\ Queue!AtSignal <=> Place \in 1..Len(outbox)
BY DEF Queue!Other, Queue!AtSignal, Place

\* A handler at work stands at the signal the queue is at.
LEMMA AtTheSignal ==
    ASSUME IInv, batch # <<>>, ready
    PROVE  Queue!AtSignal /\ row = outbox[Place] /\ row \in Row
BY RowIsNext, Mapped DEF IInv, Place

\* A step away from rows, intents and cursor is nothing to the queue.
LEMMA Aside ==
    ASSUME Handled, UNCHANGED <<outbox, cursor, ready, intents>>,
           main' = "save" => main = "save" /\ batch' = batch /\ (Alarm => Alarm')
    PROVE  Handled' /\ Queue!Other
BY Mapped DEF Handled, Place, Alarm, row

\* Publishing is publishing.
LEMMA PublishQueue ==
    ASSUME IInv, NEW s \in Symbols, Publish(s)
    PROVE  Handled' /\ Queue!Next
<1> DEFINE r == [seq |-> Len(outbox) + 1, sym |-> s,
                 act |-> IF OpenOnPaper(s) THEN "close" ELSE "open"]
<1>1. r \in Row
  BY LenProperties, ServiceAssumption DEF IInv, TypeOK, Publish, Row
<1>2. outbox' = Append(outbox, r) /\ UNCHANGED <<cursor, ready, intents, halts, main, batch>>
  BY DEF Publish, ledger, loop
<1> HIDE DEF r
<1>3. Queue!Publish(r)
  BY <1>2 DEF Queue!Publish
<1> QED BY <1>1, <1>2, <1>3 DEF Queue!Next, IInv, Handled, row

\* The first deployment is at the end of the history or later.
LEMMA StartupQueue ==
    ASSUME IInv, Startup
    PROVE  Handled' /\ Queue!Next
<1>1. main' # "save"
  BY DEF Startup, Boot, InitCursor, MarkReady, InitCursorFails, Supervise, SuperviseProves,
     SuperviseFails
<1>2. ASSUME MarkReady, ~ready PROVE Queue!Deploy
  <2>1. cursor \in Nat /\ cursor <= Len(outbox) /\ cursor >= History /\ Len(outbox) \in Nat
    BY <1>2, LenProperties DEF MarkReady, IInv, Follows, TypeOK
  <2>2. UNCHANGED <<outbox, cursor, intents, halts>> /\ ready'
    BY <1>2 DEF MarkReady, source
  <2> QED BY <1>2, <2>1, <2>2, ServiceAssumption DEF Queue!Deploy
<1>3. ASSUME ~(MarkReady /\ ~ready) PROVE Queue!Other
  <2>1. UNCHANGED <<outbox, intents>>
    BY DEF Startup, Boot, InitCursor, MarkReady, InitCursorFails, Supervise, SuperviseProves,
       SuperviseFails, source, ledger
  <2>2. UNCHANGED Place
    <3>1. CASE InitCursor
      BY <3>1 DEF InitCursor, Place
    <3>2. CASE MarkReady
      BY <1>3, <3>2 DEF MarkReady, Place, IInv, TypeOK
    <3>3. CASE ~InitCursor /\ ~MarkReady
      <4>1. ready' = ready /\ cursor' = cursor
        BY <3>3 DEF Startup, Boot, InitCursorFails, Supervise, SuperviseProves, SuperviseFails,
           ledger
      <4> QED BY <4>1 DEF Place
    <3> QED BY <3>1, <3>2, <3>3
  <2> QED BY <2>1, <2>2, Mapped
<1> QED BY <1>1, <1>2, <1>3 DEF Handled, Queue!Next

\* A handler takes its signal; saving the cursor passes one that may be passed.
LEMMA LoopQueue ==
    ASSUME IInv, Loop
    PROVE  Handled' /\ Queue!Next
<1>1. main \in {"row", "oms", "save"} =>
        batch # <<>> /\ ready /\ Queue!AtSignal /\ row = outbox[Place] /\ row \in Row
  BY AtTheSignal DEF IInv, TypeOK, Follows
<1>2. ASSUME SkipEntry \/ SaveCursor PROVE Handled' /\ Queue!Next
  <2>1. /\ batch # <<>> /\ ready /\ Queue!AtSignal /\ row = outbox[Place] /\ row \in Row
        /\ PassRow /\ UNCHANGED <<outbox, ready, intents, halts>>
    BY <1>1, <1>2 DEF SkipEntry, SaveCursor, AtRow, source
  <2>2. row \in intents \/ row.act = "open" \/ "manual" \in halts
    BY <1>2 DEF SkipEntry, SaveCursor, AtRow, IInv, Handled
  <2>3. cursor' = cursor + 1 /\ cursor \in Nat
    BY <2>1, PassedRow, LenProperties DEF IInv, TypeOK
  <2>4. Queue!Pass
    <3>1. Place' = Place + 1 /\ Place = cursor + 1
      BY <2>1, <2>3 DEF Place
    <3>2. row \in intents \/ row \notin {x \in Row : x.act = "close"} \/ Alarm'
      BY <2>1, <2>2 DEF Alarm
    <3> QED BY <2>1, <3>1, <3>2 DEF Queue!Pass, Place, Alarm
  <2>5. main' # "save"
    BY <2>1 DEF PassRow
  <2> QED BY <2>4, <2>5 DEF Queue!Next, Handled
<1>3. ASSUME FlatExit \/ HandleEntry \/ HandleExit PROVE Handled' /\ Queue!Next
  <2>1. /\ batch # <<>> /\ ready /\ Queue!AtSignal /\ row = outbox[Place]
        /\ intents' = intents \cup {row} /\ UNCHANGED <<outbox, cursor, ready, batch>>
    BY <1>1, <1>3 DEF FlatExit, HandleEntry, HandleExit, AtRow, source
  <2>2. Handled'
    BY <2>1 DEF Handled, row
  <2>3. CASE row \in intents
    BY <2>1, <2>2, <2>3, Mapped DEF Queue!Next, Place
  <2>4. CASE row \notin intents
    <3>1. Queue!Take
      BY <2>1, <2>4 DEF Queue!Take, Place
    <3> QED BY <2>2, <3>1 DEF Queue!Next
  <2> QED BY <2>3, <2>4
<1>4. ASSUME HandleRaises PROVE Handled' /\ Queue!Next
  <2>1. UNCHANGED <<outbox, cursor, ready, intents>> /\ "manual" \in halts'
    BY <1>4 DEF HandleRaises, source
  <2> QED BY <2>1, Mapped DEF Handled, Place, Queue!Next
<1>5. ASSUME \/ RefreshHealth \/ Poll \/ PollFails \/ PollWaits \/ Quote \/ QuoteFails
             \/ SyncProtection \/ WatchTasks
      PROVE  Handled' /\ Queue!Next
  <2>1. UNCHANGED <<outbox, cursor, ready, intents>> /\ main' # "save"
    BY <1>5 DEF RefreshHealth, Poll, PollFails, PollWaits, Quote, QuoteFails, SyncProtection,
       WatchTasks, Ended, source, ledger
  <2> QED BY <2>1, Aside DEF IInv, Queue!Next
<1> QED BY <1>2, <1>3, <1>4, <1>5 DEF Loop

\* The other tasks and the world: a crash may have saved the intent of the signal.
LEMMA OthersQueue ==
    ASSUME IInv, Age \/ PrivateTask \/ PeriodicTask \/ World
    PROVE  Handled' /\ Queue!Next
<1>1. ASSUME PrivateTask \/ PeriodicTask PROVE Handled' /\ Queue!Next
  <2>1. /\ UNCHANGED <<outbox, cursor, ready, intents, main, batch>>
        /\ Alarm => Alarm'
    BY <1>1, Recovered DEF PrivateTask, PeriodicTask, EventsConnects, EventsFails, StreamEvent,
       PrivateConnects, PrivateProves, PrivateRetryFails, PrivateDies, PeriodicSucceeds,
       PeriodicFails, PeriodicDies, StreamFailed, keepPrivate, keepPeriodic, source, loop, Alarm
  <2> QED BY <2>1, Aside DEF IInv, Queue!Next
<1>2. ASSUME Age \/ StreamDrops \/ \E s \in Symbols : StopFires(s) PROVE Handled' /\ Queue!Next
  <2>1. UNCHANGED <<outbox, cursor, ready, intents, main, batch, halts>>
    BY <1>2 DEF Age, StreamDrops, StopFires, source, ledger, loop
  <2> QED BY <2>1, Aside DEF IInv, Queue!Next, Alarm
<1>3. ASSUME Crash PROVE Handled' /\ Queue!Next
  <2>1. UNCHANGED <<outbox, cursor, ready>> /\ main' # "save"
    BY <1>3 DEF Crash, Ended, source
  <2>2. CASE intents' = intents
    BY <2>1, <2>2, Mapped DEF Handled, Queue!Next, Place
  <2>3. CASE main = "oms" /\ intents' = intents \cup {row}
    <3>1. batch # <<>> /\ ready /\ Queue!AtSignal /\ row = outbox[Place]
      BY <2>3, AtTheSignal DEF IInv, TypeOK, Follows
    <3>2. UNCHANGED Place
      BY <2>1 DEF Place
    <3>3. CASE row \in intents
      <4>1. intents' = intents
        BY <2>3, <3>3
      <4> QED BY <2>1, <2>2, <4>1
    <3>4. CASE row \notin intents
      <4>1. Queue!Take
        BY <2>1, <2>3, <3>1, <3>4 DEF Queue!Take, Place
      <4> QED BY <2>1, <4>1 DEF Handled, Queue!Next
    <3> QED BY <3>3, <3>4
  <2> QED BY <1>3, <2>2, <2>3 DEF Crash
<1> QED BY <1>1, <1>2, <1>3 DEF World

(* In every execution the live process passes the signals of the outbox in order, takes
   each at most once and no exit is passed over without being taken or an alarm:
   the loop of service.py, with its batches, missing quotes, failing reads, crashes and
   restarts, implements SignalQueue. *)
THEOREM ServiceImplementsQueue == Spec => QueueSpec
<1>1. Init => Handled /\ Queue!Init
  <2> SUFFICES ASSUME Init PROVE Handled /\ Queue!Init
    OBVIOUS
  <2>1. TypeOK
    BY InitTypes
  <2>2. outbox \in Seq(Row) /\ Len(outbox) >= History
    BY <2>1, LenProperties, ServiceAssumption DEF TypeOK
  <2>3. ready = FALSE /\ intents = {} /\ main = "down"
    BY DEF Init
  <2> QED BY <2>2, <2>3 DEF Queue!Init, Handled
<1>2. IInv /\ [Next]_vars => Handled' /\ [Queue!Next]_(Queue!queue)
  <2> SUFFICES ASSUME IInv, [Next]_vars
               PROVE  Handled' /\ (Queue!Next \/ UNCHANGED Queue!queue)
    OBVIOUS
  <2>1. CASE UNCHANGED vars
    BY <2>1 DEF vars, source, ledger, loop, IInv, Handled, row, Queue!queue
  <2>2. CASE Next
    BY <2>2, PublishQueue, StartupQueue, LoopQueue, OthersQueue DEF Next, Monitor
  <2> QED BY <2>1, <2>2
<1>3. Init => TypeOK /\ Follows
  BY InitTypes
<1>4. IInv /\ [Next]_vars => TypeOK' /\ Follows'
  BY TypeStep DEF IInv
<1>5. IInv <=> TypeOK /\ Follows /\ Handled
  BY DEF IInv
<1> QED
  BY <1>1, <1>2, <1>3, <1>4, <1>5, PTL DEF Spec, QueueSpec, Queue!Spec
=============================================================================
