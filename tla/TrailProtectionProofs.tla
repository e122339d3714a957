------------------------ MODULE TrailProtectionProofs ------------------------
(***************************************************************************)
(* The trailing stop of TrailProtection keeps its types, and the first     *)
(* arming fails closed, for any prices, decisions and number of faults.    *)
(*                                                                         *)
(* FirstArmFailsClosed speaks of the moment the cache equals the decision  *)
(* that counts.  What makes it inductive is what the cache alone tells     *)
(* (Guarded): an armed decision was settled with a stop, an exit or a halt *)
(* that stays, and the only step that takes the stop away works on a later *)
(* decision, one that differs (Behind).  A spent exit closed the position  *)
(* or halted (Spent), and the old stop is kept only where there is one     *)
(* (Keeps).                                                                *)
(***************************************************************************)
EXTENDS TrailProtection, SequenceTheorems, TLAPS

\* The decision in the cache was taken, and a different one after it.
Passed ==
    \E earlier, between \in 1..Len(decisions) :
      /\ earlier < between
      /\ decisions[earlier] = cache /\ decisions[between] # cache

\* The cache was taken from a decision before the one at work, which differs.
Behind ==
    cache # None =>
      /\ \E i \in 1..Len(decisions) : decisions[i] = cache
      /\ main # "idle" =>
           want # cache /\ \E i \in 1..Len(decisions) : i < job /\ decisions[i] = cache

Guarded ==
    open /\ cache # None /\ cache.arm /\ trail = None => Alarmed \/ Passed

Spent == sent # {} => ~open \/ Manual \in halts

Keeps ==
    /\ main = "recover" /\ failed.old => trail # None
    /\ main = "keep" => trail # None

IInv == TypeOK /\ Behind /\ Guarded /\ Spent /\ Keeps

-----------------------------------------------------------------------------
(***************************************************************************)
(* Types.                                                                  *)
(***************************************************************************)

\* The decision at work is one that was taken, and its stop has an identifier.
LEMMA AtWorkOn ==
    ASSUME TypeOK, main # "idle"
    PROVE  /\ job \in 1..Len(decisions) /\ job \in 1..MaxDecisions
           /\ want \in Decision
           /\ \A again \in BOOLEAN : NewId(again) \in Ids
<1>1. /\ decisions \in Seq(Decision) /\ Len(decisions) \in Nat /\ MaxDecisions \in Nat
      /\ job \in 0..Len(decisions) /\ job > 0 /\ Len(decisions) <= MaxDecisions
  BY LenProperties, TrailAssumption DEF TypeOK
<1>2. job \in 1..Len(decisions) /\ job \in 1..MaxDecisions
  BY <1>1
<1>3. want \in Decision
  BY <1>1, <1>2, ElementOfSeq DEF want
<1> QED BY <1>2, <1>3 DEF NewId, Ids, Decision

\* A halt that an operation of the position raises is one of the reasons.
LEMMA ReasonTypes ==
    /\ Manual \in Reasons /\ Stream \in Reasons
    /\ Replace("refused") \in Reasons /\ Replace("unknown") \in Reasons
    /\ \A id \in Ids : Unresolved(id) \in Reasons
BY DEF Manual, Stream, Replace, Unresolved, Reasons

\* A recorded stop that exists has an identifier.
LEMMA TrailType == ASSUME TypeOK, trail # None PROVE trail \in Ids
BY DEF TypeOK

LEMMA FaultType == ASSUME TypeOK, Fault PROVE faults' \in 0..MaxFaults
BY TrailAssumption DEF TypeOK, Fault

LEMMA IdleTypes ==
    ASSUME TypeOK, ToIdle
    PROVE  /\ main' = "idle" /\ job' = 0 /\ prior' = {} /\ failed' = NoFailure
           /\ failed' \in [kind : {"none", "refused", "unknown"}, old : BOOLEAN]
BY DEF ToIdle, NoFailure

\* A decision that is appended leaves those before it.
LEMMA Appended ==
    ASSUME TypeOK, Decide
    PROVE  /\ decisions' \in Seq(Decision) /\ Len(decisions') = Len(decisions) + 1
           /\ Len(decisions) \in Nat /\ Len(decisions') <= MaxDecisions
           /\ \A i \in 1..Len(decisions) : decisions'[i] = decisions[i]
<1>1. decisions \in Seq(Decision) /\ Len(decisions) \in Nat /\ MaxDecisions \in Nat
  BY LenProperties, TrailAssumption DEF TypeOK
<1>2. PICK d \in Decision : decisions' = Append(decisions, d)
  BY DEF Decide
<1> QED BY <1>1, <1>2, AppendProperties DEF Decide


\* The steps of the paper engine, the exchange and the reconcile.
LEMMA WorldTypes ==
    ASSUME TypeOK, World \/ ReconcileStep
    PROVE  TypeOK'
<1> USE DEF paper, exchange, ledger, sync
<1>1. CASE Decide
  <2>1. UNCHANGED <<exchange, ledger, sync, snap, faults>>
    BY <1>1 DEF Decide
  <2> QED BY <1>1, <2>1, Appended DEF TypeOK
<1>2. CASE Arrives
  BY <1>2 DEF Arrives, TypeOK
<1>3. CASE Closes
  BY <1>3 DEF Closes, TypeOK
<1>4. CASE StreamHalt
  BY <1>4, ReasonTypes DEF StreamHalt, TypeOK
<1>5. CASE Crash
  <2>1. working' \subseteq Ids
    BY <1>5, AtWorkOn DEF Crash, TypeOK, Placing
  <2>2. UNCHANGED <<decisions, transit, open, trail, halts, sent>>
    BY <1>5 DEF Crash
  <2> QED BY <1>5, <2>1, <2>2, IdleTypes, FaultType DEF Crash, TypeOK
<1>6. CASE ReadSnapshot
  BY <1>6 DEF ReadSnapshot, TypeOK
<1>7. CASE ApplySnapshot
  <2>1. snap \in SUBSET Ids
    BY <1>7 DEF ApplySnapshot, TypeOK
  <2>2. Strays(snap) \subseteq Ids
    BY <2>1 DEF Strays
  <2>3. working' \subseteq Ids /\ halts' \subseteq Reasons /\ faults' \in 0..MaxFaults
    BY <1>7, <2>2, ReasonTypes, FaultType DEF ApplySnapshot, TypeOK
  <2>4. UNCHANGED <<decisions, transit, open, trail, sent, cache, main, job, prior, failed>>
        /\ snap' = None
    BY <1>7 DEF ApplySnapshot
  <2> QED BY <2>3, <2>4 DEF TypeOK
<1> QED
  BY <1>1, <1>2, <1>3, <1>4, <1>5, <1>6, <1>7 DEF World, ReconcileStep

\* An exit that the sync starts.
LEMMA ExitTypes ==
    ASSUME TypeOK, main # "idle", NEW kind \in {"protective", "failsafe"},
           ExitStep(kind), ToIdle, UNCHANGED <<paper, transit, trail, snap>>
    PROVE  TypeOK'
<1> DEFINE id == <<kind, job>>
<1>1. id \in {"protective", "failsafe"} \X (1..MaxDecisions) /\ want \in Decision
  BY AtWorkOn
<1>2. sent' \in {sent, sent \cup {id}}
  BY DEF ExitStep
<1>3. cache' \in {cache, want}
  BY DEF ExitStep, Settle
<1>4. working' \subseteq working /\ open' \in {open, FALSE}
  BY DEF ExitStep
<1>5. halts' \in {halts, halts \cup {Manual}} \/ (trail # None /\ halts' = halts \cup {Unresolved(trail)})
  BY DEF ExitStep
<1>6. faults' = faults \/ Fault
  BY DEF ExitStep
<1> HIDE DEF id
<1>7. halts' \subseteq Reasons
  BY <1>5, ReasonTypes, TrailType DEF TypeOK
<1>8. sent' \subseteq {"protective", "failsafe"} \X (1..MaxDecisions)
  BY <1>1, <1>2 DEF TypeOK
<1>9. faults' \in 0..MaxFaults
  BY <1>6, FaultType DEF TypeOK
<1>10. /\ UNCHANGED <<decisions, transit, trail, snap>>
       /\ cache' \in Decision \cup {None} /\ working' \subseteq Ids /\ open' \in BOOLEAN
  BY <1>1, <1>3, <1>4 DEF TypeOK, paper
<1> QED
  BY <1>7, <1>8, <1>9, <1>10, IdleTypes DEF TypeOK

\* A step that ends in Finish changes neither the decisions nor the snapshot.
LEMMA FinishTypes ==
    ASSUME TypeOK, main # "idle", Finish, halts' \subseteq Reasons,
           working' \subseteq Ids, trail' \in Ids \cup {None}, faults' \in 0..MaxFaults,
           UNCHANGED <<paper, transit, open, sent, snap>>
    PROVE  TypeOK'
<1>1. cache' \in {cache, want} /\ ToIdle
  BY DEF Finish
<1> QED BY <1>1, AtWorkOn, IdleTypes DEF TypeOK, paper

\* Cancelling the recorded stop.
LEMMA CancelTypes ==
    ASSUME TypeOK, trail # None, NEW stops \in SUBSET Ids, NEW confirmed \in BOOLEAN,
           CancelOld(stops, confirmed)
    PROVE  /\ halts' \subseteq Reasons /\ working' \subseteq Ids
           /\ faults' \in 0..MaxFaults /\ halts \subseteq halts'
BY ReasonTypes, TrailType, FaultType DEF CancelOld, TypeOK

\* A placement that fails raises its halt and nothing else.
LEMMA FailTypes ==
    ASSUME TypeOK, NEW id \in Ids, Refused(id) \/ Unknown(id)
    PROVE  /\ halts' \subseteq Reasons /\ halts \subseteq halts'
           /\ transit' \subseteq Ids /\ faults' \in 0..MaxFaults
           /\ UNCHANGED <<working, trail>>
BY ReasonTypes, FaultType DEF Refused, Unknown, TypeOK

\* The sync, from the decision it reads to the update.
LEMMA QuoteTypes ==
    ASSUME TypeOK, Begin \/ Forget \/ Quote \/ QuoteFails \/ CrossedExit
    PROVE  TypeOK'
<1> USE DEF paper, exchange, ledger, sync
<1>1. CASE Begin
  <2>1. decisions \in Seq(Decision) /\ Len(decisions) \in Nat /\ Len(decisions) > 0
    BY <1>1, LenProperties, EmptySeq DEF Begin, TypeOK
  <2>2. job' \in 0..Len(decisions) /\ job' > 0 /\ main' \in {"quote", "update"}
        /\ prior' \subseteq Reasons
    BY <1>1, <2>1 DEF Begin, TypeOK
  <2>3. UNCHANGED <<paper, exchange, ledger, cache, failed, snap, faults>>
    BY <1>1 DEF Begin
  <2> QED BY <2>2, <2>3 DEF TypeOK
<1>2. CASE Forget
  BY <1>2 DEF Forget, TypeOK
<1>3. CASE Quote
  BY <1>3 DEF Quote, TypeOK
<1>4. CASE QuoteFails
  BY <1>4, IdleTypes DEF QuoteFails, TypeOK
<1>5. CASE CrossedExit
  BY <1>5, ExitTypes DEF CrossedExit
<1> QED BY <1>1, <1>2, <1>3, <1>4, <1>5

\* The sync, in update_trail.
LEMMA UpdateTypes ==
    ASSUME TypeOK, Unavailable \/ Disarm \/ Unchanged \/ Place \/ PlaceFails
    PROVE  TypeOK'
<1> USE DEF paper, exchange, ledger
<1>1. CASE Unavailable \/ Unchanged
  BY <1>1, FinishTypes DEF Unavailable, Unchanged, TypeOK
<1>2. CASE Disarm
  <2>1. main # "idle" /\ Finish /\ UNCHANGED <<paper, transit, open, sent, snap>>
    BY <1>2 DEF Disarm
  <2>2. CASE trail = None
    BY <1>2, <2>1, <2>2, FinishTypes DEF Disarm, TypeOK
  <2>3. CASE trail # None
    <3>1. PICK confirmed \in BOOLEAN :
             /\ CancelOld(working, confirmed)
             /\ trail' = IF confirmed THEN None ELSE trail
      BY <1>2, <2>3 DEF Disarm
    <3>2. working \in SUBSET Ids /\ trail' \in Ids \cup {None}
      BY <3>1 DEF TypeOK
    <3> QED BY <2>1, <2>3, <3>1, <3>2, CancelTypes, FinishTypes
  <2> QED BY <2>2, <2>3
<1>3. CASE Place
  <2> DEFINE id == NewId(FALSE)
  <2>1. main # "idle" /\ Placed(id) /\ Finish /\ UNCHANGED <<paper, open, sent, snap>>
    BY <1>3 DEF Place, Placing
  <2>2. id \in Ids
    BY <2>1, AtWorkOn
  <2> HIDE DEF id
  <2>3. trail' = id /\ UNCHANGED transit /\ working \cup {id} \in SUBSET Ids
    BY <2>1, <2>2 DEF Placed, TypeOK
  <2>4. halts' \subseteq Reasons /\ working' \subseteq Ids /\ faults' \in 0..MaxFaults
    <3>1. CASE trail = None
      BY <2>1, <2>3, <3>1 DEF Placed, TypeOK
    <3>2. CASE trail # None
      BY <2>1, <2>3, <3>2, CancelTypes DEF Placed
    <3> QED BY <3>1, <3>2
  <2> QED BY <2>1, <2>2, <2>3, <2>4, FinishTypes
<1>4. CASE PlaceFails
  <2> DEFINE id == NewId(FALSE)
  <2>1. PICK kind \in {"refused", "unknown"} :
           /\ IF kind = "refused" THEN Refused(id) ELSE Unknown(id)
           /\ failed' = [kind |-> kind, old |-> trail # None]
    BY <1>4 DEF PlaceFails
  <2>2. main # "idle" /\ main' = "recover" /\ UNCHANGED <<paper, open, sent, cache, job, prior, snap>>
    BY <1>4 DEF PlaceFails, Placing
  <2>3. id \in Ids
    BY <2>2, AtWorkOn
  <2>4. failed' \in [kind : {"none", "refused", "unknown"}, old : BOOLEAN]
    BY <2>1
  <2> HIDE DEF id
  <2>5. /\ halts' \subseteq Reasons /\ transit' \subseteq Ids /\ faults' \in 0..MaxFaults
        /\ UNCHANGED <<working, trail>>
    BY <2>1, <2>3, FailTypes
  <2> QED BY <2>2, <2>4, <2>5 DEF TypeOK
<1> QED BY <1>1, <1>2, <1>3, <1>4

\* The sync, after an update that failed.
LEMMA RecoverTypes ==
    ASSUME TypeOK, Recover \/ KeepOld \/ RetryConfirmed \/ RetryFails \/ Failsafe
    PROVE  TypeOK'
<1> USE DEF paper, exchange, ledger
<1>1. CASE Recover
  <2>1. main # "idle" /\ main' \in {"failsafe", "keep", "retry"} /\ failed' = NoFailure
        /\ UNCHANGED <<paper, exchange, ledger, cache, job, prior, snap, faults>>
    BY <1>1 DEF Recover
  <2>2. failed' \in [kind : {"none", "refused", "unknown"}, old : BOOLEAN]
    BY <2>1 DEF NoFailure
  <2> QED BY <2>1, <2>2 DEF TypeOK
<1>2. CASE KeepOld
  BY <1>2, FinishTypes DEF KeepOld, TypeOK
<1>3. CASE RetryConfirmed
  <2>1. /\ main # "idle" /\ ToIdle /\ cache' = want /\ trail' = NewId(TRUE)
        /\ working' = working \cup {NewId(TRUE)} /\ halts' \subseteq halts
        /\ UNCHANGED <<paper, transit, open, sent, snap, faults>>
    BY <1>3 DEF RetryConfirmed, Settle
  <2>2. NewId(TRUE) \in Ids /\ want \in Decision
    BY <2>1, AtWorkOn
  <2>3. /\ trail' \in Ids \cup {None} /\ working' \subseteq Ids /\ halts' \subseteq Reasons
        /\ cache' \in Decision \cup {None}
    BY <2>1, <2>2 DEF TypeOK
  <2>4. UNCHANGED <<decisions, transit, open, sent, snap, faults>>
    BY <2>1
  <2>5. /\ main' = "idle" /\ job' = 0 /\ prior' = {}
        /\ failed' \in [kind : {"none", "refused", "unknown"}, old : BOOLEAN]
    BY <2>1, IdleTypes
  <2> QED BY <2>3, <2>4, <2>5 DEF TypeOK
<1>4. CASE RetryFails
  <2> DEFINE id == NewId(TRUE)
  <2>1. main # "idle" /\ main' = "failsafe"
        /\ UNCHANGED <<paper, open, sent, cache, job, prior, failed, snap>>
    BY <1>4 DEF RetryFails
  <2>2. id \in Ids
    BY <2>1, AtWorkOn
  <2>3. UNCHANGED <<exchange, trail, halts, faults>> \/ Refused(id) \/ Unknown(id)
    BY <1>4 DEF RetryFails
  <2> HIDE DEF id
  <2>4. /\ halts' \subseteq Reasons /\ transit' \subseteq Ids /\ faults' \in 0..MaxFaults
        /\ UNCHANGED <<working, trail>>
    BY <2>2, <2>3, FailTypes DEF TypeOK
  <2> QED BY <2>1, <2>4 DEF TypeOK
<1>5. CASE Failsafe
  BY <1>5, ExitTypes DEF Failsafe
<1> QED BY <1>1, <1>2, <1>3, <1>4, <1>5

LEMMA TypeStep == ASSUME TypeOK, [Next]_vars PROVE TypeOK'
<1>1. CASE Next
  BY <1>1, WorldTypes, QuoteTypes, UpdateTypes, RecoverTypes DEF Next, SyncStep
<1>2. CASE UNCHANGED vars
  BY <1>2 DEF TypeOK, vars, paper, exchange, ledger, sync
<1> QED BY <1>1, <1>2

LEMMA InitTypes == ASSUME Init PROVE TypeOK
<1>1. decisions = <<>> /\ decisions \in Seq(Decision) /\ Len(decisions) = 0
  BY EmptySeq, LenProperties DEF Init
<1> QED BY <1>1, TrailAssumption DEF Init, TypeOK, NoFailure

(* Every variable of the trailing stop keeps its shape, whatever the paper engine
   decides and whatever is refused, lost or restarted: the stop recorded is always one
   the sync named, and no update works without the row it read. *)
THEOREM TrailTypes == Spec => []TypeOK
<1>1. Init => TypeOK
  BY InitTypes
<1>2. TypeOK /\ [Next]_vars => TypeOK'
  BY TypeStep
<1> QED BY <1>1, <1>2, PTL DEF Spec

-----------------------------------------------------------------------------
(***************************************************************************)
(* The first arming fails closed.                                          *)
(***************************************************************************)

\* Steps that take no decision and leave the sync where it is.
LEMMA CacheKept ==
    ASSUME TypeOK, Behind, UNCHANGED <<decisions, cache, job>>, main' = "idle" => main = "idle",
           main = "idle" => main' = "idle"
    PROVE  Behind' /\ (Passed => Passed')
BY DEF Behind, Passed, want

\* Where the sync ends, the cache holds what it held, the decision at work, or nothing.
LEMMA CacheSettled ==
    ASSUME TypeOK, Behind, main # "idle", main' = "idle", UNCHANGED decisions,
           cache' \in {cache, want, None}
    PROVE  Behind'
<1>1. job \in 1..Len(decisions)
  BY AtWorkOn
<1>2. CASE cache' = cache
  BY <1>2 DEF Behind
<1>3. CASE cache' = want
  BY <1>1, <1>3 DEF Behind, want
<1>4. CASE cache' = None
  BY <1>4 DEF Behind
<1> QED BY <1>2, <1>3, <1>4

\* Halts of the position are not among the others.
LEMMA Distinct ==
    /\ Manual # Stream /\ \A kind \in {"refused", "unknown"} : Replace(kind) # Stream
    /\ \A id : Unresolved(id) # Manual
    /\ \A kind \in {"refused", "unknown"} : \A id : Unresolved(id) # Replace(kind)
    /\ \A kind : Replace(kind) # Manual
BY DEF Manual, Stream, Replace, Unresolved

\* A later decision takes nothing back.
LEMMA DecideSafe ==
    ASSUME IInv, Decide
    PROVE  Behind' /\ Guarded' /\ Spent' /\ Keeps'
<1>1. /\ Len(decisions') = Len(decisions) + 1 /\ Len(decisions) \in Nat
      /\ \A i \in 1..Len(decisions) : decisions'[i] = decisions[i]
  BY Appended DEF IInv
<1>2. UNCHANGED <<open, trail, halts, sent, cache, main, job, prior, failed>>
  BY DEF Decide, ledger, sync
<1>3. main # "idle" => job \in 1..Len(decisions)
  BY AtWorkOn DEF IInv
<1>4. Behind'
  <2> SUFFICES ASSUME cache # None PROVE Behind'
    BY <1>2 DEF Behind
  <2>1. PICK i \in 1..Len(decisions) : decisions[i] = cache
    BY DEF IInv, Behind
  <2>2. i \in 1..Len(decisions') /\ decisions'[i] = cache'
    BY <1>1, <1>2, <2>1
  <2>3. ASSUME main # "idle"
        PROVE  /\ want' # cache'
               /\ \E k \in 1..Len(decisions') : k < job' /\ decisions'[k] = cache'
    <3>1. want # cache /\ want' = want
      BY <1>1, <1>2, <1>3, <2>3 DEF IInv, Behind, want
    <3>2. PICK k \in 1..Len(decisions) : k < job /\ decisions[k] = cache
      BY <2>3 DEF IInv, Behind
    <3>3. k \in 1..Len(decisions') /\ k < job' /\ decisions'[k] = cache'
      BY <1>1, <1>2, <3>2
    <3> QED BY <1>2, <3>1, <3>3
  <2> QED BY <1>2, <2>2, <2>3 DEF Behind
<1>5. Passed => Passed'
  <2> SUFFICES ASSUME Passed PROVE Passed'
    OBVIOUS
  <2>1. PICK i \in 1..Len(decisions), j \in 1..Len(decisions) :
           i < j /\ decisions[i] = cache /\ decisions[j] # cache
    BY DEF Passed
  <2>2. i \in 1..Len(decisions') /\ j \in 1..Len(decisions')
        /\ decisions'[i] = cache' /\ decisions'[j] # cache'
    BY <1>1, <1>2, <2>1
  <2> QED BY <2>1, <2>2 DEF Passed
<1> QED
  BY <1>2, <1>4, <1>5 DEF IInv, Guarded, Alarmed, Spent, Keeps

\* A halt of the position outlasts a reconcile while it has no trailing stop.
LEMMA SweepSafe ==
    ASSUME IInv, ApplySnapshot
    PROVE  Behind' /\ Guarded' /\ Spent' /\ Keeps'
<1>1. UNCHANGED <<decisions, open, trail, sent, cache, main, job, prior, failed>>
  BY DEF ApplySnapshot, paper, sync
<1>2. halts \ Resolved(snap) \subseteq halts'
  BY DEF ApplySnapshot
<1>3. Manual \notin Resolved(snap)
  BY Distinct DEF Resolved
<1>4. open /\ trail = None => Replace("refused") \notin Resolved(snap)
                              /\ Replace("unknown") \notin Resolved(snap)
  <2>1. None \notin snap
    BY NoneAssumption DEF IInv, TypeOK, ApplySnapshot
  <2> QED BY <2>1, Distinct DEF Resolved
<1>5. open /\ trail = None /\ Alarmed => Alarmed'
  BY <1>2, <1>3, <1>4 DEF Alarmed
<1>6. Behind' /\ (Passed => Passed')
  BY <1>1, CacheKept DEF IInv
<1> QED
  BY <1>1, <1>2, <1>3, <1>5, <1>6 DEF IInv, Guarded, Spent, Keeps

\* The rest of the world: the position may close, the process restart.
LEMMA WorldSafe ==
    ASSUME IInv, World \/ ReconcileStep
    PROVE  Behind' /\ Guarded' /\ Spent' /\ Keeps'
<1>1. CASE Arrives \/ Closes \/ StreamHalt \/ ReadSnapshot
  <2>1. UNCHANGED <<decisions, trail, sent, cache, main, job, prior, failed>>
    BY <1>1 DEF Arrives, Closes, StreamHalt, ReadSnapshot, paper, ledger, sync
  <2>2. open' => open
    BY <1>1 DEF Arrives, Closes, StreamHalt, ReadSnapshot, ledger
  <2>3. halts \ {Stream} \subseteq halts'
    BY <1>1 DEF Arrives, Closes, StreamHalt, ReadSnapshot, ledger
  <2>4. (Alarmed => Alarmed') /\ (Manual \in halts => Manual \in halts')
    BY <2>3, Distinct DEF Alarmed
  <2>5. open' \in BOOLEAN /\ open \in BOOLEAN
    BY <1>1, WorldTypes DEF IInv, TypeOK, World, ReconcileStep
  <2>6. Behind' /\ (Passed => Passed')
    BY <2>1, CacheKept DEF IInv
  <2> QED BY <2>1, <2>2, <2>4, <2>5, <2>6 DEF IInv, Guarded, Spent, Keeps
<1>2. CASE Crash
  <2>1. cache' = None /\ main' = "idle" /\ UNCHANGED <<open, halts, sent>>
    BY <1>2 DEF Crash, ToIdle, ledger
  <2> QED BY <2>1 DEF IInv, Behind, Guarded, Spent, Keeps
<1> QED
  BY <1>1, <1>2, DecideSafe, SweepSafe DEF World, ReconcileStep

\* A market exit closes the position, halts, or was sent before and did one of these.
LEMMA ExitSafe ==
    ASSUME IInv, main # "idle", NEW kind, ExitStep(kind), ToIdle,
           UNCHANGED <<paper, transit, trail, snap>>
    PROVE  Behind' /\ Guarded' /\ Spent' /\ Keeps'
<1>1. cache' \in {cache, want} /\ main' = "idle" /\ UNCHANGED <<decisions, trail>>
  BY DEF ExitStep, Settle, ToIdle, paper
<1>2. Behind'
  BY <1>1, CacheSettled DEF IInv
<1>3. ~open' \/ Manual \in halts'
  <2>1. <<kind, job>> \in sent => ~open \/ Manual \in halts
    BY DEF IInv, Spent
  <2> QED BY <2>1 DEF ExitStep
<1> QED
  BY <1>1, <1>2, <1>3 DEF Guarded, Spent, Keeps, Alarmed

\* An update that ends: its stop is there, or the cache is left behind, or disarmed.
LEMMA FinishSafe ==
    ASSUME IInv, main # "idle", Finish, UNCHANGED <<decisions, open, sent>>,
           halts \subseteq halts', TypeOK',
           open /\ trail' = None => ~want.arm /\ (trail # None \/ UNCHANGED <<trail, halts>>)
    PROVE  Behind' /\ Guarded' /\ Spent' /\ Keeps'
<1>1. cache' \in {cache, want} /\ main' = "idle"
  BY DEF Finish, ToIdle
<1>2. Behind'
  BY <1>1, CacheSettled DEF IInv
<1>3. Spent' /\ Keeps'
  BY <1>1 DEF IInv, Spent, Keeps
<1>4. ASSUME open', cache' # None, cache'.arm, trail' = None PROVE Alarmed' \/ Passed'
  <2>1. ~want.arm /\ cache' = cache
    BY <1>1, <1>4
  <2>2. PICK i \in 1..Len(decisions) : i < job /\ decisions[i] = cache
    BY <1>4, <2>1 DEF IInv, Behind
  <2>3. job \in 1..Len(decisions) /\ want # cache
    BY <1>4, <2>1, AtWorkOn DEF IInv, Behind
  <2>4. Passed
    BY <2>2, <2>3 DEF Passed, want
  <2> QED BY <2>1, <2>4 DEF Passed
<1> QED BY <1>2, <1>3, <1>4 DEF Guarded

\* Steps on the way: the cache stays, and halts only come.
LEMMA OnTheWay ==
    ASSUME IInv, main # "idle", main' # "idle", halts \subseteq halts',
           UNCHANGED <<decisions, open, trail, sent, cache, job>>
    PROVE  Behind' /\ Guarded' /\ Spent'
<1>1. Behind' /\ (Passed => Passed')
  BY CacheKept DEF IInv
<1> QED BY <1>1 DEF IInv, Guarded, Spent, Alarmed

LEMMA QuoteSafe ==
    ASSUME IInv, Begin \/ Forget \/ Quote \/ QuoteFails \/ CrossedExit
    PROVE  Behind' /\ Guarded' /\ Spent' /\ Keeps'
<1> USE DEF paper, exchange, ledger, sync
<1>1. CASE Begin
  <2>1. UNCHANGED <<decisions, open, trail, halts, sent, cache, failed>>
        /\ main' \in {"quote", "update"} /\ job' = Len(decisions) /\ cache # Latest
    BY <1>1 DEF Begin, Differs
  <2>2. Len(decisions) \in Nat
    BY LenProperties DEF IInv, TypeOK
  <2>3. Behind'
    <3> SUFFICES ASSUME cache # None PROVE Behind'
      BY <2>1 DEF Behind
    <3>1. PICK i \in 1..Len(decisions) : decisions[i] = cache
      BY DEF IInv, Behind
    <3>2. want' = Latest
      BY <2>1 DEF want, Latest
    <3>3. i < Len(decisions)
      BY <2>1, <2>2, <3>1 DEF Latest
    <3> QED BY <2>1, <3>1, <3>2, <3>3 DEF Behind
  <2> QED BY <2>1, <2>3 DEF IInv, Guarded, Passed, Alarmed, Spent, Keeps
<1>2. CASE Forget
  BY <1>2 DEF Forget, IInv, Behind, Guarded, Spent, Keeps
<1>3. CASE Quote
  BY <1>3, OnTheWay DEF Quote, Keeps
<1>4. CASE QuoteFails
  <2>1. main # "idle" /\ main' = "idle"
        /\ UNCHANGED <<decisions, open, trail, halts, sent, cache>>
    BY <1>4 DEF QuoteFails, ToIdle
  <2>2. Behind'
    BY <2>1, CacheSettled DEF IInv
  <2> QED BY <2>1, <2>2 DEF IInv, Guarded, Passed, Alarmed, Spent, Keeps
<1>5. CASE CrossedExit
  BY <1>5, ExitSafe DEF CrossedExit
<1> QED BY <1>1, <1>2, <1>3, <1>4, <1>5

LEMMA UpdateSafe ==
    ASSUME IInv, Unavailable \/ Disarm \/ Unchanged \/ Place \/ PlaceFails
    PROVE  Behind' /\ Guarded' /\ Spent' /\ Keeps'
<1> USE DEF paper, exchange, ledger
<1>1. TypeOK /\ TypeOK' /\ main # "idle"
  BY UpdateTypes DEF IInv, Unavailable, Disarm, Unchanged, Place, PlaceFails, Placing
<1>2. CASE Unavailable \/ Unchanged
  BY <1>1, <1>2, FinishSafe DEF Unavailable, Unchanged, AtWork
<1>3. CASE Disarm
  <2>1. Finish /\ ~want.arm /\ UNCHANGED <<decisions, open, sent>>
    BY <1>3 DEF Disarm
  <2>2. halts \subseteq halts' /\ (trail # None \/ UNCHANGED <<trail, halts>>)
    BY <1>3 DEF Disarm, CancelOld
  <2> QED BY <1>1, <2>1, <2>2, FinishSafe
<1>4. CASE Place
  <2>1. Placed(NewId(FALSE)) /\ Finish /\ UNCHANGED <<decisions, open, sent>>
    BY <1>4 DEF Place
  <2>2. NewId(FALSE) \in Ids
    BY <1>1, AtWorkOn
  <2>3. trail' # None
    BY <2>1, <2>2, NoneAssumption DEF Placed
  <2>4. halts \subseteq halts'
    BY <2>1 DEF Placed, CancelOld
  <2> QED BY <1>1, <2>1, <2>3, <2>4, FinishSafe
<1>5. CASE PlaceFails
  <2>1. PICK kind \in {"refused", "unknown"} :
           /\ IF kind = "refused" THEN Refused(NewId(FALSE)) ELSE Unknown(NewId(FALSE))
           /\ failed' = [kind |-> kind, old |-> trail # None]
    BY <1>5 DEF PlaceFails
  <2>2. main' = "recover" /\ UNCHANGED <<decisions, open, sent, cache, job>>
    BY <1>5 DEF PlaceFails
  <2>3. halts \subseteq halts' /\ UNCHANGED trail
    BY <2>1 DEF Refused, Unknown
  <2>4. failed'.old = (trail # None)
    BY <2>1
  <2>5. Keeps'
    BY <2>2, <2>3, <2>4 DEF Keeps
  <2> QED BY <1>1, <2>2, <2>3, <2>5, OnTheWay
<1> QED BY <1>2, <1>3, <1>4, <1>5

LEMMA RecoverSafe ==
    ASSUME IInv, Recover \/ KeepOld \/ RetryConfirmed \/ RetryFails \/ Failsafe
    PROVE  Behind' /\ Guarded' /\ Spent' /\ Keeps'
<1> USE DEF paper, exchange, ledger
<1>1. TypeOK /\ TypeOK' /\ main # "idle"
  BY RecoverTypes DEF IInv, Recover, KeepOld, RetryConfirmed, RetryFails, Failsafe
<1>2. CASE Recover
  <2>1. main' \in {"failsafe", "keep", "retry"} /\ (main' = "keep" => failed.old)
        /\ UNCHANGED <<decisions, open, trail, halts, sent, cache, job>> /\ main = "recover"
    BY <1>2 DEF Recover
  <2>2. Keeps'
    BY <2>1 DEF IInv, Keeps
  <2> QED BY <1>1, <2>1, <2>2, OnTheWay
<1>3. CASE KeepOld
  BY <1>1, <1>3, FinishSafe DEF KeepOld, IInv, Keeps
<1>4. CASE RetryConfirmed
  <2>1. /\ cache' = want /\ main' = "idle" /\ trail' = NewId(TRUE)
        /\ halts' = halts \ {Replace("refused")} /\ UNCHANGED <<decisions, open, sent>>
    BY <1>4 DEF RetryConfirmed, Settle, ToIdle
  <2>2. trail' # None
    BY <1>1, <2>1, AtWorkOn, NoneAssumption
  <2>3. Behind'
    BY <1>1, <2>1, CacheSettled DEF IInv
  <2>4. Manual \in halts => Manual \in halts'
    BY <2>1, Distinct
  <2> QED BY <2>1, <2>2, <2>3, <2>4 DEF IInv, Guarded, Spent, Keeps
<1>5. CASE RetryFails
  <2>1. main' = "failsafe" /\ UNCHANGED <<decisions, open, sent, cache, job>>
    BY <1>5 DEF RetryFails
  <2>2. halts \subseteq halts' /\ UNCHANGED trail
    BY <1>5 DEF RetryFails, Refused, Unknown
  <2> QED BY <1>1, <2>1, <2>2, OnTheWay DEF Keeps
<1>6. CASE Failsafe
  BY <1>1, <1>6, ExitSafe DEF Failsafe
<1> QED BY <1>2, <1>3, <1>4, <1>5, <1>6

\* What is guarded says what a settled decision needs.
LEMMA Closed == ASSUME IInv PROVE FirstArmFailsClosed
<1> SUFFICES ASSUME decisions # <<>>, Settled, Latest.arm, trail = None
             PROVE  Alarmed \/ Returned
  BY DEF FirstArmFailsClosed
<1>1. decisions \in Seq(Decision) /\ Len(decisions) \in Nat /\ Len(decisions) > 0
  BY LenProperties, EmptySeq DEF IInv, TypeOK
<1>2. Latest \in Decision
  BY <1>1, ElementOfSeq DEF Latest
<1>3. Alarmed \/ Passed
  BY <1>2, NoneAssumption DEF IInv, Guarded, Settled
<1>4. DOMAIN decisions = 1..Len(decisions)
  BY <1>1, LenProperties
<1> QED BY <1>3, <1>4 DEF Passed, Returned, Settled

(* Once the sync takes an armed decision for settled, an open position has a trailing
   stop of its own or a halt that stays: whatever the exchange refuses or leaves
   unanswered, whatever closes, restarts or sweeps meanwhile, and for any number of
   decisions, prices and faults; a decision that returns is excepted. *)
THEOREM FirstArmCloses == Spec => []FirstArmFailsClosed
<1>1. Init => IInv
  BY InitTypes DEF Init, IInv, Behind, Guarded, Spent, Keeps
<1>2. IInv /\ [Next]_vars => IInv'
  <2> SUFFICES ASSUME IInv, [Next]_vars PROVE IInv'
    OBVIOUS
  <2>1. TypeOK'
    BY TypeStep DEF IInv
  <2>2. CASE Next
    BY <2>1, <2>2, WorldSafe, QuoteSafe, UpdateSafe, RecoverSafe DEF IInv, Next, SyncStep
  <2>3. CASE UNCHANGED vars
    BY <2>1, <2>3, CacheKept
       DEF IInv, Guarded, Alarmed, Spent, Keeps, vars, paper, exchange, ledger, sync
  <2> QED BY <2>2, <2>3
<1>3. IInv => FirstArmFailsClosed
  BY Closed
<1> QED BY <1>1, <1>2, <1>3, PTL DEF Spec
=============================================================================
