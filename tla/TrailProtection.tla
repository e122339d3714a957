--------------------------- MODULE TrailProtection ---------------------------
(***************************************************************************)
(* The trailing stop of one position: the paper engine's protection row,   *)
(* _sync_shared_protection_once and _recover_failed_trail_update of        *)
(* service.py, update_trail of oms.py, and the reconcile that sweeps stops *)
(* and clears halts meanwhile.                                             *)
(*                                                                         *)
(* The lock lets nothing but the exchange interleave with update_trail, so *)
(* it is one step; the quotes, the wait for the lock and the exits between *)
(* are steps of their own.  Decision d of the paper engine is at           *)
(* decisions[d]; its number stands for decision_time.                      *)
(***************************************************************************)
EXTENDS Naturals, Sequences

CONSTANTS
    Prices,        \* prices of trailing stops
    MaxDecisions,  \* bound: protection rows written
    MaxFaults,     \* bound: requests refused or unanswered, and crashes
    None

ASSUME TrailAssumption ==
    /\ Prices # {} /\ MaxDecisions \in Nat /\ MaxFaults \in Nat

VARIABLES
    decisions,  \* waterfall_protection_state over time: [price, arm], last counts
    open,       \* the position is open (its structure stop is not modelled)
    trail,      \* trail_client_algo_id, or None
    working,    \* trailing stops working at the exchange
    transit,    \* placements without an answer that may still arrive
    halts,      \* reasons in safe_halt_reason
    sent,       \* exit intents saved
    cache,      \* _protection_cache: the decision last settled, or None
    main,       \* where the sync is
    job,        \* number of the decision it works on
    prior,      \* safe_halt_reason before update_trail
    failed,     \* what update_trail said of its failure
    snap,       \* reconcile: stops in the snapshot being applied, or None
    faults

paper == decisions
exchange == <<working, transit>>
ledger == <<open, trail, halts, sent>>
sync == <<cache, main, job, prior, failed>>
vars == <<paper, exchange, ledger, sync, snap, faults>>

Decision == [price : Prices, arm : BOOLEAN]
\* bh-tr ids: decision, first placement or its retry one millisecond later.
Ids == [dec : 1..MaxDecisions, again : BOOLEAN, price : Prices]
ASSUME NoneAssumption == None \notin Decision \cup Ids

Reasons == {<<"replace", "refused">>, <<"replace", "unknown">>, <<"stream", None>>,
            <<"manual", None>>} \cup ({"cancel"} \X Ids)
Manual == <<"manual", None>>
Stream == <<"stream", None>>
Unresolved(id) == <<"cancel", id>>
Replace(kind) == <<"replace", kind>>
NoFailure == [kind |-> "none", old |-> FALSE]

want == decisions[job]
Latest == decisions[Len(decisions)]
Fault == faults < MaxFaults /\ faults' = faults + 1

-----------------------------------------------------------------------------
(***************************************************************************)
(* The paper engine, the exchange and the other tasks.                     *)
(***************************************************************************)

\* live_protection_state after a closed candle.
Decide ==
    /\ Len(decisions) < MaxDecisions /\ open
    /\ \E d \in Decision : decisions' = Append(decisions, d)
    /\ UNCHANGED <<exchange, ledger, sync, snap, faults>>

Arrives ==
    \E id \in transit :
      /\ transit' = transit \ {id}
      /\ working' \in {working \cup {id}, working}
      /\ UNCHANGED <<paper, ledger, sync, snap, faults>>

\* A stop, an exit signal or a person closes the position, the recorded stop
\* triggers or is cancelled, and the program is told (oms: _apply_exit_fill).
Closes ==
    /\ open
    /\ open' = FALSE
    /\ working' = working \ {trail}
    /\ UNCHANGED <<paper, transit, trail, halts, sent, sync, snap, faults>>

\* The private stream's halt, raised and cleared outside the lock.
StreamHalt ==
    /\ halts' = IF Stream \in halts THEN halts \ {Stream} ELSE halts \cup {Stream}
    /\ UNCHANGED <<paper, exchange, open, trail, sent, sync, snap, faults>>

-----------------------------------------------------------------------------
(***************************************************************************)
(* The reconcile: orphan stops are cancelled, proven halts are cleared     *)
(* (reconcile, recoverable_halts_after_reconcile).                         *)
(***************************************************************************)
ReadSnapshot ==
    /\ snap = None
    /\ snap' = working
    /\ UNCHANGED <<paper, exchange, ledger, sync, faults>>

Resolved(stops) ==
    {Unresolved(id) : id \in Ids \ stops}
    \cup (IF ~open \/ trail \in stops
          THEN {Replace("refused"), Replace("unknown")} ELSE {})

\* (mutant: while a position is open every stop of its symbol is its own)
StraysOfTheGone(stops) == IF open THEN {} ELSE stops
Strays(stops) == stops \ (IF open THEN {trail} ELSE {})

ApplySnapshot ==
    /\ snap # None
    /\ LET orphans == Strays(snap)
       IN \/ /\ working' = working \ orphans
             /\ halts' = halts \ Resolved(snap)
             /\ UNCHANGED faults
          \/ /\ orphans # {} /\ Fault
             /\ \E lost \in SUBSET orphans, id \in orphans :
                  /\ working' = working \ lost
                  /\ halts' = (halts \ Resolved(snap)) \cup {Unresolved(id)}
    /\ snap' = None
    /\ UNCHANGED <<paper, transit, open, trail, sent, sync>>

-----------------------------------------------------------------------------
(***************************************************************************)
(* _sync_shared_protection_once.                                           *)
(***************************************************************************)
ToIdle == main' = "idle" /\ job' = 0 /\ prior' = {} /\ failed' = NoFailure
Settle == cache' = want

\* (mutant: a row that only arms or disarms the same price is not noticed)
OtherPrice == cache # None => cache.price # Latest.price
\* The row of the held position differs from the one settled last.
Differs == cache # Latest

Begin ==
    /\ main = "idle" /\ open /\ decisions # <<>> /\ Differs
    /\ job' = Len(decisions)
    /\ IF Latest.arm THEN main' = "quote" /\ UNCHANGED prior
       ELSE main' = "update" /\ prior' = halts
    /\ UNCHANGED <<paper, exchange, ledger, cache, failed, snap, faults>>

\* The cache forgets a position that is gone.
Forget ==
    /\ main = "idle" /\ ~open /\ cache # None
    /\ cache' = None
    /\ UNCHANGED <<paper, exchange, ledger, main, job, prior, failed, snap,
                   faults>>

Quote ==
    /\ main = "quote"
    /\ \/ main' = "exit" /\ UNCHANGED prior      \* the ask has crossed the price
       \/ main' = "update" /\ prior' = halts     \* it is below
    /\ UNCHANGED <<paper, exchange, ledger, cache, job, failed, snap, faults>>

\* (mutant: a row without a quote is skipped for good)
QuoteFailsSettled ==
    /\ main = "quote"
    /\ Settle
    /\ ToIdle
    /\ UNCHANGED <<paper, exchange, ledger, snap, faults>>
QuoteFails ==
    /\ main = "quote"
    /\ ToIdle
    /\ UNCHANGED <<paper, exchange, ledger, cache, snap, faults>>

\* A market exit: kind and decision make its id.  Its status counts as handled
\* unless the call raised.
ExitStep(kind) ==
    LET id == <<kind, job>>
    IN \/ /\ open /\ id \notin sent          \* executed
          /\ sent' = sent \cup {id}
          /\ open' = FALSE
          /\ working' = working \ {trail}
          /\ Settle
          /\ UNCHANGED <<halts, faults>>
       \/ /\ open /\ id \notin sent /\ Fault \* executed, a stop stays behind
          /\ trail # None
          /\ sent' = sent \cup {id}
          /\ open' = FALSE
          /\ halts' = halts \cup {Unresolved(trail)}
          /\ Settle
          /\ UNCHANGED working
       \/ /\ open /\ id \notin sent /\ Fault \* refused or unknown
          /\ sent' = sent \cup {id}
          /\ halts' = halts \cup {Manual}
          /\ Settle
          /\ UNCHANGED <<open, working>>
       \/ /\ ~open \/ id \in sent            \* duplicate, or nothing to close
          /\ sent' = sent \cup {id}
          /\ Settle
          /\ UNCHANGED <<open, working, halts, faults>>
       \/ /\ Fault                           \* raised: execution_error
          /\ sent' \in {sent, sent \cup {id}}
          /\ halts' = halts \cup {Manual}
          /\ cache' = IF main = "failsafe" /\ halts' = prior THEN want ELSE cache
          /\ UNCHANGED <<open, working>>

CrossedExit ==
    /\ main = "exit"
    /\ ExitStep("protective")
    /\ ToIdle
    /\ UNCHANGED <<paper, transit, trail, snap>>

-----------------------------------------------------------------------------
(***************************************************************************)
(* update_trail.                                                           *)
(***************************************************************************)

\* Cancelling the recorded stop: confirmed, or unresolved and gone or not.
CancelOld(stops, confirmed) ==
    IF confirmed
    THEN working' = stops \ {trail} /\ UNCHANGED <<halts, faults>>
    ELSE /\ Fault
         /\ working' \in {stops, stops \ {trail}}
         /\ halts' = halts \cup {Unresolved(trail)}

\* After the update: settled unless the text of the halts changed.
Finish ==
    /\ cache' = IF halts' = prior THEN want ELSE cache
    /\ ToIdle

Unavailable ==
    /\ main = "update" /\ ~open
    /\ UNCHANGED halts
    /\ Finish
    /\ UNCHANGED <<paper, exchange, open, trail, sent, snap, faults>>

Disarm ==
    /\ main = "update" /\ open /\ ~want.arm
    /\ IF trail = None THEN UNCHANGED <<working, halts, trail, faults>>
       ELSE \E confirmed \in BOOLEAN :
              /\ CancelOld(working, confirmed)
              /\ trail' = IF confirmed THEN None ELSE trail
    /\ Finish
    /\ UNCHANGED <<paper, transit, open, sent, snap>>

AtWork == trail # None /\ trail.price = want.price

Unchanged ==
    /\ main = "update" /\ open /\ want.arm /\ AtWork
    /\ UNCHANGED halts
    /\ Finish
    /\ UNCHANGED <<paper, exchange, open, trail, sent, snap, faults>>

\* place_algo under the id of this decision, and the cancel of the old stop.
Placed(id) ==
    /\ id \notin working
    /\ trail' = id
    /\ IF trail = None
       THEN working' = working \cup {id} /\ UNCHANGED <<halts, faults>>
       ELSE \E confirmed \in BOOLEAN : CancelOld(working \cup {id}, confirmed)
    /\ UNCHANGED transit

Refused(id) ==
    /\ IF id \in working THEN UNCHANGED faults ELSE Fault
    /\ halts' = halts \cup {Replace("refused")}
    /\ UNCHANGED <<working, transit, trail>>

\* No answer, and three queries that do not find it: lost, or on its way.
Unknown(id) ==
    /\ Fault
    /\ transit' \in {transit, transit \cup {id}}
    /\ halts' = halts \cup {Replace("unknown")}
    /\ UNCHANGED <<working, trail>>

\* (mutant: the identifier of the decision after this one)
NextId(again) == [dec |-> job + 1, again |-> again, price |-> want.price]
NewId(again) == [dec |-> job, again |-> again, price |-> want.price]
Placing == main = "update" /\ open /\ want.arm /\ ~AtWork

Place ==
    /\ Placing
    /\ Placed(NewId(FALSE))
    /\ Finish
    /\ UNCHANGED <<paper, open, sent, snap>>

PlaceFails ==
    /\ Placing
    /\ \E kind \in {"refused", "unknown"} :
         /\ IF kind = "refused" THEN Refused(NewId(FALSE)) ELSE Unknown(NewId(FALSE))
         /\ failed' = [kind |-> kind, old |-> trail # None]
    /\ main' = "recover"
    /\ UNCHANGED <<paper, open, sent, cache, job, prior, snap>>

-----------------------------------------------------------------------------
(***************************************************************************)
(* _recover_failed_trail_update: a fresh quote, or the one of before.      *)
(***************************************************************************)
Recover ==
    /\ main = "recover"
    /\ \E crossed \in BOOLEAN :
         main' = IF crossed THEN "failsafe"
                 ELSE IF failed.old THEN "keep"
                 ELSE IF failed.kind = "refused" THEN "retry" ELSE "failsafe"
    /\ failed' = NoFailure
    /\ UNCHANGED <<paper, exchange, ledger, cache, job, prior, snap, faults>>

\* The old stop stays: the update is settled if its halt was there already.
KeepOld ==
    /\ main = "keep"
    /\ UNCHANGED halts
    /\ Finish
    /\ UNCHANGED <<paper, exchange, open, trail, sent, snap, faults>>

\* Confirmed at the second try, under another id: only its own halt goes.
RetryConfirmed ==
    /\ main = "retry" /\ open /\ NewId(TRUE) \notin working
    /\ trail' = NewId(TRUE)
    /\ working' = working \cup {NewId(TRUE)}
    /\ halts' = halts \ {Replace("refused")}
    /\ Settle
    /\ ToIdle
    /\ UNCHANGED <<paper, transit, open, sent, snap, faults>>

RetryFails ==
    /\ main = "retry"
    /\ \/ ~open /\ UNCHANGED <<exchange, trail, halts, faults>>
       \/ open /\ (Refused(NewId(TRUE)) \/ Unknown(NewId(TRUE)))
    /\ main' = "failsafe"
    /\ UNCHANGED <<paper, open, sent, cache, job, prior, failed, snap>>

Failsafe ==
    /\ main = "failsafe"
    /\ ExitStep("failsafe")
    /\ ToIdle
    /\ UNCHANGED <<paper, transit, trail, snap>>

\* The cache is memory; an order sent just before is not.
Crash ==
    /\ Fault
    /\ working' \in {working} \cup
         (IF Placing \/ (main = "retry" /\ open)
          THEN {working \cup {NewId(main = "retry")}} ELSE {})
    /\ ToIdle
    /\ cache' = None /\ snap' = None
    /\ UNCHANGED <<paper, transit, ledger>>

-----------------------------------------------------------------------------
Init ==
    /\ decisions = <<>> /\ open = TRUE /\ trail = None
    /\ working = {} /\ transit = {} /\ halts = {} /\ sent = {}
    /\ cache = None /\ main = "idle" /\ job = 0 /\ prior = {}
    /\ failed = NoFailure /\ snap = None /\ faults = 0

SyncStep ==
    \/ Begin \/ Forget \/ Quote \/ QuoteFails \/ CrossedExit
    \/ Unavailable \/ Disarm \/ Unchanged \/ Place \/ PlaceFails
    \/ Recover \/ KeepOld \/ RetryConfirmed \/ RetryFails \/ Failsafe
ReconcileStep == ReadSnapshot \/ ApplySnapshot
World == Decide \/ Arrives \/ Closes \/ StreamHalt \/ Crash

Next == SyncStep \/ ReconcileStep \/ World

Spec == Init /\ [][Next]_vars

\* The loop and the reconcile go on; a quote asked for ever is answered.
LiveSpec ==
    Spec /\ WF_vars(SyncStep) /\ WF_vars(ReconcileStep) /\ SF_vars(Quote)

-----------------------------------------------------------------------------
(***************************************************************************)
(* Properties.                                                             *)
(***************************************************************************)
TypeOK ==
    /\ decisions \in Seq(Decision) /\ Len(decisions) <= MaxDecisions
    /\ open \in BOOLEAN /\ trail \in Ids \cup {None}
    /\ working \subseteq Ids /\ transit \subseteq Ids /\ halts \subseteq Reasons
    /\ sent \subseteq {"protective", "failsafe"} \X (1..MaxDecisions)
    /\ cache \in Decision \cup {None}
    /\ main \in {"idle", "quote", "exit", "update", "recover", "keep", "retry",
                 "failsafe"}
    /\ job \in 0..Len(decisions) /\ (main # "idle" => job > 0)
    /\ prior \subseteq Reasons
    /\ failed \in [kind : {"none", "refused", "unknown"}, old : BOOLEAN]
    /\ snap \in (SUBSET Ids) \cup {None}
    /\ faults \in 0..MaxFaults

Alarmed == halts \cap {Replace("refused"), Replace("unknown"), Manual} # {}
Settled == main = "idle" /\ open /\ cache = Latest

\* The decision that counts was taken before, and another one in between.
Returned ==
    \E earlier, between \in DOMAIN decisions :
      /\ earlier < between
      /\ decisions[earlier] = Latest /\ decisions[between] # Latest

(* "The first arming fails closed" (_recover_failed_trail_update): once the
   sync takes an armed decision for settled, an open position has a trailing
   stop of its own, or a halt that no reconcile clears before it has one.
   A decision that returns is excepted, for there the code does not keep this:
   the cache compares price and arming without the time of the decision, and
   an update during which a halt came or went is not noted in it; so after
   arm, such a disarm, and arm at the same price again, the sync sees no
   difference and the stop that the disarm cancelled is not placed again. *)
FirstArmFailsClosed ==
    decisions # <<>> /\ Settled /\ Latest.arm /\ trail = None
        => Alarmed \/ Returned

(* A position whose profit is to be protected gets its first trailing stop, is
   closed, or has halted, whatever is refused, lost, crossed or restarted;
   or the paper engine wants it no more, or wants again what it wanted before
   (the exception of FirstArmFailsClosed). *)
Exposed ==
    /\ decisions # <<>> /\ Latest.arm /\ open /\ trail = None
    /\ ~Alarmed /\ ~Returned
ArmResolves == Exposed ~> ~Exposed

(* A stop that no record names (an answer that came late, a crash, an
   unconfirmed cancel) is swept: it would buy back the next short. *)
Unrecorded == working \ (IF open THEN {trail} ELSE {})
OrphansSwept == (Unrecorded # {}) ~> (Unrecorded = {})
==============================================================================
