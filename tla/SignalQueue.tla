----------------------------- MODULE SignalQueue -----------------------------
(***************************************************************************)
(* What the shared outbox and the live process promise together: the paper *)
(* monitor appends signals, the live process passes over them one by one,  *)
(* in order.  A signal is taken at most once, however often it is replayed;*)
(* an entry may be dropped, an exit may not be passed over unless it was   *)
(* taken or an alarm has been raised for a person to act on; nothing that  *)
(* was in the outbox when the process was installed is ever taken.         *)
(***************************************************************************)
EXTENDS Naturals, Sequences

CONSTANTS
    Rows,   \* signals
    Exits,  \* those that reduce risk
    History \* how many were published before the process was installed

VARIABLES
    outbox,  \* the signals published so far
    next,    \* the signal the live process is at; 0 before the first deployment
    taken,   \* signals handed to the order manager
    alarm    \* a person has been asked to step in

queue == <<outbox, next, taken, alarm>>

Init ==
    /\ outbox \in Seq(Rows) /\ Len(outbox) >= History
    /\ next \in {0, History + 1}
    /\ taken = {}
    /\ alarm \in BOOLEAN

Publish(r) ==
    /\ outbox' = Append(outbox, r)
    /\ UNCHANGED <<next, taken, alarm>>

\* The first deployment begins after the history; what is published while it
\* is being made may be left out as well.
Deploy ==
    /\ next = 0
    /\ next' \in History + 1..Len(outbox) + 1
    /\ UNCHANGED <<outbox, taken, alarm>>

AtSignal == next \in 1..Len(outbox)

Take ==
    /\ AtSignal /\ outbox[next] \notin taken
    /\ taken' = taken \cup {outbox[next]}
    /\ UNCHANGED <<outbox, next>>

\* The signal is behind: it was taken, or it may be dropped.
Pass ==
    /\ AtSignal
    /\ \/ outbox[next] \in taken
       \/ outbox[next] \notin Exits
       \/ alarm'
    /\ next' = next + 1
    /\ UNCHANGED <<outbox, taken>>

\* Both at once, where the code has no await between them.
TakeAndPass ==
    /\ AtSignal
    /\ taken' = taken \cup {outbox[next]}
    /\ next' = next + 1
    /\ UNCHANGED outbox

\* Alarms are raised and reset for reasons of their own.
Other == UNCHANGED <<outbox, next, taken>>

Next == (\E r \in Rows : Publish(r)) \/ Deploy \/ Take \/ Pass \/ TakeAndPass \/ Other

Spec == Init /\ [][Next]_queue
==============================================================================
