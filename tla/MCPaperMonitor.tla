--------------------------- MODULE MCPaperMonitor ---------------------------
(* Instances of PaperMonitor for TLC. *)
EXTENDS PaperMonitor

TwoSymbols == {1, 2}
GainOrLoss == {-5, 5}
\* Two positions want more than there is.
Fractions == [a \in Accounts |-> 60]
Always == [below |-> 0, factor |-> 100]
Ladders ==
    [a \in Accounts |->
       IF a = Master THEN <<Always>>
       ELSE <<[below |-> 5, factor |-> 100], [below |-> 10, factor |-> 75],
              [below |-> 15, factor |-> 50], [below |-> 0, factor |-> 25]>>]
=============================================================================
