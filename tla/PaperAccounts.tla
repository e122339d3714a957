---------------------------- MODULE PaperAccounts ----------------------------
(***************************************************************************)
(* The paper account ledgers of paper_accounts.py: how much margin an      *)
(* account commits to a position of the strategy, what its exit books, and *)
(* how all of it is replayed from the strategy's position rows.            *)
(*                                                                         *)
(* Money is a whole number of units; a constant Initial with enough factors*)
(* of two and five keeps every division exact.                             *)
(***************************************************************************)
EXTENDS Integers, Sequences, Functions

CONSTANTS
    Accounts,  \* account ids
    Master,    \* claude_fixed20, which copies the strategy's own sizing
    Initial,   \* initial_balance_usdt
    Fraction,  \* base_margin_fraction of each account, in percent
    Ladder,    \* drawdown_ladder of each account, in percent; the last tier
               \* is for every drawdown (a fixed account has that one only)
    Leverage

ASSUME AccountAssumption ==
    /\ Master \in Accounts /\ Initial \in Nat \ {0} /\ Leverage \in Nat \ {0}
    /\ Fraction \in [Accounts -> 1..100]
    /\ \A a \in Accounts :
         Ladder[a] \in Seq([below : Nat, factor : Nat]) /\ Ladder[a] # <<>>

Percent(amount, p) == (amount * p) \div 100
AtLeast0(x) == IF x < 0 THEN 0 ELSE x
Smaller(x, y) == IF x < y THEN x ELSE y

\* A function with k mapped to v, and one without k.
Put(f, k, v) == [i \in DOMAIN f \cup {k} |-> IF i = k THEN v ELSE f[i]]
Without(f, k) == [i \in DOMAIN f \ {k} |-> f[i]]
Total(margins) == FoldFunction(LAMBDA m, sum : m + sum, 0, margins)

\* The state of an account: open maps a master position to its margin.
NewBook == [realized |-> 0, peak |-> Initial, open |-> << >>]
NewBooks == [a \in Accounts |-> NewBook]

Equity(book) == AtLeast0(Initial + book.realized)
Free(book) == AtLeast0(Equity(book) - Total(book.open))

\* margin_fraction: the first tier the drawdown from the peak is below.
Below(book, tier) ==
    (book.peak - Equity(book)) * 100 < tier.below * book.peak
Tier(a, book) ==
    LET last == Len(Ladder[a])
        fits == {i \in 1..last : i = last \/ Below(book, Ladder[a][i])}
    IN Ladder[a][CHOOSE i \in fits : \A j \in fits : i <= j]

\* (mutant: a new position gets its share whatever the others hold)
ShareOfEquity(a, book, row) == (Equity(book) * Fraction[a] * Tier(a, book).factor) \div 10000
\* The margin account a commits to the position of a row.
MarginFor(a, book, row) ==
    IF a = Master /\ row.margin > 0 THEN row.margin
    ELSE Smaller(Free(book),
                 (Equity(book) * Fraction[a] * Tier(a, book).factor) \div 10000)

\* _open: a position already open, or without margin, is left out.
Opened(books, row) ==
    [a \in Accounts |->
       LET book == books[a]
           margin == MarginFor(a, book, row)
       IN IF row.id \in DOMAIN book.open \/ margin <= 0 THEN book
          ELSE [book EXCEPT !.open = Put(@, row.id, margin)]]

\* _close: the master books the strategy's own profit.
Profit(a, book, row) ==
    IF a = Master THEN row.pnl
    ELSE Percent(book.open[row.id] * Leverage, row.pct)

Settled(book, profit, id) ==
    LET after == [book EXCEPT !.realized = @ + profit]
    IN [after EXCEPT !.open = Without(@, id),
                     !.peak = IF Equity(after) > @ THEN Equity(after) ELSE @]
Closed(books, row) ==
    [a \in Accounts |->
       IF row.id \in DOMAIN books[a].open
       THEN Settled(books[a], Profit(a, books[a], row), row.id) ELSE books[a]]

\* rebuild: entries and exits by time, exits first, then by position id.
Replay(rows) ==
    LET events == {[time |-> r.entry, exit |-> 0, row |-> r] : r \in rows}
                  \cup {[time |-> r.exit, exit |-> -1, row |-> r] :
                          r \in {x \in rows : x.st = "closed"}}
        before(x, y) ==
          \/ x.time < y.time
          \/ x.time = y.time /\ x.exit < y.exit
          \/ x.time = y.time /\ x.exit = y.exit /\ x.row.id[1] < y.row.id[1]
        booked(books, e) ==
          IF e.exit = 0 THEN Opened(books, e.row) ELSE Closed(books, e.row)
        replayed[E \in SUBSET events] ==
          IF E = {} THEN NewBooks
          ELSE LET last == CHOOSE e \in E : \A x \in E \ {e} : before(x, e)
               IN booked(replayed[E \ {last}], last)
    IN replayed[events]
=============================================================================
