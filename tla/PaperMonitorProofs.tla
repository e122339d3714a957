-------------------------- MODULE PaperMonitorProofs --------------------------
(***************************************************************************)
(* The properties of the paper process, for any symbols, accounts, prices, *)
(* failed commits and crashes.                                             *)
(***************************************************************************)
EXTENDS PaperMonitor, TLAPS, FiniteSetTheorems, SequenceTheorems, WellFoundedInduction

-----------------------------------------------------------------------------
(***************************************************************************)
(* Induction, stated about sets: a set of numbers has a least element.     *)
(***************************************************************************)

LEMMA LeastNumber ==
    ASSUME NEW S \in SUBSET Nat, S # {}
    PROVE  \E n \in S : \A m \in S : n <= m
<1> DEFINE R == OpToRel(<, Nat)
<1>1. IsWellFoundedOn(R, Nat)
  BY NatLessThanWellFounded
<1>2. R = {ss \in Nat \X Nat : ss[1] < ss[2]}
  BY DEF OpToRel
<1> HIDE DEF R
<1>3. PICK n \in S : \A y \in S : ~(<<y, n>> \in R)
  BY <1>1, WFMin
<1>4. ASSUME NEW y \in S
      PROVE  ~(y < n)
  <2>1. <<y, n>> \in Nat \X Nat /\ <<y, n>>[1] = y /\ <<y, n>>[2] = n
    OBVIOUS
  <2>2. y < n => <<y, n>> \in R
    BY <1>2, <2>1
  <2> QED BY <1>3, <2>2
<1>5. \A y \in S : n <= y
  BY <1>4
<1> QED BY <1>5

\* What holds of 0 and of every successor holds of every number.
LEMMA EveryNumber ==
    ASSUME NEW S, 0 \in S, \A n \in Nat : n \in S => n + 1 \in S
    PROVE  Nat \subseteq S
<1>1. SUFFICES ASSUME Nat \ S # {} PROVE FALSE
  OBVIOUS
<1>2. PICK n \in Nat \ S : \A m \in Nat \ S : n <= m
  BY <1>1, LeastNumber
<1> QED BY <1>2

\* What holds of a set when it holds of the set without any of its elements
\* holds of every subset of a finite set.
LEMMA EverySubset ==
    ASSUME NEW S, IsFiniteSet(S), NEW Good,
           \A s \in SUBSET S : (\A x \in s : s \ {x} \in Good) => s \in Good
    PROVE  SUBSET S \subseteq Good
<1> DEFINE Bad == {Cardinality(s) : s \in (SUBSET S) \ Good}
<1>1. SUFFICES ASSUME (SUBSET S) \ Good # {} PROVE FALSE
  OBVIOUS
<1>2. Bad \in SUBSET Nat /\ Bad # {}
  BY <1>1, FS_Subset, FS_CardinalityType
<1>3. PICK n \in Bad : \A m \in Bad : n <= m
  <2> HIDE DEF Bad
  <2> QED BY <1>2, LeastNumber
<1>4. PICK s \in (SUBSET S) \ Good : Cardinality(s) = n
  OBVIOUS
<1>5. ASSUME NEW x \in s
      PROVE  s \ {x} \in Good
  <2>1. IsFiniteSet(s) /\ Cardinality(s) \in Nat
    BY FS_Subset, FS_CardinalityType
  <2>2. Cardinality(s \ {x}) = Cardinality(s) - 1
    BY <2>1, FS_RemoveElement
  <2>3. s \ {x} \in SUBSET S
    OBVIOUS
  <2> QED BY <1>3, <1>4, <2>1, <2>2, <2>3
<1> QED BY <1>4, <1>5

-----------------------------------------------------------------------------
(***************************************************************************)
(* Total, the sum of a function's values, taken in the order in which      *)
(* CHOOSE picks the indices.                                               *)
(***************************************************************************)
Pick(s) == CHOOSE x \in s : TRUE
Sum(f, g, s) == IF s = {} THEN 0 ELSE f[Pick(s)] + g[s \ {Pick(s)}]
Sums(f, S) == CHOOSE g : g = [s \in SUBSET S |-> Sum(f, g, s)]

LEMMA TotalIsSums ==
    ASSUME NEW f
    PROVE  Total(f) = Sums(f, DOMAIN f)[DOMAIN f]
BY DEF Total, FoldFunction, FoldFunctionOnSet, MapThenFoldSet, Sums, Sum, Pick

\* The sums over the subsets exist, and are numbers when the values are.
LEMMA SumsExist ==
    ASSUME NEW S, IsFiniteSet(S), NEW f, \A x \in S : f[x] \in Int
    PROVE  /\ \A s \in SUBSET S : Sums(f, S)[s] = Sum(f, Sums(f, S), s)
           /\ \A s \in SUBSET S : Sums(f, S)[s] \in Int
<1> DEFINE D(n) == {s \in SUBSET S : Cardinality(s) <= n}
           Solves(g, n) == g \in [D(n) -> Int] /\ \A s \in D(n) : g[s] = Sum(f, g, s)
           Solved == {n \in Nat : \E g : Solves(g, n)}
<1>0. \A s \in SUBSET S : IsFiniteSet(s) /\ Cardinality(s) \in Nat /\ (Cardinality(s) = 0 <=> s = {})
  BY FS_Subset, FS_CardinalityType, FS_EmptySet
<1>1. \A s \in SUBSET S : s # {} =>
        /\ Pick(s) \in s /\ f[Pick(s)] \in Int /\ s \ {Pick(s)} \in SUBSET S
        /\ Cardinality(s \ {Pick(s)}) = Cardinality(s) - 1
  <2>1. ASSUME NEW s \in SUBSET S, s # {}
        PROVE  Pick(s) \in s
    BY <2>1 DEF Pick
  <2> QED BY <1>0, <2>1, FS_RemoveElement
<1>2. 0 \in Solved
  <2> DEFINE g == [s \in D(0) |-> 0]
  <2>1. \A s \in D(0) : s = {}
    BY <1>0
  <2>2. Solves(g, 0)
    BY <2>1 DEF Sum
  <2> QED BY <2>2
<1>3. ASSUME NEW n \in Nat, n \in Solved
      PROVE  n + 1 \in Solved
  <2>1. PICK g : Solves(g, n)
    BY <1>3
  <2> DEFINE h == [s \in D(n + 1) |-> Sum(f, g, s)]
  <2>2. \A s \in D(n + 1) : s # {} => s \ {Pick(s)} \in D(n)
    BY <1>0, <1>1
  <2>3. \A s \in D(n) : s \in D(n + 1) /\ h[s] = g[s]
    BY <1>0, <2>1
  <2>4. \A s \in D(n + 1) : h[s] = Sum(f, h, s)
    BY <2>2, <2>3 DEF Sum
  <2>5. \A s \in D(n + 1) : Sum(f, g, s) \in Int
    BY <1>1, <2>1, <2>2 DEF Sum
  <2>6. h \in [D(n + 1) -> Int]
    BY <2>5
  <2>7. Solves(h, n + 1)
    BY <2>4, <2>6
  <2> HIDE DEF Solves, h
  <2>8. n + 1 \in Nat
    OBVIOUS
  <2> QED BY <2>7, <2>8
<1>4. Cardinality(S) \in Solved
  <2> HIDE DEF Solved
  <2> QED BY <1>0, <1>2, <1>3, EveryNumber
<1>5. PICK g : Solves(g, Cardinality(S))
  BY <1>4
<1>6. D(Cardinality(S)) = SUBSET S
  BY FS_Subset
<1>7. g = [s \in SUBSET S |-> Sum(f, g, s)]
  BY <1>5, <1>6
<1>8. Sums(f, S) = [s \in SUBSET S |-> Sum(f, Sums(f, S), s)]
  BY <1>7 DEF Sums
<1> DEFINE I == Sums(f, S)
           Good == {s \in SUBSET S : I[s] \in Int}
<1>9. \A s \in SUBSET S : I[s] = Sum(f, I, s)
  BY <1>8
<1> HIDE DEF I, D, Solves, Solved
<1>10. ASSUME NEW s \in SUBSET S, \A x \in s : s \ {x} \in Good
       PROVE  s \in Good
  <2>1. I[s] = Sum(f, I, s)
    BY <1>9
  <2>2. CASE s = {}
    BY <2>1, <2>2 DEF Sum
  <2>3. CASE s # {}
    <3>1. Pick(s) \in s /\ f[Pick(s)] \in Int
      BY <1>1, <2>3
    <3>2. I[s \ {Pick(s)}] \in Int
      BY <1>10, <3>1
    <3>3. I[s] = f[Pick(s)] + I[s \ {Pick(s)}]
      BY <2>1, <2>3 DEF Sum
    <3> QED BY <3>1, <3>2, <3>3
  <2> QED BY <2>2, <2>3
<1>11. SUBSET S \subseteq Good
  <2> HIDE DEF Good
  <2> QED BY <1>10, EverySubset
<1> QED BY <1>9, <1>11 DEF I

LEMMA TotalInt ==
    ASSUME NEW f, IsFiniteSet(DOMAIN f), \A x \in DOMAIN f : f[x] \in Int
    PROVE  Total(f) \in Int
BY TotalIsSums, SumsExist

\* The order does not matter: any index may be taken out first.
LEMMA SumsTakeOut ==
    ASSUME NEW S, IsFiniteSet(S), NEW f, \A x \in S : f[x] \in Int
    PROVE  \A s \in SUBSET S : \A x \in s : Sums(f, S)[s] = f[x] + Sums(f, S)[s \ {x}]
<1> DEFINE I == Sums(f, S)
           Good == {s \in SUBSET S : \A x \in s : I[s] = f[x] + I[s \ {x}]}
<1>1. \A s \in SUBSET S : I[s] = Sum(f, I, s) /\ I[s] \in Int
  BY SumsExist
<1> HIDE DEF I
<1>2. ASSUME NEW s \in SUBSET S, \A x \in s : s \ {x} \in Good
      PROVE  s \in Good
  <2>1. ASSUME NEW x \in s
        PROVE  I[s] = f[x] + I[s \ {x}]
    <3> DEFINE y == Pick(s)
    <3>1. y \in s /\ I[s] = f[y] + I[s \ {y}]
      BY <1>1 DEF Sum, Pick
    <3> HIDE DEF y
    <3>2. CASE x = y
      BY <3>1, <3>2
    <3>3. CASE x # y
      <4>1. I[s \ {y}] = f[x] + I[(s \ {y}) \ {x}]
        BY <1>2, <3>1, <3>3
      <4>2. I[s \ {x}] = f[y] + I[(s \ {x}) \ {y}]
        BY <1>2, <3>1, <3>3
      <4>3. (s \ {y}) \ {x} = (s \ {x}) \ {y} /\ (s \ {x}) \ {y} \in SUBSET S
        OBVIOUS
      <4>4. f[x] \in Int /\ f[y] \in Int /\ I[(s \ {x}) \ {y}] \in Int
        BY <1>1, <3>1, <4>3
      <4> DEFINE z == I[(s \ {x}) \ {y}]
      <4>5. I[s] = f[y] + (f[x] + z) /\ I[s \ {x}] = f[y] + z /\ z \in Int
        BY <3>1, <4>1, <4>2, <4>3, <4>4
      <4> HIDE DEF z
      <4>6. f[y] + (f[x] + z) = f[x] + (f[y] + z)
        BY <4>4, <4>5
      <4> QED BY <4>5, <4>6
    <3> QED BY <3>2, <3>3
  <2> QED BY <2>1
<1>3. SUBSET S \subseteq Good
  <2> HIDE DEF Good
  <2> QED BY <1>2, EverySubset
<1> QED BY <1>3 DEF I

\* A new index adds its value.
LEMMA TotalPut ==
    ASSUME NEW f, IsFiniteSet(DOMAIN f), \A x \in DOMAIN f : f[x] \in Int,
           NEW k, k \notin DOMAIN f, NEW v \in Int
    PROVE  Total(Put(f, k, v)) = Total(f) + v
<1> DEFINE S == DOMAIN f
           T == S \cup {k}
           h == Put(f, k, v)
           I == Sums(f, S)
           J == Sums(h, T)
           Good == {s \in SUBSET S : J[s] = I[s]}
<1>1. DOMAIN h = T /\ h[k] = v /\ (\A x \in S : h[x] = f[x]) /\ IsFiniteSet(T)
  BY FS_AddElement DEF Put
<1>2. \A x \in T : h[x] \in Int
  BY <1>1
<1> HIDE DEF h
<1>3. \A s \in SUBSET S : I[s] = Sum(f, I, s) /\ I[s] \in Int
  BY SumsExist
<1>4. \A s \in SUBSET T : J[s] = Sum(h, J, s) /\ J[s] \in Int
  BY <1>1, <1>2, SumsExist
<1>5. \A s \in SUBSET T : \A x \in s : J[s] = h[x] + J[s \ {x}]
  <2>1. IsFiniteSet(T)
    BY <1>1
  <2> HIDE DEF S, T, J, I, Good
  <2>2. ASSUME NEW s \in SUBSET T, NEW x \in s
        PROVE  Sums(h, T)[s] = h[x] + Sums(h, T)[s \ {x}]
    BY <1>2, <2>1, SumsTakeOut
  <2> QED BY <2>2 DEF J
<1>6. Total(f) = I[S] /\ Total(h) = J[T]
  BY <1>1, TotalIsSums
<1> HIDE DEF I, J
<1>7. ASSUME NEW s \in SUBSET S, \A x \in s : s \ {x} \in Good
      PROVE  s \in Good
  <2>1. s \in SUBSET T
    OBVIOUS
  <2>2. J[s] = Sum(h, J, s) /\ I[s] = Sum(f, I, s)
    BY <1>3, <1>4, <2>1
  <2>3. CASE s = {}
    BY <2>2, <2>3 DEF Sum
  <2>4. CASE s # {}
    <3>1. Pick(s) \in s
      BY <2>4 DEF Pick
    <3> QED BY <1>1, <1>7, <2>2, <2>4, <3>1 DEF Sum
  <2> QED BY <2>3, <2>4
<1>8. SUBSET S \subseteq Good
  <2>1. IsFiniteSet(S)
    OBVIOUS
  <2> HIDE DEF Good, S
  <2> QED BY <1>7, <2>1, EverySubset
<1>9. J[T] = h[k] + J[T \ {k}] /\ T \ {k} = S
  BY <1>5
<1>10. J[S] = I[S] /\ I[S] \in Int
  BY <1>3, <1>8
<1> QED BY <1>1, <1>6, <1>9, <1>10 DEF h


\* An index taken out takes its value with it.
LEMMA TotalWithout ==
    ASSUME NEW f, IsFiniteSet(DOMAIN f), f = [x \in DOMAIN f |-> f[x]],
           \A x \in DOMAIN f : f[x] \in Int, NEW k \in DOMAIN f
    PROVE  Total(f) = Total(Without(f, k)) + f[k]
<1> DEFINE g == Without(f, k)
<1>1. DOMAIN g = DOMAIN f \ {k} /\ \A x \in DOMAIN g : g[x] = f[x]
  BY DEF Without
<1>2. IsFiniteSet(DOMAIN g)
  BY <1>1, FS_RemoveElement
<1>3. Put(g, k, f[k]) = f
  <2> HIDE DEF g
  <2> QED BY <1>1 DEF Put
<1>4. k \notin DOMAIN g /\ f[k] \in Int /\ \A x \in DOMAIN g : g[x] \in Int
  BY <1>1
<1> HIDE DEF g
<1>5. Total(Put(g, k, f[k])) = Total(g) + f[k]
  BY <1>2, <1>4, TotalPut
<1> QED BY <1>3, <1>5 DEF g

LEMMA TotalNone ==
    ASSUME NEW f, DOMAIN f = {}
    PROVE  Total(f) = 0
<1>1. IsFiniteSet(DOMAIN f)
  BY FS_EmptySet
<1>2. Total(f) = Sum(f, Sums(f, DOMAIN f), {})
  BY <1>1, TotalIsSums, SumsExist
<1> QED BY <1>2 DEF Sum

LEMMA FiniteNames ==
    ASSUME NEW S, IsFiniteSet(S), NEW name, NEW T, T = {name[x] : x \in S}
    PROVE  IsFiniteSet(T)
<1> DEFINE f == [x \in S |-> name[x]]
<1>1. f \in Surjection(S, T)
  BY DEF Surjection
<1> HIDE DEF f
<1> QED BY <1>1, FS_Surjection

\* The same values under other names have the same sum.
LEMMA TotalRenamed ==
    ASSUME NEW S, IsFiniteSet(S), NEW f, \A x \in S : f[x] \in Int,
           NEW name, \A x, y \in S : x # y => name[x] # name[y],
           NEW g, \A x \in S : g[name[x]] = f[x]
    PROVE  Total([x \in S |-> f[x]]) = Total([n \in {name[x] : x \in S} |-> g[n]])
<1> DEFINE Named(s) == {name[x] : x \in s}
           F(s) == [x \in s |-> f[x]]
           G(s) == [n \in Named(s) |-> g[n]]
           Good == {s \in SUBSET S : Total(F(s)) = Total(G(s))}
<1>1. ASSUME NEW s \in SUBSET S, \A x \in s : s \ {x} \in Good
      PROVE  s \in Good
  <2>1. CASE s = {}
    <3>1. DOMAIN F(s) = {} /\ DOMAIN G(s) = {}
      BY <2>1
    <3> QED BY <3>1, TotalNone
  <2>2. CASE s # {}
    <3>1. PICK x \in s : TRUE
      BY <2>2
    <3>2. Without(F(s), x) = F(s \ {x})
      BY DEF Without
    <3>3. Named(s) \ {name[x]} = Named(s \ {x})
      BY <3>1
    <3>4. Without(G(s), name[x]) = G(s \ {x})
      BY <3>3 DEF Without
    <3>5. IsFiniteSet(s) /\ IsFiniteSet(Named(s))
      <4>1. IsFiniteSet(s)
        BY FS_Subset
      <4> DEFINE T == Named(s)
      <4>2. T = {name[y] : y \in s}
        OBVIOUS
      <4> HIDE DEF T
      <4>3. IsFiniteSet(T)
        BY <4>1, <4>2, FiniteNames
      <4> QED BY <4>1, <4>3 DEF T
    <3>6. Total(F(s)) = Total(F(s \ {x})) + f[x]
      <4>1. IsFiniteSet(DOMAIN F(s)) /\ F(s) = [y \in DOMAIN F(s) |-> F(s)[y]] /\ x \in DOMAIN F(s)
        BY <3>5
      <4>2. (\A y \in DOMAIN F(s) : F(s)[y] \in Int) /\ F(s)[x] = f[x]
        OBVIOUS
      <4> HIDE DEF F
      <4> QED BY <3>2, <4>1, <4>2, TotalWithout
    <3>7. Total(G(s)) = Total(G(s \ {x})) + f[x]
      <4>1. IsFiniteSet(DOMAIN G(s)) /\ G(s) = [n \in DOMAIN G(s) |-> G(s)[n]] /\ name[x] \in DOMAIN G(s)
        BY <3>1, <3>5
      <4>2. (\A n \in DOMAIN G(s) : G(s)[n] \in Int) /\ G(s)[name[x]] = f[x]
        BY <3>1
      <4> HIDE DEF G
      <4> QED BY <3>4, <4>1, <4>2, TotalWithout
    <3>8. s \ {x} \in Good
      BY <1>1, <3>1
    <3> QED BY <3>6, <3>7, <3>8
  <2> QED BY <2>1, <2>2
<1>2. SUBSET S \subseteq Good
  <2> HIDE DEF Good
  <2> QED BY <1>1, EverySubset
<1> QED BY <1>2

-----------------------------------------------------------------------------
(***************************************************************************)
(* The inductive invariant.                                                *)
(***************************************************************************)
Holdings == UNION {[I -> Nat \ {0}] : I \in SUBSET PositionIds}
Book == [realized : Int, peak : Nat, open : Holdings]
Job == [symbol : Symbols \cup {None}, rows : Seq(Row), signals : Seq(SignalRow)]

\* At minute m, with the candles of the symbols in d handled: the minute id[2] is
\* over, or its candle of symbol id[1] has been handled.
Past(id, m, d) == id[2] < m \/ (id[2] = m /\ id[1] \in d)

\* A position is named after its entry, which is remembered in e; it closes later
\* than it was opened.
SoundAt(r, m, d, e) ==
    /\ r.id[2] = r.entry /\ Past(r.id, m, d) /\ r.margin > 0
    /\ r.entry \in e[r.id[1]]
    /\ r.st = "closed" => r.entry < r.exit /\ Past(<<r.id[1], r.exit>>, m, d)
Sound(r) == SoundAt(r, minute, done, entered)

Held == \A s \in DOMAIN positions : positions[s].st = "open" /\ Sound(positions[s])

\* The rows in the store are those of positions; a position held is open there,
\* and no two positions of a symbol closed in one minute.
StoredRows ==
    /\ \A id \in DOMAIN rows : Sound(rows[id])
    /\ \A s \in DOMAIN positions :
         positions[s].id \in DOMAIN rows => rows[positions[s].id].st = "open"
    /\ \A a, b \in DOMAIN rows :
         rows[a].st = "closed" /\ rows[b].st = "closed"
         /\ a[1] = b[1] /\ rows[a].exit = rows[b].exit => a = b

\* The job of an event: the row of the exit first, then the position held.
JobStage ==
    /\ pc = "rows" <=> job.rows # <<>>
    /\ pc \in {"publish", "account"} => job.signals # <<>>
    /\ pc = "idle" => job.signals = <<>>
    /\ pc # "idle" => job.symbol \in done

JobRows ==
    \A i \in DOMAIN job.rows :
      LET r == job.rows[i]
          s == job.symbol
      IN /\ Sound(r) /\ r.id[1] = s
         /\ r.st = "open" => i = Len(job.rows) /\ s \in DOMAIN positions /\ positions[s] = r
         /\ r.st = "closed" =>
              /\ i = 1 /\ r.exit = minute
              /\ s \in DOMAIN positions => positions[s].id # r.id
              /\ \A id \in DOMAIN rows :
                   id[1] = s /\ rows[id].st = "closed" => rows[id].exit < minute

\* A signal's row is stored, or waits in front of it.
Backed(signal, stored, waiting) ==
    \/ /\ signal.id \in DOMAIN stored
       /\ signal.action = "exit" => stored[signal.id].st = "closed"
    \/ \E i \in DOMAIN waiting :
         /\ waiting[i].id = signal.id
         /\ waiting[i].st = (IF signal.action = "exit" THEN "closed" ELSE "open")
JobSignals ==
    \A i \in DOMAIN job.signals :
      LET signal == job.signals[i]
      IN /\ Backed(signal, rows, job.rows)
         /\ signal.action = "exit" =>
              i = 1 /\ (pc # "account" => signal.id \notin Published("exit"))

\* What the live process may read is in the rows.
Outboxed ==
    /\ \A i \in DOMAIN outbox :
         /\ outbox[i].id \in DOMAIN rows
         /\ outbox[i].action = "exit" => rows[outbox[i].id].st = "closed"
    /\ \A i, j \in DOMAIN outbox :
         outbox[i].action = "exit" /\ outbox[j].action = "exit" /\ outbox[i].id = outbox[j].id
           => i = j

\* The entries the engine remembers.
Spaced ==
    \A s \in Symbols :
      /\ \A m, n \in entered[s] : m # n => m - n >= Cooldown \/ n - m >= Cooldown
      /\ \A d \in Nat : Cardinality({m \in entered[s] : Day(m) = d}) <= DayCap
      /\ \A m \in entered[s] : m <= minute

\* As long as no commit failed: an open row is that of the position held, or
\* the row of its exit waits.
OneOpenRow ==
    errors = 0 =>
      \A id \in DOMAIN rows : rows[id].st = "open" =>
        IF \E i \in DOMAIN job.rows : job.rows[i].st = "closed" /\ job.rows[i].id[1] = id[1]
        THEN \E i \in DOMAIN job.rows : job.rows[i].st = "closed" /\ job.rows[i].id = id
        ELSE id[1] \in DOMAIN positions /\ positions[id[1]].id = id

ProtectionFollows ==
    \A s \in Symbols : protection[s] # None =>
      /\ protection[s].id[1] = s
      /\ errors = 0 =>
           \/ s = job.symbol /\ pc \in {"rows", "protect"}
           \/ s \in DOMAIN positions /\ protection[s].id = positions[s].id

IInv ==
    /\ TypeOK /\ job \in Job /\ books \in [Accounts -> Book]
    /\ Held /\ StoredRows /\ JobStage /\ JobRows /\ JobSignals /\ Outboxed
    /\ Spaced /\ OneOpenRow /\ ProtectionFollows

-----------------------------------------------------------------------------
(***************************************************************************)
(* The account that copies the strategy.                                   *)
(***************************************************************************)
Waiting(action) ==
    {job.signals[i].id : i \in {j \in DOMAIN job.signals : job.signals[j].action = action}}
HeldIds == {positions[s].id : s \in DOMAIN positions}
MarginHeld == Total([s \in DOMAIN positions |-> positions[s].margin])

\* The signal of an entry is the last one; it is that of a position held, and new.
OpenSignals ==
    \A i \in DOMAIN job.signals : job.signals[i].action = "open" =>
      /\ i = Len(job.signals) /\ job.signals[i].id \in HeldIds
      /\ (pc = "account" /\ i = 1) \/ job.signals[i].id \notin Published("open")

\* The row of a position held has its margin.
MarginsStored ==
    \A s \in DOMAIN positions : positions[s].id \in DOMAIN rows =>
      rows[positions[s].id].margin = positions[s].margin

\* What the strategy has just entered it can pay.
SizedWithin == Waiting("open") # {} => MarginHeld <= AtLeast0(Initial + gained)

\* What an exit that waits will bring to the account.
Settles(book, id) ==
    IF \E i \in DOMAIN job.rows : job.rows[i].st = "closed"
    THEN \A i \in DOMAIN job.rows : job.rows[i].st = "closed" =>
           job.rows[i].id = id /\ book.realized + job.rows[i].pnl = gained
    ELSE id \in DOMAIN rows /\ book.realized + rows[id].pnl = gained

\* As long as no commit failed, the account is a few signals behind the strategy.
MasterFollows ==
    errors = 0 =>
      /\ DOMAIN books[Master].open = (HeldIds \ Waiting("open")) \cup Waiting("exit")
      /\ \A s \in DOMAIN positions : positions[s].id \in DOMAIN books[Master].open =>
           books[Master].open[positions[s].id] = positions[s].margin
      /\ Waiting("exit") = {} => books[Master].realized = gained
      /\ \A id \in Waiting("exit") : Settles(books[Master], id)

CopyInv == OpenSignals /\ MarginsStored /\ SizedWithin /\ MasterFollows

-----------------------------------------------------------------------------
(***************************************************************************)
(* The accounts.                                                           *)
(***************************************************************************)
LEMMA PositionIdsFinite == IsFiniteSet(PositionIds)
<1>1. IsFiniteSet(Symbols) /\ IsFiniteSet(Minutes)
  BY MonitorAssumption, FS_Interval DEF Minutes
<1> QED BY <1>1, FS_Product DEF PositionIds

LEMMA HoldingsFacts ==
    ASSUME NEW f \in Holdings
    PROVE  /\ DOMAIN f \subseteq PositionIds /\ IsFiniteSet(DOMAIN f)
           /\ f = [id \in DOMAIN f |-> f[id]]
           /\ \A id \in DOMAIN f : f[id] \in Nat \ {0}
           /\ Total(f) \in Int
<1>1. PICK I \in SUBSET PositionIds : f \in [I -> Nat \ {0}]
  BY DEF Holdings
<1>2. DOMAIN f = I /\ f = [id \in I |-> f[id]] /\ \A id \in I : f[id] \in Nat \ {0} /\ f[id] \in Int
  BY <1>1
<1>3. IsFiniteSet(I)
  BY PositionIdsFinite, FS_Subset
<1> QED BY <1>2, <1>3, TotalInt

LEMMA NoHoldings == << >> \in Holdings
<1>1. << >> \in [{} -> Nat \ {0}] /\ {} \in SUBSET PositionIds
  OBVIOUS
<1> QED BY <1>1 DEF Holdings

LEMMA PutHoldings ==
    ASSUME NEW f \in Holdings, NEW id \in PositionIds, NEW v \in Nat \ {0}
    PROVE  Put(f, id, v) \in Holdings
<1>1. DOMAIN f \cup {id} \in SUBSET PositionIds
  BY HoldingsFacts
<1>2. Put(f, id, v) \in [DOMAIN f \cup {id} -> Nat \ {0}]
  BY HoldingsFacts DEF Put
<1> QED BY <1>1, <1>2 DEF Holdings

LEMMA WithoutHoldings ==
    ASSUME NEW f \in Holdings, NEW id
    PROVE  Without(f, id) \in Holdings
<1>1. DOMAIN f \ {id} \in SUBSET PositionIds
  BY HoldingsFacts
<1>2. Without(f, id) \in [DOMAIN f \ {id} -> Nat \ {0}]
  BY HoldingsFacts DEF Without
<1> QED BY <1>1, <1>2 DEF Holdings

LEMMA NewBooksTyped == NewBooks \in [Accounts -> Book]
<1>1. NewBook \in Book
  BY NoHoldings, AccountAssumption DEF NewBook, Book
<1> QED BY <1>1 DEF NewBooks

LEMMA EquityType ==
    ASSUME NEW book, book.realized \in Int
    PROVE  Equity(book) \in Nat
BY AccountAssumption DEF Equity, AtLeast0

\* There is a first tier for every drawdown.
LEMMA TierType ==
    ASSUME NEW a \in Accounts, NEW book \in Book
    PROVE  Tier(a, book) \in [below : Nat, factor : Nat]
<1> DEFINE last == Len(Ladder[a])
           fits == {i \in 1..last : i = last \/ Below(book, Ladder[a][i])}
<1>1. Ladder[a] \in Seq([below : Nat, factor : Nat]) /\ Ladder[a] # <<>>
  BY AccountAssumption
<1>2. last \in Nat \ {0}
  BY <1>1
<1>3. fits \in SUBSET Nat /\ fits # {} /\ fits \subseteq 1..last
  BY <1>2
<1>4. Tier(a, book) = Ladder[a][CHOOSE i \in fits : \A j \in fits : i <= j]
  BY DEF Tier
<1> DEFINE first == CHOOSE i \in fits : \A j \in fits : i <= j
<1>5. first \in 1..last
  <2> HIDE DEF fits
  <2>1. \E i \in fits : \A j \in fits : i <= j
    BY <1>3, LeastNumber
  <2> QED BY <1>3, <2>1
<1> HIDE DEF fits, first
<1>6. Ladder[a][first] \in [below : Nat, factor : Nat]
  <2> DEFINE Tiers == [below : Nat, factor : Nat]
             ladder == Ladder[a]
  <2>1. ladder \in Seq(Tiers) /\ first \in 1..Len(ladder)
    BY <1>1, <1>5
  <2> HIDE DEF Tiers, ladder
  <2>2. ladder[first] \in Tiers
    BY <2>1
  <2> QED BY <2>2 DEF Tiers, ladder
<1> QED BY <1>4, <1>6 DEF first, fits

\* What a new position is given, and that it is there to give.
LEMMA MarginType ==
    ASSUME NEW a \in Accounts, NEW book \in Book, NEW row \in Row
    PROVE  /\ MarginFor(a, book, row) \in Int
           /\ a = Master /\ row.margin > 0 => MarginFor(a, book, row) = row.margin
           /\ a # Master => MarginFor(a, book, row) <= Free(book)
<1>1. book.realized \in Int /\ Equity(book) \in Nat /\ Total(book.open) \in Int
  BY EquityType, HoldingsFacts DEF Book
<1>2. Free(book) \in Nat
  BY <1>1 DEF Free, AtLeast0
<1>3. Tier(a, book).factor \in Nat /\ Fraction[a] \in Nat
  <2>1. Tier(a, book) \in [below : Nat, factor : Nat]
    BY TierType
  <2>2. Fraction[a] \in 1..100
    BY AccountAssumption
  <2> QED BY <2>1, <2>2
<1> DEFINE share == (Equity(book) * Fraction[a] * Tier(a, book).factor) \div 10000
<1>4. share \in Int
  <2> DEFINE product == Equity(book) * Fraction[a] * Tier(a, book).factor
  <2>1. product \in Int
    BY <1>1, <1>3
  <2> HIDE DEF product
  <2>2. product \div 10000 \in Int
    BY <2>1
  <2> QED BY <2>2 DEF product
<1> HIDE DEF share
<1>5. MarginFor(a, book, row) =
        IF a = Master /\ row.margin > 0 THEN row.margin ELSE Smaller(Free(book), share)
  BY DEF MarginFor, share
<1>6. row.margin \in Nat
  BY DEF Row
<1> QED BY <1>2, <1>4, <1>5, <1>6 DEF Smaller

LEMMA OpenedBook ==
    ASSUME NEW b \in [Accounts -> Book], NEW row \in Row, NEW a \in Accounts
    PROVE  /\ Opened(b, row)[a] \in Book
           /\ \/ Opened(b, row)[a] = b[a]
              \/ /\ row.id \notin DOMAIN b[a].open /\ MarginFor(a, b[a], row) > 0
                 /\ Opened(b, row)[a] =
                      [b[a] EXCEPT !.open = Put(b[a].open, row.id, MarginFor(a, b[a], row))]
<1> DEFINE margin == MarginFor(a, b[a], row)
<1>1. margin \in Int /\ b[a] \in Book
  BY MarginType
<1>2. Opened(b, row)[a] =
        IF row.id \in DOMAIN b[a].open \/ margin <= 0 THEN b[a]
        ELSE [b[a] EXCEPT !.open = Put(@, row.id, margin)]
  BY DEF Opened
<1>3. CASE row.id \in DOMAIN b[a].open \/ margin <= 0
  BY <1>1, <1>2, <1>3
<1>4. CASE ~(row.id \in DOMAIN b[a].open \/ margin <= 0)
  <2>1. margin \in Nat \ {0} /\ row.id \in PositionIds
    BY <1>1, <1>4 DEF Row
  <2>2. Put(b[a].open, row.id, margin) \in Holdings
    <3> HIDE DEF margin
    <3> QED BY <1>1, <2>1, PutHoldings DEF Book
  <2>3. [b[a] EXCEPT !.open = Put(b[a].open, row.id, margin)] \in Book
    <3> HIDE DEF margin
    <3> QED BY <1>1, <2>2 DEF Book
  <2>4. Opened(b, row)[a] = [b[a] EXCEPT !.open = Put(b[a].open, row.id, margin)]
    BY <1>2, <1>4
  <2> QED BY <1>1, <1>4, <2>1, <2>3, <2>4
<1> QED BY <1>3, <1>4

LEMMA OpenedTyped ==
    ASSUME NEW b \in [Accounts -> Book], NEW row \in Row
    PROVE  Opened(b, row) \in [Accounts -> Book]
<1>1. Opened(b, row) = [a \in Accounts |-> Opened(b, row)[a]]
  BY DEF Opened
<1> QED BY <1>1, OpenedBook

LEMMA SettledTyped ==
    ASSUME NEW book \in Book, NEW profit \in Int, NEW id
    PROVE  /\ Settled(book, profit, id) \in Book
           /\ Settled(book, profit, id).realized = book.realized + profit
           /\ Settled(book, profit, id).open = Without(book.open, id)
<1> DEFINE after == [book EXCEPT !.realized = @ + profit]
           peak == IF Equity(after) > after.peak THEN Equity(after) ELSE after.peak
<1>1. after.realized = book.realized + profit /\ after.peak = book.peak /\ after.open = book.open
      /\ after \in Book
  BY DEF Book
<1>2. Equity(after) \in Nat
  <2> HIDE DEF after
  <2>1. after.realized \in Int
    BY <1>1 DEF Book
  <2> QED BY <2>1, EquityType
<1>3. peak \in Nat
  BY <1>1, <1>2 DEF Book
<1>4. Without(after.open, id) \in Holdings
  BY <1>1, WithoutHoldings DEF Book
<1>5. Settled(book, profit, id) = [after EXCEPT !.open = Without(after.open, id), !.peak = peak]
  BY DEF Settled
<1> HIDE DEF after, peak
<1> QED BY <1>1, <1>3, <1>4, <1>5 DEF Book

LEMMA ProfitType ==
    ASSUME NEW a \in Accounts, NEW book \in Book, NEW row \in Row, row.id \in DOMAIN book.open
    PROVE  Profit(a, book, row) \in Int
<1>1. row.pnl \in Int /\ row.pct \in Int
  <2>1. row.pnl \in Int /\ row.pct \in Profits \cup {0}
    BY DEF Row
  <2>2. Profits \subseteq Int
    BY MonitorAssumption
  <2>3. CASE row.pct = 0
    BY <2>1, <2>3
  <2>4. CASE row.pct \in Profits
    BY <2>1, <2>2, <2>4
  <2> QED BY <2>1, <2>3, <2>4
<1>2. book.open[row.id] \in Int /\ Leverage \in Int
  BY HoldingsFacts, AccountAssumption DEF Book
<1> DEFINE amount == book.open[row.id] * Leverage * row.pct
<1>3. amount \in Int
  BY <1>1, <1>2
<1> HIDE DEF amount
<1>4. amount \div 100 \in Int
  BY <1>3
<1> QED BY <1>1, <1>4 DEF Profit, Percent, amount

LEMMA ClosedBook ==
    ASSUME NEW b \in [Accounts -> Book], NEW row \in Row, NEW a \in Accounts
    PROVE  /\ Closed(b, row)[a] \in Book
           /\ Closed(b, row)[a] =
                IF row.id \in DOMAIN b[a].open
                THEN Settled(b[a], Profit(a, b[a], row), row.id) ELSE b[a]
BY ProfitType, SettledTyped DEF Closed

LEMMA ClosedTyped ==
    ASSUME NEW b \in [Accounts -> Book], NEW row \in Row
    PROVE  Closed(b, row) \in [Accounts -> Book]
<1>1. Closed(b, row) = [a \in Accounts |-> Closed(b, row)[a]]
  BY DEF Closed
<1> QED BY <1>1, ClosedBook


-----------------------------------------------------------------------------
(***************************************************************************)
(* The replay of the rows.                                                 *)
(***************************************************************************)
Events(R) ==
    {[time |-> r.entry, exit |-> 0, row |-> r] : r \in R}
    \cup {[time |-> r.exit, exit |-> -1, row |-> r] : r \in {x \in R : x.st = "closed"}}
Before(x, y) ==
    \/ x.time < y.time
    \/ x.time = y.time /\ x.exit < y.exit
    \/ x.time = y.time /\ x.exit = y.exit /\ x.row.id[1] < y.row.id[1]
Booked(b, e) == IF e.exit = 0 THEN Opened(b, e.row) ELSE Closed(b, e.row)
LastOf(E) == CHOOSE e \in E : \A x \in E \ {e} : Before(x, e)
Books(g, E) == IF E = {} THEN NewBooks ELSE Booked(g[E \ {LastOf(E)}], LastOf(E))
Replayed(D) == CHOOSE g : g = [E \in SUBSET D |-> Books(g, E)]

LEMMA ReplayIsReplayed ==
    ASSUME NEW R
    PROVE  Replay(R) = Replayed(Events(R))[Events(R)]
BY DEF Replay, Events, Before, Booked, LastOf, Books, Replayed

\* Rows as the store holds them: of different positions, each closed after it
\* was opened, and no two of a symbol in one minute.
Tidy(R) ==
    /\ R \in SUBSET Row /\ IsFiniteSet(R)
    /\ \A r \in R : r.id[2] = r.entry /\ (r.st = "closed" => r.entry < r.exit)
    /\ \A r, q \in R : r.id = q.id => r = q
    /\ \A r, q \in R : r.st = "closed" /\ q.st = "closed" /\ r.id[1] = q.id[1] /\ r.exit = q.exit
         => r = q

LEMMA RowTypes ==
    ASSUME NEW r \in Row
    PROVE  /\ r.id \in PositionIds /\ r.id = <<r.id[1], r.id[2]>>
           /\ r.id[1] \in Symbols /\ r.id[1] \in Nat /\ r.id[2] \in Minutes /\ r.id[2] \in Nat
           /\ r.entry \in Nat /\ r.exit \in Nat /\ r.margin \in Nat /\ r.pnl \in Int
           /\ r.st \in {"open", "closed"}
<1>1. r.id \in Symbols \X Minutes
  BY DEF Row, PositionIds
<1>2. Symbols \subseteq Nat
  BY MonitorAssumption
<1>3. MaxMinutes \in Nat
  BY MonitorAssumption
<1>4. Minutes \subseteq Nat /\ 0..MaxMinutes \subseteq Nat
  BY <1>3 DEF Minutes
<1>5. r.entry \in Minutes /\ r.exit \in 0..MaxMinutes /\ r.margin \in Nat /\ r.pnl \in Int
      /\ r.st \in {"open", "closed"}
  BY DEF Row
<1>6. r.id = <<r.id[1], r.id[2]>> /\ r.id[1] \in Symbols /\ r.id[2] \in Minutes
  BY <1>1
<1>7. r.id[1] \in Nat /\ r.id[2] \in Nat /\ r.entry \in Nat /\ r.exit \in Nat
  BY <1>2, <1>4, <1>5, <1>6
<1> QED BY <1>1, <1>5, <1>6, <1>7 DEF PositionIds

LEMMA EventsOf ==
    ASSUME NEW R, Tidy(R), NEW e \in Events(R)
    PROVE  /\ e.row \in R /\ e.row \in Row
           /\ \/ e.exit = 0 /\ e.time = e.row.entry
              \/ e.exit = -1 /\ e.time = e.row.exit /\ e.row.st = "closed"
           /\ e = [time |-> e.time, exit |-> e.exit, row |-> e.row]
           /\ e.time \in Nat /\ e.exit \in Int /\ e.row.id[1] \in Nat
<1>1. CASE \E r \in R : e = [time |-> r.entry, exit |-> 0, row |-> r]
  <2>1. PICK r \in R : e = [time |-> r.entry, exit |-> 0, row |-> r]
    BY <1>1
  <2>2. e.row = r /\ e.exit = 0 /\ e.time = r.entry /\ r \in Row
    BY <2>1 DEF Tidy
  <2> QED BY <2>1, <2>2, RowTypes
<1>2. CASE \E r \in R : r.st = "closed" /\ e = [time |-> r.exit, exit |-> -1, row |-> r]
  <2>1. PICK r \in R : r.st = "closed" /\ e = [time |-> r.exit, exit |-> -1, row |-> r]
    BY <1>2
  <2>2. e.row = r /\ e.exit = -1 /\ e.time = r.exit /\ r \in Row
    BY <2>1 DEF Tidy
  <2> QED BY <2>1, <2>2, RowTypes
<1> QED BY <1>1, <1>2 DEF Events

LEMMA EventsFinite ==
    ASSUME NEW R, Tidy(R)
    PROVE  IsFiniteSet(Events(R))
<1> DEFINE C == {x \in R : x.st = "closed"}
           A == {[time |-> r.entry, exit |-> 0, row |-> r] : r \in R}
           B == {[time |-> r.exit, exit |-> -1, row |-> r] : r \in C}
           a == [r \in R |-> [time |-> r.entry, exit |-> 0, row |-> r]]
           b == [r \in C |-> [time |-> r.exit, exit |-> -1, row |-> r]]
<1>1. IsFiniteSet(R) /\ IsFiniteSet(C)
  BY FS_Subset DEF Tidy
<1>2. A = {a[r] : r \in R} /\ B = {b[r] : r \in C}
  OBVIOUS
<1>3. Events(R) = A \cup B
  BY DEF Events
<1> HIDE DEF A, B, a, b, C
<1>4. IsFiniteSet(A) /\ IsFiniteSet(B)
  BY <1>1, <1>2, FiniteNames
<1> QED BY <1>3, <1>4, FS_Union

\* The order of the events is total.
LEMMA EventsOrdered ==
    ASSUME NEW R, Tidy(R), NEW x \in Events(R), NEW y \in Events(R)
    PROVE  /\ x # y => Before(x, y) \/ Before(y, x)
           /\ Before(x, y) => ~Before(y, x) /\ x # y
           /\ \A z \in Events(R) : Before(x, y) /\ Before(y, z) => Before(x, z)
<1>1. /\ x.time \in Nat /\ x.exit \in Int /\ x.row.id[1] \in Nat
      /\ y.time \in Nat /\ y.exit \in Int /\ y.row.id[1] \in Nat
  BY EventsOf
<1>2. ASSUME x # y, x.time = y.time, x.exit = y.exit
      PROVE  x.row.id[1] # y.row.id[1]
  <2>1. x.row # y.row
    BY <1>2, EventsOf
  <2>2. x.row \in R /\ y.row \in R /\ x.row \in Row /\ y.row \in Row
    BY EventsOf
  <2>3. x.row.id # y.row.id
    BY <2>1, <2>2 DEF Tidy
  <2>a. /\ \/ x.exit = 0 /\ x.time = x.row.entry
           \/ x.exit = -1 /\ x.time = x.row.exit /\ x.row.st = "closed"
        /\ \/ y.exit = 0 /\ y.time = y.row.entry
           \/ y.exit = -1 /\ y.time = y.row.exit /\ y.row.st = "closed"
    BY EventsOf
  <2>4. CASE x.exit = 0
    <3>1. x.row.entry = y.row.entry
      BY <1>2, <2>4, <2>a
    <3>2. x.row.id[2] = y.row.id[2]
      BY <2>2, <3>1 DEF Tidy
    <3>3. x.row.id = <<x.row.id[1], x.row.id[2]>> /\ y.row.id = <<y.row.id[1], y.row.id[2]>>
      BY <2>2, RowTypes
    <3> QED BY <2>3, <3>2, <3>3
  <2>5. CASE x.exit = -1
    <3>1. x.row.exit = y.row.exit /\ x.row.st = "closed" /\ y.row.st = "closed"
      BY <1>2, <2>5, <2>a
    <3> QED BY <2>1, <2>2, <3>1 DEF Tidy
  <2> QED BY <2>4, <2>5, EventsOf
<1>3. x # y => Before(x, y) \/ Before(y, x)
  BY <1>1, <1>2 DEF Before
<1>4. Before(x, y) => ~Before(y, x) /\ x # y
  BY <1>1 DEF Before
<1>5. ASSUME NEW z \in Events(R), Before(x, y), Before(y, z)
      PROVE  Before(x, z)
  <2>1. z.time \in Nat /\ z.exit \in Int /\ z.row.id[1] \in Nat
    BY EventsOf
  <2> QED BY <1>1, <1>5, <2>1 DEF Before
<1> QED BY <1>3, <1>4, <1>5

LEMMA LastEvent ==
    ASSUME NEW R, Tidy(R), NEW E \in SUBSET Events(R), E # {}
    PROVE  LastOf(E) \in E /\ \A x \in E \ {LastOf(E)} : Before(x, LastOf(E))
<1> DEFINE D == Events(R)
           Good == {s \in SUBSET D : s # {} => \E e \in s : \A x \in s \ {e} : Before(x, e)}
<1>1. ASSUME NEW s \in SUBSET D, \A x \in s : s \ {x} \in Good
      PROVE  s \in Good
  <2>1. SUFFICES ASSUME s # {} PROVE \E e \in s : \A x \in s \ {e} : Before(x, e)
    OBVIOUS
  <2>2. PICK y \in s : TRUE
    BY <2>1
  <2>3. s \ {y} # {} => \E e \in s \ {y} : \A x \in (s \ {y}) \ {e} : Before(x, e)
    BY <1>1, <2>2
  <2>4. CASE s \ {y} = {}
    BY <2>2, <2>4
  <2>5. CASE s \ {y} # {}
    <3>1. PICK e \in s \ {y} : \A x \in (s \ {y}) \ {e} : Before(x, e)
      BY <2>3, <2>5
    <3>2. e \in D /\ y \in D /\ e # y
      BY <2>2
    <3>3. CASE Before(y, e)
      <4>1. \A x \in s \ {e} : Before(x, e)
        BY <3>1, <3>3
      <4> QED BY <4>1
    <3>4. CASE Before(e, y)
      <4>1. ASSUME NEW x \in s \ {y}
            PROVE  Before(x, y)
        <5>1. CASE x = e
          BY <3>4, <5>1
        <5>2. CASE x # e
          <6>1. x \in D /\ Before(x, e)
            BY <3>1, <5>2
          <6> QED BY <3>2, <3>4, <6>1, EventsOrdered
        <5> QED BY <5>1, <5>2
      <4> QED BY <2>2, <4>1
    <3> QED BY <3>2, <3>3, <3>4, EventsOrdered
  <2> QED BY <2>4, <2>5
<1>2. IsFiniteSet(D)
  BY EventsFinite
<1>3. SUBSET D \subseteq Good
  <2> HIDE DEF Good, D
  <2> QED BY <1>1, <1>2, EverySubset
<1>4. \E e \in E : \A x \in E \ {e} : Before(x, e)
  BY <1>3
<1> QED BY <1>4 DEF LastOf

LEMMA BookedTyped ==
    ASSUME NEW R, Tidy(R), NEW b \in [Accounts -> Book], NEW e \in Events(R)
    PROVE  Booked(b, e) \in [Accounts -> Book]
<1>1. e.row \in Row
  BY EventsOf
<1> QED BY <1>1, OpenedTyped, ClosedTyped DEF Booked

\* The replays of the sets of events exist.
LEMMA ReplaysExist ==
    ASSUME NEW R, Tidy(R)
    PROVE  \A E \in SUBSET Events(R) :
             /\ Replayed(Events(R))[E] = Books(Replayed(Events(R)), E)
             /\ Replayed(Events(R))[E] \in [Accounts -> Book]
<1> DEFINE S == Events(R)
           Typed == [Accounts -> Book]
           D(n) == {s \in SUBSET S : Cardinality(s) <= n}
           Solves(g, n) == g \in [D(n) -> Typed] /\ \A s \in D(n) : g[s] = Books(g, s)
           Solved == {n \in Nat : \E g : Solves(g, n)}
<1>a. IsFiniteSet(S)
  BY EventsFinite
<1>0. \A s \in SUBSET S : IsFiniteSet(s) /\ Cardinality(s) \in Nat /\ (Cardinality(s) = 0 <=> s = {})
  BY <1>a, FS_Subset, FS_CardinalityType, FS_EmptySet
<1>1. ASSUME NEW s \in SUBSET S, s # {}
      PROVE  /\ LastOf(s) \in s /\ s \ {LastOf(s)} \in SUBSET S
             /\ Cardinality(s \ {LastOf(s)}) = Cardinality(s) - 1
  BY <1>0, <1>1, LastEvent, FS_RemoveElement
<1>b. ASSUME NEW g, NEW s \in SUBSET S, s # {} => g[s \ {LastOf(s)}] \in Typed
      PROVE  Books(g, s) \in Typed
  <2>1. CASE s = {}
    BY <2>1, NewBooksTyped DEF Books
  <2>2. CASE s # {}
    <3>1. LastOf(s) \in Events(R) /\ g[s \ {LastOf(s)}] \in [Accounts -> Book]
      BY <1>1, <1>b, <2>2
    <3>2. Booked(g[s \ {LastOf(s)}], LastOf(s)) \in [Accounts -> Book]
      BY <3>1, BookedTyped
    <3> QED BY <2>2, <3>2 DEF Books
  <2> QED BY <2>1, <2>2
<1> HIDE DEF Typed, S
<1>2. 0 \in Solved
  <2> DEFINE g == [s \in D(0) |-> Books(<<>>, s)]
  <2>1. \A s \in D(0) : s = {}
    BY <1>0
  <2>2. \A s \in D(0) : Books(<<>>, s) \in Typed
    BY <1>b, <2>1
  <2>3. \A s \in D(0) : Books(<<>>, s) = Books(g, s)
    BY <2>1 DEF Books
  <2>4. Solves(g, 0)
    BY <2>2, <2>3
  <2> HIDE DEF Solves, g
  <2> QED BY <2>4
<1>3. ASSUME NEW n \in Nat, n \in Solved
      PROVE  n + 1 \in Solved
  <2>1. PICK g : Solves(g, n)
    BY <1>3
  <2> DEFINE h == [s \in D(n + 1) |-> Books(g, s)]
  <2>2. \A s \in D(n + 1) : s # {} => s \ {LastOf(s)} \in D(n)
    BY <1>0, <1>1
  <2>3. \A s \in D(n) : s \in D(n + 1) /\ h[s] = g[s]
    BY <1>0, <2>1
  <2>4. \A s \in D(n + 1) : h[s] = Books(h, s)
    BY <2>2, <2>3 DEF Books
  <2>5. \A s \in D(n + 1) : Books(g, s) \in Typed
    BY <1>b, <2>1, <2>2
  <2>6. h \in [D(n + 1) -> Typed]
    BY <2>5
  <2>7. Solves(h, n + 1)
    BY <2>4, <2>6
  <2> HIDE DEF Solves, h
  <2>8. n + 1 \in Nat
    OBVIOUS
  <2> QED BY <2>7, <2>8
<1>4. Cardinality(S) \in Solved
  <2> HIDE DEF Solved
  <2> QED BY <1>0, <1>2, <1>3, EveryNumber
<1>5. PICK g : Solves(g, Cardinality(S))
  BY <1>4
<1>6. D(Cardinality(S)) = SUBSET S
  BY <1>a, FS_Subset
<1>7. g = [s \in SUBSET S |-> Books(g, s)]
  BY <1>5, <1>6
<1>8. Replayed(S) = [s \in SUBSET S |-> Books(Replayed(S), s)]
  BY <1>7 DEF Replayed
<1> DEFINE I == Replayed(S)
           Good == {s \in SUBSET S : I[s] \in Typed}
<1>9. \A s \in SUBSET S : I[s] = Books(I, s)
  BY <1>8
<1> HIDE DEF I, D, Solves, Solved
<1>10. ASSUME NEW s \in SUBSET S, \A x \in s : s \ {x} \in Good
       PROVE  s \in Good
  <2>1. I[s] = Books(I, s)
    BY <1>9
  <2>2. s # {} => I[s \ {LastOf(s)}] \in Typed
    BY <1>1, <1>10
  <2> QED BY <1>b, <2>1, <2>2
<1>11. SUBSET S \subseteq Good
  <2> HIDE DEF Good
  <2> QED BY <1>a, <1>10, EverySubset
<1> QED BY <1>9, <1>11 DEF I, S, Typed

LEMMA ReplayTyped ==
    ASSUME NEW R, Tidy(R)
    PROVE  Replay(R) \in [Accounts -> Book]
BY ReplayIsReplayed, ReplaysExist


\* The account that copies the strategy holds, after the replay, the positions
\* that are open, with the strategy's margin, and has realized what the others
\* brought.
EntryOf(r) == [time |-> r.entry, exit |-> 0, row |-> r]
ExitOf(r) == [time |-> r.exit, exit |-> -1, row |-> r]
EntriesIn(R, E) == {r \in R : EntryOf(r) \in E}
ExitsIn(R, E) == {r \in R : r.st = "closed" /\ ExitOf(r) \in E}
EntriesFirst(E) == \A e \in E : e.exit # 0 => EntryOf(e.row) \in E
CopiesRows(book, held, closed) ==
    /\ DOMAIN book.open = {r.id : r \in held}
    /\ \A r \in held : book.open[r.id] = r.margin
    /\ book.realized = Total([r \in closed |-> r.pnl])

LEMMA ExitAfterEntry ==
    ASSUME NEW R, Tidy(R), NEW r \in R, r.st = "closed"
    PROVE  /\ EntryOf(r) \in Events(R) /\ ExitOf(r) \in Events(R)
           /\ Before(EntryOf(r), ExitOf(r))
<1>1. EntryOf(r) \in Events(R) /\ ExitOf(r) \in Events(R)
  BY DEF Events, EntryOf, ExitOf
<1>2. r.entry < r.exit
  BY DEF Tidy
<1> QED BY <1>1, <1>2 DEF Before, EntryOf, ExitOf

LEMMA CopyOpens ==
    ASSUME NEW b \in [Accounts -> Book], NEW r \in Row, r.margin > 0,
           NEW held, NEW closed, CopiesRows(b[Master], held, closed),
           \A q \in held : q.id # r.id
    PROVE  CopiesRows(Opened(b, r)[Master], held \cup {r}, closed)
<1>1. b[Master] \in Book /\ Master \in Accounts
  BY AccountAssumption
<1>2. MarginFor(Master, b[Master], r) = r.margin
  BY <1>1, MarginType
<1>3. r.id \notin DOMAIN b[Master].open
  BY DEF CopiesRows
<1>4. r.margin \in Nat
  BY RowTypes
<1>5. Opened(b, r)[Master] = [b[Master] EXCEPT !.open = Put(b[Master].open, r.id, r.margin)]
  BY <1>1, <1>2, <1>3, <1>4 DEF Opened
<1>6. /\ Opened(b, r)[Master].open = Put(b[Master].open, r.id, r.margin)
      /\ Opened(b, r)[Master].realized = b[Master].realized
  BY <1>1, <1>5 DEF Book
<1>7. DOMAIN Put(b[Master].open, r.id, r.margin) = {q.id : q \in held \cup {r}}
  BY DEF CopiesRows, Put
<1>8. \A q \in held \cup {r} : Put(b[Master].open, r.id, r.margin)[q.id] = q.margin
  BY DEF CopiesRows, Put
<1> QED BY <1>6, <1>7, <1>8 DEF CopiesRows

LEMMA CopyCloses ==
    ASSUME NEW b \in [Accounts -> Book], NEW r \in Row,
           NEW held, NEW closed, CopiesRows(b[Master], held, closed), r \in held,
           \A q \in held : q.id = r.id => q = r,
           IsFiniteSet(closed), \A q \in closed : q.pnl \in Int, r \notin closed
    PROVE  CopiesRows(Closed(b, r)[Master], held \ {r}, closed \cup {r})
<1>1. b[Master] \in Book /\ Master \in Accounts
  BY AccountAssumption
<1>2. r.id \in DOMAIN b[Master].open
  BY DEF CopiesRows
<1>3. Closed(b, r)[Master] = Settled(b[Master], r.pnl, r.id)
  BY <1>1, <1>2, ClosedBook DEF Profit
<1>4. r.pnl \in Int
  BY RowTypes
<1>5. /\ Closed(b, r)[Master].realized = b[Master].realized + r.pnl
      /\ Closed(b, r)[Master].open = Without(b[Master].open, r.id)
  BY <1>1, <1>3, <1>4, SettledTyped
<1>6. DOMAIN Without(b[Master].open, r.id) = {q.id : q \in held \ {r}}
  BY DEF CopiesRows, Without
<1>7. \A q \in held \ {r} : Without(b[Master].open, r.id)[q.id] = q.margin
  BY DEF CopiesRows, Without
<1>8. Total([q \in closed \cup {r} |-> q.pnl]) = Total([q \in closed |-> q.pnl]) + r.pnl
  <2> DEFINE f == [q \in closed |-> q.pnl]
  <2>1. Put(f, r, r.pnl) = [q \in closed \cup {r} |-> q.pnl]
    BY DEF Put
  <2>2. IsFiniteSet(DOMAIN f) /\ r \notin DOMAIN f /\ \A q \in DOMAIN f : f[q] \in Int
    OBVIOUS
  <2> HIDE DEF f
  <2>3. Total(Put(f, r, r.pnl)) = Total(f) + r.pnl
    BY <1>4, <2>2, TotalPut
  <2> QED BY <2>1, <2>3 DEF f
<1> QED BY <1>5, <1>6, <1>7, <1>8 DEF CopiesRows

LEMMA ReplayCopies ==
    ASSUME NEW R, Tidy(R), \A r \in R : r.margin > 0
    PROVE  CopiesRows(Replay(R)[Master], {r \in R : r.st = "open"}, {r \in R : r.st = "closed"})
<1> DEFINE S == Events(R)
           I == Replayed(S)
           Copies(s) == CopiesRows(I[s][Master], EntriesIn(R, s) \ ExitsIn(R, s), ExitsIn(R, s))
           Good == {s \in SUBSET S : EntriesFirst(s) => Copies(s)}
<1>1. \A s \in SUBSET S : I[s] = Books(I, s) /\ I[s] \in [Accounts -> Book]
  BY ReplaysExist
<1>2. ASSUME NEW s \in SUBSET S, \A x \in s : s \ {x} \in Good
      PROVE  s \in Good
  <2>1. SUFFICES ASSUME EntriesFirst(s) PROVE Copies(s)
    OBVIOUS
  <2>2. CASE s = {}
    <3>1. EntriesIn(R, s) = {} /\ ExitsIn(R, s) = {}
      BY <2>2 DEF EntriesIn, ExitsIn
    <3>2. I[s] = NewBooks
      BY <1>1, <2>2 DEF Books
    <3>3. I[s][Master] = NewBook
      BY <3>2, AccountAssumption DEF NewBooks
    <3>4. Total([r \in {} |-> r.pnl]) = 0
      BY TotalNone
    <3> QED BY <3>1, <3>3, <3>4 DEF CopiesRows, NewBook
  <2>3. CASE s # {}
    <3> DEFINE l == LastOf(s)
               t == s \ {l}
               r == l.row
    <3>1. l \in s /\ l \in S /\ \A x \in t : Before(x, l)
      BY <2>3, LastEvent
    <3>2. I[s] = Booked(I[t], l) /\ I[t] \in [Accounts -> Book] /\ t \in SUBSET S /\ t \in Good
      BY <1>1, <1>2, <2>3, <3>1 DEF Books
    <3> HIDE DEF l
    <3>3. r \in R /\ r \in Row
      BY <3>1, EventsOf
    <3>4. EntriesFirst(t)
      <4>1. ASSUME NEW e \in t, e.exit # 0
            PROVE  EntryOf(e.row) \in t
        <5>1. EntryOf(e.row) \in s /\ e \in S
          BY <2>1, <4>1 DEF EntriesFirst
        <5>2. e.row \in R /\ e.row.st = "closed" /\ e = ExitOf(e.row)
          BY <4>1, <5>1, EventsOf DEF ExitOf
        <5>3. Before(EntryOf(e.row), e)
          BY <5>2, ExitAfterEntry
        <5>4. Before(e, l)
          BY <3>1
        <5>5. EntryOf(e.row) # l
          BY <3>1, <5>1, <5>3, <5>4, EventsOrdered
        <5> QED BY <5>1, <5>5
      <4> QED BY <4>1 DEF EntriesFirst
    <3>5. Copies(t)
      BY <3>2, <3>4
    <3>6. \A q \in R : q.id = r.id => q = r
      BY <3>3 DEF Tidy
    <3>7. CASE l.exit = 0
      <4>1. l = EntryOf(r)
        BY <3>1, <3>7, EventsOf DEF EntryOf
      <4>2. r \notin ExitsIn(R, s)
        <5>1. SUFFICES ASSUME r.st = "closed", ExitOf(r) \in s PROVE FALSE
          BY DEF ExitsIn
        <5>2. Before(l, ExitOf(r)) /\ ExitOf(r) \in S
          BY <3>3, <4>1, <5>1, ExitAfterEntry
        <5>3. ExitOf(r) # l
          BY <3>7 DEF ExitOf
        <5>4. Before(ExitOf(r), l)
          BY <3>1, <5>1, <5>3
        <5> QED BY <3>1, <5>2, <5>4, EventsOrdered
      <4>3. ExitsIn(R, s) = ExitsIn(R, t)
        <5>1. \A q \in R : ExitOf(q) # l
          BY <3>7 DEF ExitOf
        <5> QED BY <5>1 DEF ExitsIn
      <4>4. EntriesIn(R, s) = EntriesIn(R, t) \cup {r} /\ r \notin EntriesIn(R, t)
        <5>1. \A q \in R : EntryOf(q) = l <=> q = r
          BY <4>1 DEF EntryOf
        <5> QED BY <3>1, <3>3, <5>1 DEF EntriesIn
      <4>5. \A q \in EntriesIn(R, t) \ ExitsIn(R, t) : q.id # r.id
        BY <3>6, <4>4 DEF EntriesIn
      <4>6. CopiesRows(Opened(I[t], r)[Master],
                       (EntriesIn(R, t) \ ExitsIn(R, t)) \cup {r}, ExitsIn(R, t))
        <5>1. r.margin > 0
          BY <3>3
        <5> DEFINE b == I[t]
                   held == EntriesIn(R, t) \ ExitsIn(R, t)
        <5>2. CopiesRows(b[Master], held, ExitsIn(R, t)) /\ b \in [Accounts -> Book]
              /\ \A q \in held : q.id # r.id
          BY <3>2, <3>5, <4>5
        <5> HIDE DEF b, held, r
        <5> QED BY <3>3, <5>1, <5>2, CopyOpens DEF b, held
      <4>7. (EntriesIn(R, t) \ ExitsIn(R, t)) \cup {r} = EntriesIn(R, s) \ ExitsIn(R, s)
        BY <4>2, <4>3, <4>4
      <4>8. I[s] = Opened(I[t], r)
        BY <3>2, <3>7 DEF Booked
      <4> QED BY <4>3, <4>6, <4>7, <4>8
    <3>8. CASE l.exit # 0
      <4>1. l = ExitOf(r) /\ r.st = "closed"
        BY <3>1, <3>8, EventsOf DEF ExitOf
      <4>2. r \in EntriesIn(R, t)
        <5>1. EntryOf(r) \in s
          BY <2>1, <3>1, <3>8 DEF EntriesFirst
        <5>2. EntryOf(r) # l
          BY <3>8 DEF EntryOf
        <5> QED BY <3>3, <5>1, <5>2 DEF EntriesIn
      <4>3. EntriesIn(R, s) = EntriesIn(R, t)
        <5>1. \A q \in R : EntryOf(q) # l
          BY <3>8 DEF EntryOf
        <5> QED BY <5>1 DEF EntriesIn
      <4>4. ExitsIn(R, s) = ExitsIn(R, t) \cup {r} /\ r \notin ExitsIn(R, t)
        <5>1. \A q \in R : ExitOf(q) = l <=> q = r
          BY <4>1 DEF ExitOf
        <5> QED BY <3>1, <3>3, <4>1, <5>1 DEF ExitsIn
      <4>5. IsFiniteSet(ExitsIn(R, t)) /\ \A q \in ExitsIn(R, t) : q.pnl \in Int
        <5>1. ExitsIn(R, t) \in SUBSET R
          BY DEF ExitsIn
        <5>2. IsFiniteSet(ExitsIn(R, t))
          BY <5>1, FS_Subset DEF Tidy
        <5>3. \A q \in ExitsIn(R, t) : q \in Row
          BY <5>1 DEF Tidy
        <5> QED BY <5>2, <5>3, RowTypes
      <4>6. CopiesRows(Closed(I[t], r)[Master],
                       (EntriesIn(R, t) \ ExitsIn(R, t)) \ {r}, ExitsIn(R, t) \cup {r})
        <5> DEFINE b == I[t]
                   held == EntriesIn(R, t) \ ExitsIn(R, t)
                   closed == ExitsIn(R, t)
        <5>1. \A q \in held : q.id = r.id => q = r
          BY <3>6 DEF EntriesIn
        <5>2. CopiesRows(b[Master], held, closed) /\ b \in [Accounts -> Book]
              /\ r \in held /\ r \notin closed
          BY <3>2, <3>5, <4>2, <4>4
        <5>3. IsFiniteSet(closed) /\ \A q \in closed : q.pnl \in Int
          BY <4>5
        <5> HIDE DEF b, held, r, closed
        <5> QED BY <3>3, <5>1, <5>2, <5>3, CopyCloses DEF b, held, closed
      <4>7. (EntriesIn(R, t) \ ExitsIn(R, t)) \ {r} = EntriesIn(R, s) \ ExitsIn(R, s)
        BY <4>3, <4>4
      <4>8. I[s] = Closed(I[t], r)
        BY <3>2, <3>8 DEF Booked
      <4> QED BY <4>4, <4>6, <4>7, <4>8
    <3> QED BY <3>7, <3>8
  <2> QED BY <2>2, <2>3
<1>3. SUBSET S \subseteq Good
  <2>1. IsFiniteSet(S)
    BY EventsFinite
  <2> HIDE DEF Good, S
  <2> QED BY <1>2, <2>1, EverySubset
<1>4. EntriesFirst(S)
  <2>1. ASSUME NEW e \in S
        PROVE  EntryOf(e.row) \in S
    <3>1. e.row \in R
      BY EventsOf
    <3> QED BY <3>1 DEF EntryOf, Events
  <2> QED BY <2>1 DEF EntriesFirst
<1>5. EntriesIn(R, S) = R /\ ExitsIn(R, S) = {r \in R : r.st = "closed"}
  BY DEF EntriesIn, ExitsIn, EntryOf, ExitOf, Events
<1>6. \A r \in R : r.st \in {"open", "closed"}
  BY RowTypes DEF Tidy
<1>7. EntriesIn(R, S) \ ExitsIn(R, S) = {r \in R : r.st = "open"}
  BY <1>5, <1>6
<1>8. Copies(S)
  BY <1>3, <1>4
<1>9. Replay(R) = I[S]
  BY ReplayIsReplayed
<1> QED BY <1>5, <1>7, <1>8, <1>9

-----------------------------------------------------------------------------
(***************************************************************************)
(* The candle: what it may do to the engine, and to the job.               *)
(***************************************************************************)
LEMMA MinuteTypes ==
    ASSUME TypeOK
    PROVE  /\ minute \in Nat \ {0} /\ minute \in 0..MaxMinutes
           /\ Minutes \subseteq Nat /\ 0 \in 0..MaxMinutes /\ Symbols \subseteq Nat
<1>1. MaxMinutes \in Nat /\ Symbols \subseteq Nat
  BY MonitorAssumption
<1>2. minute \in 1..MaxMinutes
  BY DEF TypeOK, Minutes
<1> QED BY <1>1, <1>2 DEF Minutes

\* paper_sizing leaves the margins within the equity.
LEMMA SizingWithin ==
    ASSUME NEW x, x.gained \in Int, DOMAIN x.positions \subseteq Symbols,
           \A t \in DOMAIN x.positions : x.positions[t].margin \in Nat
    PROVE  /\ SizingOf(x) \in Int
           /\ \A s, n : s \notin DOMAIN x.positions /\ SizingOf(x) > 0 /\ n.margin = SizingOf(x) =>
                Total([t \in DOMAIN Put(x.positions, s, n) |-> Put(x.positions, s, n)[t].margin])
                  <= AtLeast0(Initial + x.gained)
<1> DEFINE equity == AtLeast0(Initial + x.gained)
           held == [t \in DOMAIN x.positions |-> x.positions[t].margin]
           used == Total(held)
           share == Percent(equity, Fraction[Master])
<1>1. equity \in Nat
  BY AccountAssumption DEF AtLeast0
<1>2. IsFiniteSet(DOMAIN held) /\ \A t \in DOMAIN held : held[t] \in Int
  BY MonitorAssumption, FS_Subset
<1>3. used \in Int
  <2> HIDE DEF held
  <2> QED BY <1>2, TotalInt
<1>4. share \in Int
  <2>1. Fraction[Master] \in 1..100
    BY AccountAssumption
  <2> DEFINE product == equity * Fraction[Master]
  <2>2. product \in Int
    BY <1>1, <2>1
  <2> HIDE DEF product
  <2>3. product \div 100 \in Int
    BY <2>2
  <2> QED BY <2>3 DEF Percent, product
<1>5. SizingOf(x) = Smaller(AtLeast0(equity - used), share)
  BY DEF SizingOf
<1> HIDE DEF equity, share, used
<1>6. SizingOf(x) \in Int /\ (SizingOf(x) > 0 => used + SizingOf(x) <= equity)
  BY <1>1, <1>3, <1>4, <1>5 DEF Smaller, AtLeast0
<1>7. ASSUME NEW s, NEW n, s \notin DOMAIN x.positions, SizingOf(x) > 0, n.margin = SizingOf(x)
      PROVE  Total([t \in DOMAIN Put(x.positions, s, n) |-> Put(x.positions, s, n)[t].margin])
               <= equity
  <2> DEFINE v == n.margin
  <2>1. Put(held, s, v) =
          [t \in DOMAIN Put(x.positions, s, n) |-> Put(x.positions, s, n)[t].margin]
    BY DEF Put
  <2>2. s \notin DOMAIN held /\ v \in Int
    BY <1>6, <1>7
  <2> HIDE DEF held, v
  <2>3. Total(Put(held, s, v)) = Total(held) + v
    BY <1>2, <2>2, TotalPut
  <2> QED BY <1>3, <1>6, <1>7, <2>1, <2>3 DEF used, v
<1> QED BY <1>6, <1>7 DEF equity

SameTrade(p, q) == p.id = q.id /\ p.entry = q.entry /\ p.margin = q.margin
KeptFrom(s, p, x) ==
    /\ s \in DOMAIN positions /\ SameTrade(p, positions[s]) /\ p.st = "open"
    /\ x = [positions |-> [positions EXCEPT ![s] = p], gained |-> gained,
            rows |-> <<p>>, signals |-> <<>>]
ExitedFrom(s, p, x) ==
    /\ s \in DOMAIN positions /\ SameTrade(p, positions[s]) /\ p.st = "closed" /\ p.exit = minute
    /\ x = [positions |-> Without(positions, s), gained |-> gained + p.pnl,
            rows |-> <<p>>, signals |-> <<Signal("exit", p.id)>>]

LEMMA UpdatedStep ==
    ASSUME TypeOK, Held, NEW s \in Symbols, NEW x \in Updated(s)
    PROVE  \/ s \notin DOMAIN positions /\ x = Memory
           \/ \E p \in Row : KeptFrom(s, p, x)
           \/ \E p \in Row : ExitedFrom(s, p, x)
<1>1. CASE s \notin DOMAIN positions
  BY <1>1 DEF Updated
<1>2. CASE s \in DOMAIN positions
  <2>1. positions[s] \in Row /\ positions[s].st = "open" /\ minute \in Minutes
        /\ minute \in 0..MaxMinutes
    BY <1>2, MinuteTypes DEF TypeOK, Held
  <2>2. CASE x \in Kept(s)
    <3>1. PICK p \in {[positions[s] EXCEPT !.updated = minute, !.trail = trail] :
                        trail \in {positions[s].trail, TRUE}} :
            x = [Memory EXCEPT !.positions[s] = p, !.rows = <<p>>]
      BY <2>2 DEF Kept
    <3>2. PICK trail \in {positions[s].trail, TRUE} :
            p = [positions[s] EXCEPT !.updated = minute, !.trail = trail]
      BY <3>1
    <3>3. trail \in BOOLEAN
      BY <2>1, <3>2 DEF Row
    <3>4. p \in Row /\ SameTrade(p, positions[s]) /\ p.st = "open"
      BY <2>1, <3>2, <3>3 DEF Row, SameTrade
    <3> QED BY <1>2, <3>1, <3>4 DEF KeptFrom, Memory
  <2>3. CASE x \in Exited(s)
    <3>1. PICK pct \in Profits :
            \E p \in {[positions[s] EXCEPT
                         !.st = "closed", !.updated = minute, !.exit = minute, !.pct = pct,
                         !.pnl = Percent(positions[s].margin * Leverage, pct)]} :
              x = [Memory EXCEPT
                     !.positions = Without(@, s), !.gained = @ + p.pnl, !.rows = <<p>>,
                     !.signals = <<Signal("exit", p.id)>>]
      BY <2>3 DEF Exited
    <3> DEFINE pnl == Percent(positions[s].margin * Leverage, pct)
               p == [positions[s] EXCEPT
                       !.st = "closed", !.updated = minute, !.exit = minute, !.pct = pct,
                       !.pnl = pnl]
    <3>2. x = [Memory EXCEPT
                 !.positions = Without(@, s), !.gained = @ + p.pnl, !.rows = <<p>>,
                 !.signals = <<Signal("exit", p.id)>>]
      BY <3>1
    <3>3. pnl \in Int
      <4>1. positions[s].margin \in Int /\ Leverage \in Int
        BY <2>1, RowTypes, AccountAssumption
      <4>2. Profits \subseteq Int
        BY MonitorAssumption
      <4> DEFINE amount == positions[s].margin * Leverage * pct
      <4>3. amount \in Int
        BY <4>1, <4>2
      <4> HIDE DEF amount
      <4>4. amount \div 100 \in Int
        BY <4>3
      <4> QED BY <4>4 DEF amount, Percent
    <3> HIDE DEF pnl
    <3>4. p \in Row /\ SameTrade(p, positions[s]) /\ p.st = "closed" /\ p.exit = minute
      BY <2>1, <3>3 DEF Row, SameTrade
    <3> HIDE DEF p
    <3> QED BY <1>2, <3>2, <3>4 DEF ExitedFrom, Memory
  <2> QED BY <1>2, <2>2, <2>3 DEF Updated
<1> QED BY <1>1, <1>2

\* The five outcomes of a candle.
NewEntry(s, n) ==
    /\ n.id = <<s, minute>> /\ n.st = "open" /\ n.entry = minute /\ n.margin > 0
    /\ CooldownOk(s)
    /\ entered' = [entered EXCEPT ![s] = @ \cup {minute}]
    /\ MarginHeld' <= AtLeast0(Initial + gained')
Committing(s, jobRows, signals) ==
    pc' = "rows" /\ job' = [symbol |-> s, rows |-> jobRows, signals |-> signals]
LeavesAlone ==
    UNCHANGED <<positions, gained, entered>> /\ pc' = "idle" /\ job' = NoJob
Keeps(s, p) ==
    /\ s \in DOMAIN positions /\ SameTrade(p, positions[s]) /\ p.st = "open"
    /\ positions' = [positions EXCEPT ![s] = p]
    /\ UNCHANGED <<gained, entered>> /\ Committing(s, <<p>>, <<>>)
Leaves(s, c) ==
    /\ s \in DOMAIN positions /\ SameTrade(c, positions[s]) /\ c.st = "closed" /\ c.exit = minute
    /\ gained' = gained + c.pnl
Exits(s, c) ==
    /\ Leaves(s, c)
    /\ positions' = Without(positions, s)
    /\ entered' = entered /\ Committing(s, <<c>>, <<Signal("exit", c.id)>>)
Enters(s, n) ==
    /\ s \notin DOMAIN positions /\ NewEntry(s, n)
    /\ positions' = Put(positions, s, n)
    /\ gained' = gained /\ Committing(s, <<n>>, <<Signal("open", n.id)>>)
Turns(s, c, n) ==
    /\ Leaves(s, c) /\ NewEntry(s, n)
    /\ positions' = Put(Without(positions, s), s, n)
    /\ Committing(s, <<c, n>>, <<Signal("exit", c.id), Signal("open", n.id)>>)

LEMMA NewPositionRow ==
    ASSUME TypeOK, NEW s \in Symbols, NEW m \in Nat
    PROVE  /\ NewPosition(s, m) \in Row /\ NewPosition(s, m).id = <<s, minute>>
           /\ NewPosition(s, m).st = "open" /\ NewPosition(s, m).entry = minute
           /\ NewPosition(s, m).margin = m
<1>1. minute \in Minutes /\ 0 \in 0..MaxMinutes /\ FALSE \in BOOLEAN /\ 0 \in Int
  BY MinuteTypes DEF TypeOK
<1>2. <<s, minute>> \in PositionIds
  BY <1>1 DEF PositionIds
<1> QED BY <1>1, <1>2 DEF NewPosition, Row

LEMMA AppendToOne ==
    ASSUME NEW x, NEW y
    PROVE  Append(<<x>>, y) = <<x, y>>
<1> DEFINE S == {x, y}
           a == Append(<<x>>, y)
           b == <<x, y>>
<1>1. <<x>> \in Seq(S) /\ y \in S /\ Len(<<x>>) = 1 /\ <<x>>[1] = x
  OBVIOUS
<1>2. a \in Seq(S) /\ Len(a) = 2 /\ a[1] = x /\ a[2] = y
  BY <1>1, AppendProperties
<1>3. b \in Seq(S) /\ Len(b) = 2 /\ b[1] = x /\ b[2] = y
  OBVIOUS
<1> HIDE DEF a, b, S
<1>4. \A i \in 1..Len(a) : a[i] = b[i]
  BY <1>2, <1>3
<1>5. a = b
  BY <1>2, <1>3, <1>4, SeqEqual
<1> QED BY <1>5 DEF a, b

LEMMA CandleStep ==
    ASSUME TypeOK, Held, NEW s \in Symbols, Candle(s)
    PROVE  /\ pc = "idle" /\ s \notin done /\ done' = done \cup {s}
           /\ UNCHANGED <<minute, books, rows, outbox, protection, errors, crashes>>
           /\ \/ LeavesAlone
              \/ \E p \in Row : Keeps(s, p)
              \/ \E c \in Row : Exits(s, c)
              \/ \E n \in Row : Enters(s, n)
              \/ \E c, n \in Row : Turns(s, c, n)
<1>1. pc = "idle" /\ s \notin done /\ done' = done \cup {s}
      /\ UNCHANGED <<minute, books, rows, outbox, protection, errors, crashes>>
  BY DEF Candle, store, bounds
<1>2. PICK x \in Updated(s), label \in BOOLEAN :
        LET enters == label /\ EntryAllowed(s, x)
            y == IF enters THEN WithEntry(s, x) ELSE x
        IN /\ positions' = y.positions
           /\ gained' = y.gained
           /\ entered' = IF enters THEN [entered EXCEPT ![s] = @ \cup {minute}] ELSE entered
           /\ job' = IF y.rows = <<>> THEN NoJob
                     ELSE [symbol |-> s, rows |-> y.rows, signals |-> y.signals]
           /\ pc' = IF y.rows = <<>> THEN "idle" ELSE "rows"
  BY DEF Candle
<1>3. \/ s \notin DOMAIN positions /\ x = Memory
      \/ \E p \in Row : KeptFrom(s, p, x)
      \/ \E p \in Row : ExitedFrom(s, p, x)
  BY <1>1, UpdatedStep
<1>4. CASE ~(label /\ EntryAllowed(s, x))
  <2>1. /\ positions' = x.positions /\ gained' = x.gained /\ entered' = entered
        /\ job' = IF x.rows = <<>> THEN NoJob
                  ELSE [symbol |-> s, rows |-> x.rows, signals |-> x.signals]
        /\ pc' = IF x.rows = <<>> THEN "idle" ELSE "rows"
    BY <1>2, <1>4
  <2>2. CASE x = Memory
    BY <1>1, <2>1, <2>2 DEF Memory, LeavesAlone
  <2>3. CASE \E p \in Row : KeptFrom(s, p, x)
    <3>1. PICK p \in Row : KeptFrom(s, p, x)
      BY <2>3
    <3>2. Keeps(s, p)
      BY <2>1, <3>1 DEF KeptFrom, Keeps, Committing
    <3> QED BY <1>1, <3>2
  <2>4. CASE \E p \in Row : ExitedFrom(s, p, x)
    <3>1. PICK p \in Row : ExitedFrom(s, p, x)
      BY <2>4
    <3>2. Exits(s, p)
      BY <2>1, <3>1 DEF ExitedFrom, Exits, Leaves, Committing
    <3> QED BY <1>1, <3>2
  <2> QED BY <1>3, <2>2, <2>3, <2>4
<1>5. CASE label /\ EntryAllowed(s, x)
  <2> DEFINE n == NewPosition(s, SizingOf(x))
  <2>1. /\ positions' = WithEntry(s, x).positions /\ gained' = WithEntry(s, x).gained
        /\ entered' = [entered EXCEPT ![s] = @ \cup {minute}]
        /\ job' = IF WithEntry(s, x).rows = <<>> THEN NoJob
                  ELSE [symbol |-> s, rows |-> WithEntry(s, x).rows, signals |-> WithEntry(s, x).signals]
        /\ pc' = IF WithEntry(s, x).rows = <<>> THEN "idle" ELSE "rows"
    BY <1>2, <1>5
  <2>2. s \notin DOMAIN x.positions /\ CooldownOk(s) /\ SizingOf(x) > 0
    BY <1>5 DEF EntryAllowed
  <2>3. /\ x.gained \in Int /\ DOMAIN x.positions \subseteq Symbols
        /\ \A t \in DOMAIN x.positions : x.positions[t].margin \in Nat
    <3>1. \A t \in DOMAIN positions : positions[t].margin \in Nat
      BY RowTypes DEF TypeOK
    <3>2. gained \in Int /\ DOMAIN positions \subseteq Symbols
      BY DEF TypeOK
    <3>3. CASE x = Memory
      BY <3>1, <3>2, <3>3 DEF Memory
    <3>4. ASSUME NEW p \in Row, KeptFrom(s, p, x)
          PROVE  s \in DOMAIN x.positions
      BY <3>4 DEF KeptFrom
    <3>5. ASSUME NEW p \in Row, ExitedFrom(s, p, x)
          PROVE  /\ x.gained \in Int /\ DOMAIN x.positions \subseteq Symbols
                 /\ \A t \in DOMAIN x.positions : x.positions[t].margin \in Nat
      <4>1. p.pnl \in Int
        BY RowTypes
      <4>2. x.positions = Without(positions, s) /\ x.gained = gained + p.pnl
        BY <3>5 DEF ExitedFrom
      <4> QED BY <3>1, <3>2, <4>1, <4>2 DEF Without
    <3> QED BY <1>3, <2>2, <3>3, <3>4, <3>5
  <2>4. SizingOf(x) \in Nat
    BY <2>2, <2>3, SizingWithin
  <2>5. n \in Row /\ n.id = <<s, minute>> /\ n.st = "open" /\ n.entry = minute
        /\ n.margin = SizingOf(x)
    BY <2>4, NewPositionRow
  <2> HIDE DEF n
  <2>6. Total([t \in DOMAIN Put(x.positions, s, n) |-> Put(x.positions, s, n)[t].margin])
          <= AtLeast0(Initial + x.gained)
    BY <2>2, <2>3, <2>5, SizingWithin
  <2>7. WithEntry(s, x) = [x EXCEPT !.positions = Put(@, s, n), !.rows = Append(@, n),
                                    !.signals = Append(@, Signal("open", n.id))]
    BY DEF WithEntry, n
  <2>8. CASE s \notin DOMAIN positions /\ x = Memory
    <3>1. WithEntry(s, x) = [positions |-> Put(positions, s, n), gained |-> gained,
                             rows |-> <<n>>, signals |-> <<Signal("open", n.id)>>]
      <4> DEFINE o == Signal("open", n.id)
      <4>1. Append(<<>>, n) = <<n>> /\ Append(<<>>, o) = <<o>>
        OBVIOUS
      <4> HIDE DEF o
      <4>2. WithEntry(s, x) = [Memory EXCEPT !.positions = Put(@, s, n), !.rows = Append(@, n),
                                             !.signals = Append(@, o)]
        BY <2>7, <2>8 DEF o
      <4>3. WithEntry(s, x) = [positions |-> Put(positions, s, n), gained |-> gained,
                               rows |-> Append(<<>>, n), signals |-> Append(<<>>, o)]
        BY <4>2 DEF Memory
      <4> QED BY <4>1, <4>3 DEF o
    <3>2. positions' = Put(x.positions, s, n) /\ gained' = x.gained
      BY <2>1, <2>8, <3>1 DEF Memory
    <3>3. MarginHeld' <= AtLeast0(Initial + gained')
      BY <2>6, <3>2 DEF MarginHeld
    <3>4. Enters(s, n)
      BY <2>1, <2>2, <2>5, <2>8, <3>1, <3>3 DEF Enters, NewEntry, Committing
    <3> QED BY <1>1, <2>5, <3>4
  <2>9. ASSUME NEW c \in Row, ExitedFrom(s, c, x)
        PROVE  Turns(s, c, n)
    <3>1. WithEntry(s, x) =
            [positions |-> Put(Without(positions, s), s, n), gained |-> gained + c.pnl,
             rows |-> <<c, n>>, signals |-> <<Signal("exit", c.id), Signal("open", n.id)>>]
      <4> DEFINE o == Signal("open", n.id)
                 e == Signal("exit", c.id)
      <4> HIDE DEF o, e
      <4>1. Append(<<c>>, n) = <<c, n>> /\ Append(<<e>>, o) = <<e, o>>
        BY AppendToOne
      <4>2. x = [positions |-> Without(positions, s), gained |-> gained + c.pnl,
                 rows |-> <<c>>, signals |-> <<e>>]
        BY <2>9 DEF ExitedFrom, e
      <4>3. WithEntry(s, x) =
              [positions |-> Put(Without(positions, s), s, n), gained |-> gained + c.pnl,
               rows |-> Append(<<c>>, n), signals |-> Append(<<e>>, o)]
        BY <2>7, <4>2 DEF o
      <4> QED BY <4>1, <4>3 DEF o, e
    <3>2. positions' = Put(x.positions, s, n) /\ gained' = x.gained
      BY <2>1, <2>9, <3>1 DEF ExitedFrom
    <3>3. MarginHeld' <= AtLeast0(Initial + gained')
      BY <2>6, <3>2 DEF MarginHeld
    <3>4. NewEntry(s, n)
      BY <2>1, <2>2, <2>5, <3>3 DEF NewEntry
    <3>5. Leaves(s, c)
      BY <2>1, <2>9, <3>1 DEF ExitedFrom, Leaves
    <3>6. positions' = Put(Without(positions, s), s, n)
      BY <2>1, <3>1
    <3>7. Committing(s, <<c, n>>, <<Signal("exit", c.id), Signal("open", n.id)>>)
      <4>1. <<c, n>> # <<>>
        OBVIOUS
      <4> QED BY <2>1, <3>1, <4>1 DEF Committing
    <3> QED BY <3>4, <3>5, <3>6, <3>7 DEF Turns
  <2>10. ASSUME NEW p \in Row, KeptFrom(s, p, x)
         PROVE  FALSE
    BY <2>2, <2>10 DEF KeptFrom
  <2> QED BY <1>1, <1>3, <2>5, <2>8, <2>9, <2>10
<1> QED BY <1>4, <1>5

LEMMA SoundStays ==
    ASSUME NEW m \in Nat, NEW n \in Nat, NEW c, NEW d, NEW e, NEW f, NEW r \in Row,
           SoundAt(r, m, c, e), n > m \/ (n = m /\ c \subseteq d),
           e[r.id[1]] \subseteq f[r.id[1]]
    PROVE  SoundAt(r, n, d, f)
<1>1. r.id[1] \in Nat /\ r.id[2] \in Nat /\ r.exit \in Nat
  BY RowTypes
<1> QED BY <1>1 DEF SoundAt, Past

\* A position held at a candle not yet handled was entered earlier.
LEMMA HeldEarlier ==
    ASSUME IInv, NEW s \in Symbols, s \notin done, s \in DOMAIN positions
    PROVE  /\ positions[s] \in Row /\ positions[s].id[1] = s /\ positions[s].st = "open"
           /\ positions[s].entry < minute /\ positions[s].id = <<s, positions[s].entry>>
           /\ Sound(positions[s])
<1>1. positions[s] \in Row /\ positions[s].id[1] = s
  BY DEF IInv, TypeOK
<1>2. positions[s].st = "open" /\ Sound(positions[s])
  BY DEF IInv, Held
<1> QED BY <1>1, <1>2, RowTypes DEF Sound, SoundAt, Past

\* A position entered at such a candle is new.
LEMMA EntryIsNew ==
    ASSUME IInv, NEW s \in Symbols, s \notin done
    PROVE  /\ <<s, minute>> \notin DOMAIN rows
           /\ s \in DOMAIN positions => positions[s].id # <<s, minute>>
<1>1. ASSUME <<s, minute>> \in DOMAIN rows PROVE FALSE
  <2> DEFINE r == rows[<<s, minute>>]
  <2>1. r \in Row /\ r.id = <<s, minute>> /\ Sound(r)
    BY <1>1 DEF IInv, TypeOK, StoredRows
  <2>2. minute \in Nat
    BY MinuteTypes DEF IInv
  <2> HIDE DEF r
  <2> QED BY <2>1, <2>2 DEF Sound, SoundAt, Past
<1>2. s \in DOMAIN positions => positions[s].id # <<s, minute>>
  <2>1. minute \in Nat
    BY MinuteTypes DEF IInv
  <2> QED BY <2>1, HeldEarlier
<1> QED BY <1>1, <1>2

\* What the outcomes of a candle of s have in common.
CandleRows(s) ==
    \A i \in DOMAIN job'.rows :
      LET r == job'.rows[i]
      IN /\ r.id[1] = s /\ SoundAt(r, minute, done', entered')
         /\ r.st = "open" =>
              i = Len(job'.rows) /\ s \in DOMAIN positions' /\ positions'[s] = r
         /\ r.st = "closed" =>
              /\ i = 1 /\ r.exit = minute
              /\ s \in DOMAIN positions /\ SameTrade(r, positions[s])
              /\ s \in DOMAIN positions' => positions'[s].id = <<s, minute>>
CandleSignals(s) ==
    \A i \in DOMAIN job'.signals :
      LET signal == job'.signals[i]
      IN /\ signal.action \in {"open", "exit"}
         /\ signal.action = "exit" =>
              /\ i = 1 /\ s \in DOMAIN positions /\ signal.id = positions[s].id
              /\ \E j \in DOMAIN job'.rows :
                   job'.rows[j].id = signal.id /\ job'.rows[j].st = "closed"
         /\ signal.action = "open" =>
              /\ s \in DOMAIN positions' /\ signal.id = positions'[s].id
              /\ signal.id = <<s, minute>>
              /\ \E j \in DOMAIN job'.rows :
                   job'.rows[j].id = signal.id /\ job'.rows[j].st = "open"
CandleHolds(s) ==
    /\ DOMAIN positions' \subseteq DOMAIN positions \cup {s}
    /\ \A t \in DOMAIN positions \ {s} : t \in DOMAIN positions' /\ positions'[t] = positions[t]
    /\ s \in DOMAIN positions' =>
         /\ positions'[s] \in Row /\ positions'[s].st = "open" /\ positions'[s].id[1] = s
         /\ SoundAt(positions'[s], minute, done', entered')
         /\ \/ positions'[s].id = <<s, minute>>
            \/ s \in DOMAIN positions /\ SameTrade(positions'[s], positions[s])
    /\ s \in DOMAIN positions =>
         \/ \E j \in DOMAIN job'.rows : job'.rows[j].st = "closed"
         \/ s \in DOMAIN positions' /\ SameTrade(positions'[s], positions[s])
CandleMemory(s) ==
    /\ pc' \in {"idle", "rows"} /\ job' \in Job /\ gained' \in Int
    /\ (pc' = "rows" <=> job'.rows # <<>>) /\ (pc' = "idle" => job'.signals = <<>>)
    /\ pc' = "rows" => job'.symbol = s
    /\ entered' \in [Symbols -> SUBSET Minutes]
    /\ entered' = entered
       \/ (CooldownOk(s) /\ entered' = [entered EXCEPT ![s] = @ \cup {minute}])
OneCandle(s) == CandleMemory(s) /\ CandleHolds(s) /\ CandleRows(s) /\ CandleSignals(s)

LEMMA ShortJobs ==
    ASSUME TypeOK, NEW s \in Symbols
    PROVE  /\ \A id \in PositionIds, action \in {"open", "exit"} : Signal(action, id) \in SignalRow
           /\ \A c \in Row : [symbol |-> s, rows |-> <<c>>, signals |-> <<>>] \in Job
           /\ \A c \in Row, e \in SignalRow :
                [symbol |-> s, rows |-> <<c>>, signals |-> <<e>>] \in Job
           /\ \A c, n \in Row, e, o \in SignalRow :
                [symbol |-> s, rows |-> <<c, n>>, signals |-> <<e, o>>] \in Job
           /\ NoJob \in Job
<1>1. \A id \in PositionIds, action \in {"open", "exit"} : Signal(action, id) \in SignalRow
  BY DEF TypeOK, Signal, SignalRow
<1>2. /\ \A c, n \in Row : <<c>> \in Seq(Row) /\ <<c, n>> \in Seq(Row)
      /\ \A e, o \in SignalRow : <<e>> \in Seq(SignalRow) /\ <<e, o>> \in Seq(SignalRow)
  <2> DEFINE A == Row
             B == SignalRow
  <2> HIDE DEF A, B
  <2>1. /\ \A c, n \in A : <<c>> \in Seq(A) /\ <<c, n>> \in Seq(A)
        /\ \A e, o \in B : <<e>> \in Seq(B) /\ <<e, o>> \in Seq(B)
    OBVIOUS
  <2> QED BY <2>1 DEF A, B
<1>3. <<>> \in Seq(Row) /\ <<>> \in Seq(SignalRow)
  OBVIOUS
<1> QED BY <1>1, <1>2, <1>3 DEF Job, NoJob

LEMMA LeavingRow ==
    ASSUME IInv, NEW s \in Symbols, s \notin done, done' = done \cup {s},
           entered[s] \subseteq entered'[s], NEW c \in Row, Leaves(s, c)
    PROVE  c.id[1] = s /\ SoundAt(c, minute, done', entered') /\ gained' \in Int
<1>1. /\ positions[s] \in Row /\ positions[s].id[1] = s /\ positions[s].entry < minute
      /\ Sound(positions[s])
  BY HeldEarlier DEF Leaves
<1>2. minute \in Nat /\ gained \in Int /\ c.pnl \in Int
  BY MinuteTypes, RowTypes DEF IInv, TypeOK
<1>3. SoundAt(positions[s], minute, done', entered')
  BY <1>1, <1>2, SoundStays DEF Sound
<1>4. Past(<<s, minute>>, minute, done')
  BY DEF Past
<1> QED BY <1>1, <1>2, <1>3, <1>4 DEF Leaves, SameTrade, SoundAt

LEMMA EnteringRow ==
    ASSUME IInv, NEW s \in Symbols, s \notin done, done' = done \cup {s},
           NEW n \in Row, NewEntry(s, n)
    PROVE  /\ n.id[1] = s /\ SoundAt(n, minute, done', entered')
           /\ entered' \in [Symbols -> SUBSET Minutes] /\ entered[s] \subseteq entered'[s]
           /\ CooldownOk(s) /\ entered' = [entered EXCEPT ![s] = @ \cup {minute}]
<1>1. minute \in Minutes /\ entered \in [Symbols -> SUBSET Minutes]
  BY DEF IInv, TypeOK
<1>2. entered' = [entered EXCEPT ![s] = @ \cup {minute}] /\ n.id = <<s, minute>>
      /\ n.entry = minute /\ n.margin > 0 /\ n.st = "open" /\ CooldownOk(s)
  BY DEF NewEntry
<1>3. entered' \in [Symbols -> SUBSET Minutes] /\ entered[s] \subseteq entered'[s]
      /\ minute \in entered'[s]
  BY <1>1, <1>2
<1>4. Past(<<s, minute>>, minute, done')
  BY DEF Past
<1> QED BY <1>2, <1>3, <1>4 DEF SoundAt

LEMMA CandleOutcome ==
    ASSUME IInv, NEW s \in Symbols, Candle(s)
    PROVE  OneCandle(s)
<1>1. TypeOK /\ Held
  BY DEF IInv
<1>2. /\ pc = "idle" /\ s \notin done /\ done' = done \cup {s}
      /\ UNCHANGED <<minute, books, rows, outbox, protection, errors, crashes>>
      /\ \/ LeavesAlone
         \/ \E p \in Row : Keeps(s, p)
         \/ \E c \in Row : Exits(s, c)
         \/ \E n \in Row : Enters(s, n)
         \/ \E c, n \in Row : Turns(s, c, n)
  BY <1>1, CandleStep
<1>3. minute \in Nat /\ entered \in [Symbols -> SUBSET Minutes] /\ gained \in Int
      /\ entered[s] \subseteq entered[s]
  BY <1>1, MinuteTypes DEF TypeOK
<1>4. s \in DOMAIN positions =>
        /\ positions[s] \in Row /\ positions[s].id[1] = s /\ positions[s].st = "open"
        /\ positions[s].id \in PositionIds /\ SoundAt(positions[s], minute, done', entered)
  <2>1. SUFFICES ASSUME s \in DOMAIN positions
                 PROVE  /\ positions[s] \in Row /\ positions[s].id[1] = s /\ positions[s].st = "open"
                        /\ positions[s].id \in PositionIds
                        /\ SoundAt(positions[s], minute, done', entered)
    OBVIOUS
  <2>2. positions[s] \in Row /\ positions[s].id[1] = s /\ positions[s].st = "open"
        /\ Sound(positions[s])
    BY <1>2, <2>1, HeldEarlier
  <2>3. SoundAt(positions[s], minute, done', entered)
    BY <1>2, <1>3, <2>2, SoundStays DEF Sound
  <2> QED BY <2>2, <2>3, RowTypes
<1>5. CASE LeavesAlone
  <2>1. job' = NoJob /\ pc' = "idle" /\ positions' = positions /\ gained' = gained
        /\ entered' = entered /\ NoJob \in Job
    BY <1>1, <1>5, ShortJobs DEF LeavesAlone
  <2>2. job'.rows = <<>> /\ job'.signals = <<>> /\ DOMAIN job'.rows = {} /\ DOMAIN job'.signals = {}
    BY <2>1 DEF NoJob
  <2>20. CandleMemory(s)
    BY <1>3, <1>4, <2>1, <2>2 DEF CandleMemory, SameTrade
  <2>21. CandleHolds(s)
    BY <1>3, <1>4, <2>1, <2>2 DEF CandleHolds, SameTrade
  <2>22. CandleRows(s)
    BY <1>3, <1>4, <2>1, <2>2 DEF CandleRows, SameTrade
  <2>23. CandleSignals(s)
    BY <1>3, <1>4, <2>1, <2>2 DEF CandleSignals, SameTrade
  <2> QED BY <2>20, <2>21, <2>22, <2>23 DEF OneCandle
<1>6. ASSUME NEW p \in Row, Keeps(s, p)
      PROVE  OneCandle(s)
  <2>1. /\ s \in DOMAIN positions /\ SameTrade(p, positions[s]) /\ p.st = "open"
        /\ positions' = [positions EXCEPT ![s] = p] /\ gained' = gained /\ entered' = entered
        /\ pc' = "rows" /\ job' = [symbol |-> s, rows |-> <<p>>, signals |-> <<>>]
    BY <1>6 DEF Keeps, Committing
  <2>2. job' \in Job
    BY <1>1, <2>1, ShortJobs
  <2>3. job'.rows = <<p>> /\ job'.signals = <<>> /\ job'.symbol = s
    BY <2>1
  <2>4. DOMAIN job'.rows = {1} /\ job'.rows[1] = p /\ Len(job'.rows) = 1 /\ job'.rows # <<>>
        /\ DOMAIN job'.signals = {}
    BY <2>3
  <2>5. p.id[1] = s /\ SoundAt(p, minute, done', entered')
    BY <1>4, <2>1 DEF SameTrade, SoundAt
  <2>6. DOMAIN positions' = DOMAIN positions /\ positions'[s] = p
        /\ \A t \in DOMAIN positions \ {s} : positions'[t] = positions[t]
    BY <2>1
  <2>20. CandleMemory(s)
    BY <1>3, <1>6, <2>1, <2>2, <2>3, <2>4, <2>5, <2>6 DEF CandleMemory
  <2>21. CandleHolds(s)
    BY <1>3, <1>6, <2>1, <2>2, <2>3, <2>4, <2>5, <2>6 DEF CandleHolds
  <2>22. CandleRows(s)
    BY <1>3, <1>6, <2>1, <2>2, <2>3, <2>4, <2>5, <2>6 DEF CandleRows
  <2>23. CandleSignals(s)
    BY <1>3, <1>6, <2>1, <2>2, <2>3, <2>4, <2>5, <2>6 DEF CandleSignals
  <2> QED BY <2>20, <2>21, <2>22, <2>23 DEF OneCandle
<1>7. ASSUME NEW c \in Row, Exits(s, c)
      PROVE  OneCandle(s)
  <2> DEFINE e == Signal("exit", c.id)
  <2>1. /\ Leaves(s, c) /\ positions' = Without(positions, s) /\ entered' = entered
        /\ pc' = "rows" /\ job' = [symbol |-> s, rows |-> <<c>>, signals |-> <<e>>]
    BY <1>7 DEF Exits, Committing
  <2>2. c.id[1] = s /\ SoundAt(c, minute, done', entered') /\ gained' \in Int
    BY <1>2, <1>3, <2>1, LeavingRow
  <2>3. e \in SignalRow /\ e.action = "exit" /\ e.id = c.id
    BY <1>1, ShortJobs, RowTypes DEF Signal
  <2>4. s \in DOMAIN positions /\ SameTrade(c, positions[s]) /\ c.st = "closed" /\ c.exit = minute
    BY <2>1 DEF Leaves
  <2> HIDE DEF e
  <2>5. job' \in Job
    BY <1>1, <2>1, <2>3, ShortJobs
  <2>6. job'.rows = <<c>> /\ job'.signals = <<e>> /\ job'.symbol = s
    BY <2>1
  <2>7. DOMAIN job'.rows = {1} /\ job'.rows[1] = c /\ Len(job'.rows) = 1 /\ job'.rows # <<>>
        /\ DOMAIN job'.signals = {1} /\ job'.signals[1] = e
    BY <2>6
  <2>8. DOMAIN positions' = DOMAIN positions \ {s}
        /\ \A t \in DOMAIN positions \ {s} : positions'[t] = positions[t]
    BY <2>1 DEF Without
  <2>20. CandleMemory(s)
    BY <1>3, <2>1, <2>2, <2>3, <2>4, <2>5, <2>6, <2>7, <2>8 DEF CandleMemory, SameTrade
  <2>21. CandleHolds(s)
    BY <1>3, <2>1, <2>2, <2>3, <2>4, <2>5, <2>6, <2>7, <2>8 DEF CandleHolds, SameTrade
  <2>22. CandleRows(s)
    BY <1>3, <2>1, <2>2, <2>3, <2>4, <2>5, <2>6, <2>7, <2>8 DEF CandleRows, SameTrade
  <2>23. CandleSignals(s)
    BY <1>3, <2>1, <2>2, <2>3, <2>4, <2>5, <2>6, <2>7, <2>8 DEF CandleSignals, SameTrade
  <2> QED BY <2>20, <2>21, <2>22, <2>23 DEF OneCandle
<1>8. ASSUME NEW n \in Row, Enters(s, n)
      PROVE  OneCandle(s)
  <2> DEFINE o == Signal("open", n.id)
  <2>1. /\ s \notin DOMAIN positions /\ NewEntry(s, n) /\ positions' = Put(positions, s, n)
        /\ gained' = gained
        /\ pc' = "rows" /\ job' = [symbol |-> s, rows |-> <<n>>, signals |-> <<o>>]
    BY <1>8 DEF Enters, Committing
  <2>2. /\ n.id[1] = s /\ SoundAt(n, minute, done', entered')
        /\ entered' \in [Symbols -> SUBSET Minutes]
        /\ CooldownOk(s) /\ entered' = [entered EXCEPT ![s] = @ \cup {minute}]
    BY <1>2, <2>1, EnteringRow
  <2>3. o \in SignalRow /\ o.action = "open" /\ o.id = n.id
    BY <1>1, ShortJobs, RowTypes DEF Signal
  <2>4. n.id = <<s, minute>> /\ n.st = "open"
    BY <2>1 DEF NewEntry
  <2> HIDE DEF o
  <2>5. job' \in Job
    BY <1>1, <2>1, <2>3, ShortJobs
  <2>6. job'.rows = <<n>> /\ job'.signals = <<o>> /\ job'.symbol = s
    BY <2>1
  <2>7. DOMAIN job'.rows = {1} /\ job'.rows[1] = n /\ Len(job'.rows) = 1 /\ job'.rows # <<>>
        /\ DOMAIN job'.signals = {1} /\ job'.signals[1] = o
    BY <2>6
  <2>8. DOMAIN positions' = DOMAIN positions \cup {s} /\ positions'[s] = n
        /\ \A t \in DOMAIN positions \ {s} : positions'[t] = positions[t]
    BY <2>1 DEF Put
  <2>20. CandleMemory(s)
    BY <1>3, <2>1, <2>2, <2>3, <2>4, <2>5, <2>6, <2>7, <2>8 DEF CandleMemory
  <2>21. CandleHolds(s)
    BY <1>3, <2>1, <2>2, <2>3, <2>4, <2>5, <2>6, <2>7, <2>8 DEF CandleHolds
  <2>22. CandleRows(s)
    BY <1>3, <2>1, <2>2, <2>3, <2>4, <2>5, <2>6, <2>7, <2>8 DEF CandleRows
  <2>23. CandleSignals(s)
    BY <1>3, <2>1, <2>2, <2>3, <2>4, <2>5, <2>6, <2>7, <2>8 DEF CandleSignals
  <2> QED BY <2>20, <2>21, <2>22, <2>23 DEF OneCandle
<1>9. ASSUME NEW c \in Row, NEW n \in Row, Turns(s, c, n)
      PROVE  OneCandle(s)
  <2> DEFINE e == Signal("exit", c.id)
             o == Signal("open", n.id)
  <2>1. /\ Leaves(s, c) /\ NewEntry(s, n) /\ positions' = Put(Without(positions, s), s, n)
        /\ pc' = "rows" /\ job' = [symbol |-> s, rows |-> <<c, n>>, signals |-> <<e, o>>]
    BY <1>9 DEF Turns, Committing
  <2>2. /\ n.id[1] = s /\ SoundAt(n, minute, done', entered')
        /\ entered' \in [Symbols -> SUBSET Minutes] /\ entered[s] \subseteq entered'[s]
        /\ CooldownOk(s) /\ entered' = [entered EXCEPT ![s] = @ \cup {minute}]
    BY <1>2, <2>1, EnteringRow
  <2>3. c.id[1] = s /\ SoundAt(c, minute, done', entered') /\ gained' \in Int
    BY <1>2, <2>1, <2>2, LeavingRow
  <2>4. /\ o \in SignalRow /\ o.action = "open" /\ o.id = n.id
        /\ e \in SignalRow /\ e.action = "exit" /\ e.id = c.id
    BY <1>1, ShortJobs, RowTypes DEF Signal
  <2>5. /\ n.id = <<s, minute>> /\ n.st = "open"
        /\ s \in DOMAIN positions /\ SameTrade(c, positions[s]) /\ c.st = "closed" /\ c.exit = minute
    BY <2>1 DEF NewEntry, Leaves
  <2> HIDE DEF o, e
  <2>6. job' \in Job
    BY <1>1, <2>1, <2>4, ShortJobs
  <2>7. job'.rows = <<c, n>> /\ job'.signals = <<e, o>> /\ job'.symbol = s
    BY <2>1
  <2>8. /\ DOMAIN job'.rows = {1, 2} /\ job'.rows[1] = c /\ job'.rows[2] = n
        /\ Len(job'.rows) = 2 /\ job'.rows # <<>>
        /\ DOMAIN job'.signals = {1, 2} /\ job'.signals[1] = e /\ job'.signals[2] = o
    BY <2>7
  <2>9. DOMAIN positions' = DOMAIN positions \cup {s} /\ positions'[s] = n
        /\ \A t \in DOMAIN positions \ {s} : positions'[t] = positions[t]
    BY <2>1 DEF Put, Without
  <2>20. CandleMemory(s)
    BY <1>3, <2>1, <2>2, <2>3, <2>4, <2>5, <2>6, <2>7, <2>8, <2>9 DEF CandleMemory, SameTrade
  <2>21. CandleHolds(s)
    BY <1>3, <2>1, <2>2, <2>3, <2>4, <2>5, <2>6, <2>7, <2>8, <2>9 DEF CandleHolds, SameTrade
  <2>22. CandleRows(s)
    BY <1>3, <2>1, <2>2, <2>3, <2>4, <2>5, <2>6, <2>7, <2>8, <2>9 DEF CandleRows, SameTrade
  <2>23. CandleSignals(s)
    BY <1>3, <2>1, <2>2, <2>3, <2>4, <2>5, <2>6, <2>7, <2>8, <2>9 DEF CandleSignals, SameTrade
  <2> QED BY <2>20, <2>21, <2>22, <2>23 DEF OneCandle
<1> QED BY <1>2, <1>5, <1>6, <1>7, <1>8, <1>9

-----------------------------------------------------------------------------
(***************************************************************************)
(* A candle preserves the invariant.                                       *)
(***************************************************************************)

\* A position held has not been told to the live process as closed.
LEMMA HeldUnpublished ==
    ASSUME IInv, NEW s \in DOMAIN positions
    PROVE  positions[s].id \notin Published("exit")
<1>1. SUFFICES ASSUME positions[s].id \in Published("exit") PROVE FALSE
  OBVIOUS
<1>2. PICK i \in DOMAIN outbox : outbox[i].action = "exit" /\ outbox[i].id = positions[s].id
  BY <1>1 DEF Published
<1> QED BY <1>2 DEF IInv, Outboxed, StoredRows

\* At most one entry is added to a day, a cooldown after the others.
LEMMA SpacedMore ==
    ASSUME IInv, NEW s \in Symbols, CooldownOk(s),
           entered' = [entered EXCEPT ![s] = @ \cup {minute}], minute' = minute
    PROVE  Spaced'
<1>1. minute \in Nat /\ entered \in [Symbols -> SUBSET Minutes] /\ Minutes \subseteq Nat
  BY MinuteTypes DEF IInv, TypeOK
<1>2. DayCap \in Nat \ {0} /\ Cooldown \in Nat \ {0} /\ DayLength \in Nat \ {0}
  BY MonitorAssumption
<1>3. \A m \in entered[s] : minute - m >= Cooldown
  BY DEF CooldownOk
<1>4. IsFiniteSet(Minutes)
  BY MonitorAssumption, FS_Interval DEF Minutes
<1>5. ASSUME NEW t \in Symbols
      PROVE  /\ \A m, n \in entered'[t] : m # n => m - n >= Cooldown \/ n - m >= Cooldown
             /\ \A d \in Nat : Cardinality({m \in entered'[t] : Day(m) = d}) <= DayCap
             /\ \A m \in entered'[t] : m <= minute
  <2>1. CASE t # s
    <3>1. entered'[t] = entered[t]
      BY <1>1, <2>1
    <3> QED BY <3>1 DEF IInv, Spaced
  <2>2. CASE t = s
    <3>1. entered'[t] = entered[s] \cup {minute}
      BY <1>1, <2>2
    <3>2. \A m, n \in entered[s] : m # n => m - n >= Cooldown \/ n - m >= Cooldown
      BY DEF IInv, Spaced
    <3>3. \A m, n \in entered'[t] : m # n => m - n >= Cooldown \/ n - m >= Cooldown
      BY <1>3, <3>1, <3>2
    <3>4. ASSUME NEW d \in Nat
          PROVE  Cardinality({m \in entered'[t] : Day(m) = d}) <= DayCap
      <4> DEFINE old == {m \in entered[s] : Day(m) = d}
                 new == {m \in entered'[t] : Day(m) = d}
      <4>1. Cardinality(old) <= DayCap /\ (Day(minute) = d => Cardinality(old) < DayCap)
        BY DEF IInv, Spaced, CooldownOk
      <4>2. IsFiniteSet(old) /\ Cardinality(old) \in Nat
        <5>1. old \in SUBSET Minutes
          BY <1>1
        <5> QED BY <1>4, <5>1, FS_Subset, FS_CardinalityType
      <4>3. new = old \/ (Day(minute) = d /\ new = old \cup {minute})
        BY <3>1
      <4> HIDE DEF old, new
      <4>a. Cardinality(old \cup {minute}) = IF minute \in old THEN Cardinality(old)
                                              ELSE Cardinality(old) + 1
        BY <4>2, FS_AddElement
      <4>4. Cardinality(old \cup {minute}) <= Cardinality(old) + 1
        BY <4>2, <4>a
      <4>5. CASE new = old
        BY <4>1, <4>5 DEF new
      <4>6. CASE Day(minute) = d /\ new = old \cup {minute}
        <5>1. Cardinality(new) <= DayCap
          <6>1. Cardinality(new) \in Nat
            BY <4>2, <4>6, FS_AddElement, FS_CardinalityType
          <6> QED BY <1>2, <4>1, <4>2, <4>4, <4>6, <6>1
        <5> QED BY <5>1 DEF new
      <4> QED BY <4>3, <4>5, <4>6
    <3>5. \A m \in entered'[t] : m <= minute
      <4>1. \A m \in entered[s] : m <= minute
        BY DEF IInv, Spaced
      <4> QED BY <1>1, <3>1, <4>1
    <3> QED BY <3>3, <3>4, <3>5
  <2> QED BY <2>1, <2>2
<1> QED BY <1>5 DEF Spaced

LEMMA CandleInv ==
    ASSUME IInv, NEW s \in Symbols, Candle(s)
    PROVE  IInv'
<1>1. /\ pc = "idle" /\ s \notin done /\ done' = done \cup {s} /\ minute' = minute
      /\ books' = books /\ rows' = rows /\ outbox' = outbox /\ protection' = protection
      /\ errors' = errors /\ crashes' = crashes
  BY CandleStep DEF IInv
<1>2. OneCandle(s)
  BY CandleOutcome
<1>3. minute \in Nat /\ entered \in [Symbols -> SUBSET Minutes]
  BY MinuteTypes DEF IInv, TypeOK
<1>4. \A t \in Symbols : entered[t] \subseteq entered'[t]
  BY <1>2, <1>3 DEF OneCandle, CandleMemory
<1>5. \A r \in Row : Sound(r) => SoundAt(r, minute, done', entered')
  BY <1>1, <1>3, <1>4, RowTypes, SoundStays DEF Sound
<1>6. job.rows = <<>> /\ job.signals = <<>>
  BY <1>1 DEF IInv, JobStage
<1>7. \A t \in DOMAIN positions : positions[t] \in Row /\ positions[t].id[1] = t
        /\ positions[t].st = "open" /\ Sound(positions[t]) /\ t \in Symbols
  BY DEF IInv, TypeOK, Held
<1>8. \A id \in DOMAIN rows : rows[id] \in Row /\ rows[id].id = id /\ Sound(rows[id])
  BY DEF IInv, TypeOK, StoredRows
<1>9. TypeOK' /\ job' \in Job /\ books' \in [Accounts -> Book]
  <2>1. \A t \in DOMAIN positions' : positions'[t] \in Row /\ positions'[t].id[1] = t
    BY <1>2, <1>7 DEF OneCandle, CandleHolds
  <2>2. DOMAIN positions' \subseteq Symbols /\ done' \subseteq Symbols
    BY <1>1, <1>2 DEF IInv, TypeOK, OneCandle, CandleHolds
  <2>3. job'.rows \in Seq(Row) /\ job'.signals \in Seq(SignalRow)
    BY <1>2 DEF OneCandle, CandleMemory, Job
  <2> QED BY <1>1, <1>2, <2>1, <2>2, <2>3 DEF IInv, TypeOK, OneCandle, CandleMemory
<1>10. Held'
  <2>1. ASSUME NEW t \in DOMAIN positions'
        PROVE  positions'[t].st = "open" /\ SoundAt(positions'[t], minute', done', entered')
    <3>1. CASE t = s
      BY <1>1, <1>2, <3>1 DEF OneCandle, CandleHolds
    <3>2. CASE t # s
      <4>1. t \in DOMAIN positions /\ positions'[t] = positions[t]
        BY <1>2, <3>2 DEF OneCandle, CandleHolds
      <4> QED BY <1>1, <1>5, <1>7, <4>1
    <3> QED BY <3>1, <3>2
  <2> QED BY <2>1 DEF Held, Sound
<1>11. StoredRows'
  <2>1. \A id \in DOMAIN rows' : SoundAt(rows'[id], minute', done', entered')
    BY <1>1, <1>5, <1>8
  <2>2. ASSUME NEW t \in DOMAIN positions', positions'[t].id \in DOMAIN rows
        PROVE  rows[positions'[t].id].st = "open"
    <3>1. t \in DOMAIN positions /\ positions'[t].id = positions[t].id
      <4>1. CASE t # s
        BY <1>2, <4>1 DEF OneCandle, CandleHolds
      <4>2. CASE t = s
        <5>1. \/ positions'[s].id = <<s, minute>>
              \/ s \in DOMAIN positions /\ positions'[s].id = positions[s].id
          BY <1>2, <4>2 DEF OneCandle, CandleHolds, SameTrade
        <5> QED BY <1>1, <2>2, <4>2, <5>1, EntryIsNew
      <4> QED BY <4>1, <4>2
    <3> QED BY <2>2, <3>1 DEF IInv, StoredRows
  <2> QED BY <1>1, <2>1, <2>2 DEF IInv, StoredRows, Sound
<1>12. JobStage'
  BY <1>1, <1>2 DEF JobStage, OneCandle, CandleMemory
<1>13. JobRows'
  <2>1. ASSUME NEW i \in DOMAIN job'.rows
        PROVE  /\ SoundAt(job'.rows[i], minute', done', entered') /\ job'.rows[i].id[1] = job'.symbol
               /\ job'.rows[i].st = "open" =>
                    i = Len(job'.rows) /\ job'.symbol \in DOMAIN positions'
                    /\ positions'[job'.symbol] = job'.rows[i]
               /\ job'.rows[i].st = "closed" =>
                    /\ i = 1 /\ job'.rows[i].exit = minute'
                    /\ job'.symbol \in DOMAIN positions' =>
                         positions'[job'.symbol].id # job'.rows[i].id
                    /\ \A id \in DOMAIN rows' :
                         id[1] = job'.symbol /\ rows'[id].st = "closed" => rows'[id].exit < minute'
    <3>1. job'.rows # <<>> /\ job'.symbol = s
      BY <1>2, <2>1 DEF OneCandle, CandleMemory
    <3>2. \A id \in DOMAIN rows : id[1] = s /\ rows[id].st = "closed" => rows[id].exit < minute
      <4>1. ASSUME NEW id \in DOMAIN rows, id[1] = s, rows[id].st = "closed"
            PROVE  rows[id].exit < minute
        <5>1. Past(<<s, rows[id].exit>>, minute, done)
          BY <1>8, <4>1 DEF Sound, SoundAt
        <5> QED BY <1>1, <5>1 DEF Past
      <4> QED BY <4>1
    <3>3. s \in DOMAIN positions => positions[s].id # <<s, minute>>
      BY <1>1, EntryIsNew
    <3> QED BY <1>1, <1>2, <3>1, <3>2, <3>3 DEF OneCandle, CandleRows, SameTrade
  <2> QED BY <2>1 DEF JobRows, Sound
<1>14. JobSignals'
  <2>1. ASSUME NEW i \in DOMAIN job'.signals
        PROVE  /\ Backed(job'.signals[i], rows', job'.rows)
               /\ job'.signals[i].action = "exit" =>
                    i = 1 /\ (pc' # "account" => job'.signals[i].id \notin Published("exit")')
    <3>1. Published("exit")' = Published("exit")
      BY <1>1 DEF Published
    <3>2. s \in DOMAIN positions => positions[s].id \notin Published("exit")
      BY HeldUnpublished
    <3>3. Backed(job'.signals[i], rows', job'.rows)
      BY <1>2 DEF OneCandle, CandleSignals, Backed
    <3> QED BY <1>2, <3>1, <3>2, <3>3 DEF OneCandle, CandleSignals
  <2> QED BY <2>1 DEF JobSignals
<1>15. Outboxed'
  BY <1>1 DEF IInv, Outboxed
<1>16. Spaced'
  <2>1. CASE entered' = entered
    BY <1>1, <2>1 DEF IInv, Spaced
  <2>2. CASE CooldownOk(s) /\ entered' = [entered EXCEPT ![s] = @ \cup {minute}]
    BY <1>1, <2>2, SpacedMore
  <2> QED BY <1>2, <2>1, <2>2 DEF OneCandle, CandleMemory
<1>17. OneOpenRow'
  <2>1. SUFFICES ASSUME errors = 0, NEW id \in DOMAIN rows, rows[id].st = "open"
                 PROVE  IF \E i \in DOMAIN job'.rows :
                             job'.rows[i].st = "closed" /\ job'.rows[i].id[1] = id[1]
                        THEN \E i \in DOMAIN job'.rows :
                               job'.rows[i].st = "closed" /\ job'.rows[i].id = id
                        ELSE id[1] \in DOMAIN positions' /\ positions'[id[1]].id = id
    BY <1>1 DEF OneOpenRow
  <2>2. id[1] \in DOMAIN positions /\ positions[id[1]].id = id
    BY <1>6, <2>1 DEF IInv, OneOpenRow
  <2>3. CASE id[1] = s
    BY <1>2, <2>2, <2>3 DEF OneCandle, CandleRows, CandleHolds, SameTrade
  <2>4. CASE id[1] # s
    BY <1>2, <2>2, <2>4 DEF OneCandle, CandleRows, CandleHolds
  <2> QED BY <2>3, <2>4
<1>18. ProtectionFollows'
  <2>1. ASSUME NEW t \in Symbols, protection[t] # None
        PROVE  /\ protection[t].id[1] = t
               /\ errors = 0 =>
                    \/ t = job'.symbol /\ pc' \in {"rows", "protect"}
                    \/ t \in DOMAIN positions' /\ protection[t].id = positions'[t].id
    <3>1. protection[t].id[1] = t
      BY <2>1 DEF IInv, ProtectionFollows
    <3>2. errors = 0 => t \in DOMAIN positions /\ protection[t].id = positions[t].id
      BY <1>1, <2>1 DEF IInv, ProtectionFollows
    <3>3. CASE t # s
      BY <1>2, <3>1, <3>2, <3>3 DEF OneCandle, CandleHolds
    <3>4. CASE t = s /\ pc' = "rows"
      BY <1>2, <3>1, <3>4 DEF OneCandle, CandleMemory
    <3>5. CASE t = s /\ pc' # "rows"
      <4>1. DOMAIN job'.rows = {}
        BY <1>2, <3>5 DEF OneCandle, CandleMemory
      <4> QED BY <1>2, <3>1, <3>2, <3>5, <4>1 DEF OneCandle, CandleHolds, SameTrade
    <3> QED BY <3>3, <3>4, <3>5
  <2> QED BY <1>1, <2>1 DEF ProtectionFollows
<1> QED BY <1>9, <1>10, <1>11, <1>12, <1>13, <1>14, <1>15, <1>16, <1>17, <1>18 DEF IInv

-----------------------------------------------------------------------------
(***************************************************************************)
(* So do the next minute and the commits.                                  *)
(***************************************************************************)
LEMMA TickInv ==
    ASSUME IInv, Tick
    PROVE  IInv'
<1>1. /\ minute < MaxMinutes /\ pc = "idle" /\ minute' = minute + 1 /\ done' = {}
      /\ UNCHANGED <<positions, entered, gained, books, pc, job, rows, outbox, protection,
                     errors, crashes>>
  BY DEF Tick, engine, store, bounds
<1>2. minute \in Nat /\ minute' \in Nat /\ minute' > minute /\ minute' \in Minutes
  BY <1>1, MinuteTypes, MonitorAssumption DEF IInv, Minutes
<1>3. job.rows = <<>> /\ job.signals = <<>>
  BY <1>1 DEF IInv, JobStage
<1>4. \A r \in Row : Sound(r) => SoundAt(r, minute', done', entered')
  BY <1>1, <1>2, SoundStays DEF Sound
<1>5. TypeOK'
  BY <1>1, <1>2 DEF IInv, TypeOK
<1>6. Held'
  <2>1. \A s \in DOMAIN positions : positions[s].st = "open"
          /\ SoundAt(positions[s], minute', done', entered')
    BY <1>4 DEF IInv, TypeOK, Held
  <2> QED BY <1>1, <2>1 DEF Held, Sound
<1>7. StoredRows'
  <2>1. \A id \in DOMAIN rows : SoundAt(rows[id], minute', done', entered')
    BY <1>4 DEF IInv, TypeOK, StoredRows
  <2> QED BY <1>1, <2>1 DEF IInv, StoredRows, Sound
<1>8. JobStage' /\ JobRows' /\ JobSignals'
  BY <1>1, <1>3 DEF IInv, JobStage, JobRows, JobSignals
<1>9. Outboxed' /\ OneOpenRow' /\ ProtectionFollows'
  BY <1>1 DEF IInv, Outboxed, OneOpenRow, ProtectionFollows
<1>10. Spaced'
  <2>1. \A s \in Symbols : \A m \in entered[s] : m <= minute'
    <3>1. \A s \in Symbols : \A m \in entered[s] : m <= minute /\ m \in Nat
      BY MinuteTypes DEF IInv, TypeOK, Spaced
    <3> QED BY <1>2, <3>1
  <2> QED BY <1>1, <2>1 DEF IInv, Spaced
<1> QED BY <1>1, <1>5, <1>6, <1>7, <1>8, <1>9, <1>10 DEF IInv

LEMMA TailFacts ==
    ASSUME NEW S, NEW q \in Seq(S), q # <<>>
    PROVE  /\ Tail(q) \in Seq(S) /\ Head(q) = q[1] /\ Head(q) \in S /\ 1 \in DOMAIN q
           /\ \A i \in DOMAIN Tail(q) : i + 1 \in DOMAIN q /\ i + 1 # 1 /\ Tail(q)[i] = q[i + 1]
           /\ \A i \in DOMAIN q : i # 1 => i - 1 \in DOMAIN Tail(q) /\ Tail(q)[i - 1] = q[i]
           /\ Len(Tail(q)) = Len(q) - 1 /\ Len(q) \in Nat
           /\ Tail(q) = <<>> <=> Len(q) = 1
<1>1. Tail(q) \in Seq(S) /\ Len(Tail(q)) = Len(q) - 1 /\ Len(q) \in Nat /\ Len(q) >= 1
      /\ DOMAIN q = 1..Len(q) /\ DOMAIN Tail(q) = 1..(Len(q) - 1)
  OBVIOUS
<1>2. \A i \in DOMAIN Tail(q) : i + 1 \in DOMAIN q /\ i + 1 # 1 /\ Tail(q)[i] = q[i + 1]
  BY <1>1
<1>3. \A i \in DOMAIN q : i # 1 => i - 1 \in DOMAIN Tail(q) /\ Tail(q)[i - 1] = q[i]
  <2>1. \A i \in DOMAIN q : i # 1 => i - 1 \in DOMAIN Tail(q) /\ (i - 1) + 1 = i
    BY <1>1
  <2> QED BY <1>2, <2>1
<1>4. Head(q) = q[1] /\ Head(q) \in S /\ 1 \in DOMAIN q
  BY <1>1
<1>5. Tail(q) = <<>> <=> Len(q) = 1
  <2> DEFINE t == Tail(q)
  <2>1. t \in Seq(S) /\ Len(t) = Len(q) - 1 /\ Len(q) \in Nat
    BY <1>1
  <2> HIDE DEF t
  <2>2. t = <<>> <=> Len(t) = 0
    BY <2>1, EmptySeq
  <2>3. t = <<>> <=> Len(q) = 1
    BY <2>1, <2>2
  <2> QED BY <2>3 DEF t
<1> QED BY <1>1, <1>2, <1>3, <1>4, <1>5

\* The rows of a job: after the row of an exit there is the position held.
LEMMA FirstRow ==
    ASSUME IInv, job.rows # <<>>
    PROVE  LET r == Head(job.rows)
           IN /\ r \in Row /\ r = job.rows[1] /\ 1 \in DOMAIN job.rows
              /\ r.id[1] = job.symbol /\ Sound(r)
              /\ r.st = "open" => job.symbol \in DOMAIN positions /\ positions[job.symbol] = r
              /\ r.st = "closed" =>
                   /\ r.exit = minute
                   /\ \A t \in DOMAIN positions : positions[t].id # r.id
                   /\ \A id \in DOMAIN rows :
                        id[1] = job.symbol /\ rows[id].st = "closed" => rows[id].exit < minute
              /\ \A i \in DOMAIN Tail(job.rows) : Tail(job.rows)[i].st = "open"
              /\ \A i \in DOMAIN job.rows : i # 1 => job.rows[i].st = "open"
<1> DEFINE r == Head(job.rows)
<1>1. job.rows \in Seq(Row)
  BY DEF IInv, TypeOK
<1>2. r \in Row /\ r = job.rows[1] /\ 1 \in DOMAIN job.rows
      /\ \A i \in DOMAIN Tail(job.rows) :
           i + 1 \in DOMAIN job.rows /\ i + 1 # 1 /\ Tail(job.rows)[i] = job.rows[i + 1]
  BY <1>1, TailFacts
<1>3. \A i \in DOMAIN job.rows : job.rows[i] \in Row
  BY <1>1
<1>4. \A i \in DOMAIN job.rows : i # 1 => job.rows[i].st = "open"
  BY <1>3, RowTypes DEF IInv, JobRows
<1>5. \A i \in DOMAIN Tail(job.rows) : Tail(job.rows)[i].st = "open"
  BY <1>2, <1>4
<1>6. /\ r.id[1] = job.symbol /\ Sound(r)
      /\ r.st = "open" => job.symbol \in DOMAIN positions /\ positions[job.symbol] = r
      /\ r.st = "closed" =>
           /\ r.exit = minute
           /\ job.symbol \in DOMAIN positions => positions[job.symbol].id # r.id
           /\ \A id \in DOMAIN rows :
                id[1] = job.symbol /\ rows[id].st = "closed" => rows[id].exit < minute
  BY <1>2 DEF IInv, JobRows
<1>7. ASSUME r.st = "closed", NEW t \in DOMAIN positions
      PROVE  positions[t].id # r.id
  <2>1. positions[t].id[1] = t
    BY DEF IInv, TypeOK
  <2> QED BY <1>6, <1>7, <2>1
<1> HIDE DEF r
<1>8. QED BY <1>2, <1>4, <1>5, <1>6, <1>7 DEF r

LEMMA StoreRowInv ==
    ASSUME IInv, StoreRow
    PROVE  IInv'
<1> DEFINE r == Head(job.rows)
<1>1. /\ pc = "rows" /\ rows' = Put(rows, r.id, r) /\ job' = [job EXCEPT !.rows = Tail(@)]
      /\ pc' = (IF Len(job.rows) = 1 THEN "protect" ELSE "rows")
      /\ UNCHANGED <<minute, done, positions, entered, gained, books, outbox, protection,
                     errors, crashes>>
  BY DEF StoreRow, clock, engine, bounds
<1>2. job.rows # <<>> /\ job \in Job /\ job.rows \in Seq(Row) /\ job.signals \in Seq(SignalRow)
  BY <1>1 DEF IInv, JobStage, TypeOK
<1>3. /\ r \in Row /\ r = job.rows[1] /\ 1 \in DOMAIN job.rows /\ r.id[1] = job.symbol /\ Sound(r)
      /\ r.st = "open" => job.symbol \in DOMAIN positions /\ positions[job.symbol] = r
      /\ r.st = "closed" =>
           /\ r.exit = minute
           /\ \A t \in DOMAIN positions : positions[t].id # r.id
           /\ \A id \in DOMAIN rows :
                id[1] = job.symbol /\ rows[id].st = "closed" => rows[id].exit < minute
      /\ \A i \in DOMAIN Tail(job.rows) : Tail(job.rows)[i].st = "open"
      /\ \A i \in DOMAIN job.rows : i # 1 => job.rows[i].st = "open"
  BY <1>2, FirstRow
<1>4. /\ Tail(job.rows) \in Seq(Row)
      /\ \A i \in DOMAIN Tail(job.rows) :
           i + 1 \in DOMAIN job.rows /\ i + 1 # 1 /\ Tail(job.rows)[i] = job.rows[i + 1]
      /\ \A i \in DOMAIN job.rows :
           i # 1 => i - 1 \in DOMAIN Tail(job.rows) /\ Tail(job.rows)[i - 1] = job.rows[i]
      /\ Len(Tail(job.rows)) = Len(job.rows) - 1 /\ Len(job.rows) \in Nat
      /\ Tail(job.rows) = <<>> <=> Len(job.rows) = 1
  BY <1>2, TailFacts
<1>5. /\ job'.rows = Tail(job.rows) /\ job'.signals = job.signals /\ job'.symbol = job.symbol
      /\ job' \in Job
  BY <1>1, <1>2, <1>4 DEF Job
<1> HIDE DEF r
<1>6. /\ DOMAIN rows' = DOMAIN rows \cup {r.id} /\ rows'[r.id] = r
      /\ \A id \in DOMAIN rows : id # r.id => rows'[id] = rows[id]
  BY <1>1 DEF Put
<1>7. r.st \in {"open", "closed"} /\ minute \in Nat
  BY <1>3, RowTypes, MinuteTypes DEF IInv
\* The row of a position that is over is not opened again.
<1>8. ASSUME NEW id \in DOMAIN rows, rows[id].st = "closed"
      PROVE  rows'[id].st = "closed"
  <2>1. CASE id = r.id
    <3>1. r.st # "open"
      BY <1>3, <1>8, <2>1 DEF IInv, StoredRows
    <3> QED BY <1>6, <1>7, <2>1, <3>1
  <2>2. CASE id # r.id
    BY <1>6, <1>8, <2>2
  <2> QED BY <2>1, <2>2
<1>9. TypeOK'
  <2>1. \A id \in DOMAIN rows' : rows'[id] \in Row /\ rows'[id].id = id
    BY <1>3, <1>6 DEF IInv, TypeOK
  <2>2. pc' \in {"rows", "protect"}
    BY <1>1
  <2> QED BY <1>1, <1>4, <1>5, <2>1, <2>2 DEF IInv, TypeOK
<1>10. Held'
  BY <1>1 DEF IInv, Held, Sound
<1>11. StoredRows'
  <2>1. \A id \in DOMAIN rows' : SoundAt(rows'[id], minute, done, entered)
    BY <1>3, <1>6 DEF IInv, StoredRows, Sound
  <2>2. \A t \in DOMAIN positions :
          positions[t].id \in DOMAIN rows' => rows'[positions[t].id].st = "open"
    BY <1>3, <1>6, <1>7 DEF IInv, StoredRows
  <2>3. ASSUME NEW a \in DOMAIN rows', NEW b \in DOMAIN rows',
               rows'[a].st = "closed", rows'[b].st = "closed", a[1] = b[1],
               rows'[a].exit = rows'[b].exit
        PROVE  a = b
    <3>1. ASSUME NEW c \in DOMAIN rows, c # r.id, rows[c].st = "closed", r.st = "closed",
                 c[1] = r.id[1]
          PROVE  rows[c].exit # r.exit
      <4>1. rows[c].exit < minute /\ r.exit = minute
        BY <1>3, <3>1
      <4>2. rows[c].exit \in Nat
        BY RowTypes DEF IInv, TypeOK
      <4> QED BY <1>7, <4>1, <4>2
    <3>2. CASE a # r.id /\ b # r.id
      BY <1>6, <2>3, <3>2 DEF IInv, StoredRows
    <3>3. CASE a = r.id /\ b # r.id
      BY <1>6, <2>3, <3>1, <3>3
    <3>4. CASE a # r.id /\ b = r.id
      BY <1>6, <2>3, <3>1, <3>4
    <3> QED BY <3>2, <3>3, <3>4
  <2> QED BY <1>1, <2>1, <2>2, <2>3 DEF StoredRows, Sound
<1>12. JobStage'
  <2>1. job'.rows # <<>> <=> Len(job.rows) # 1
    BY <1>4, <1>5
  <2> QED BY <1>1, <1>2, <1>5, <2>1 DEF IInv, JobStage
<1>13. JobRows'
  <2>1. ASSUME NEW i \in DOMAIN job'.rows
        PROVE  /\ SoundAt(job'.rows[i], minute, done, entered) /\ job'.rows[i].id[1] = job.symbol
               /\ i = Len(job'.rows) /\ job.symbol \in DOMAIN positions
               /\ positions[job.symbol] = job'.rows[i] /\ job'.rows[i].st = "open"
    <3>1. job'.rows[i] = job.rows[i + 1] /\ i + 1 \in DOMAIN job.rows /\ job'.rows[i].st = "open"
          /\ Len(job'.rows) = Len(job.rows) - 1 /\ i \in Nat
      BY <1>3, <1>4, <1>5
    <3>2. /\ Sound(job.rows[i + 1]) /\ job.rows[i + 1].id[1] = job.symbol
          /\ i + 1 = Len(job.rows) /\ job.symbol \in DOMAIN positions
          /\ positions[job.symbol] = job.rows[i + 1]
      BY <3>1 DEF IInv, JobRows
    <3> QED BY <3>1, <3>2 DEF Sound
  <2> QED BY <1>1, <1>5, <2>1 DEF JobRows, Sound
<1>14. JobSignals'
  <2>1. ASSUME NEW i \in DOMAIN job.signals
        PROVE  Backed(job.signals[i], rows', job'.rows)
    <3> DEFINE signal == job.signals[i]
    <3>1. Backed(signal, rows, job.rows)
      BY DEF IInv, JobSignals
    <3> HIDE DEF signal
    <3>2. CASE signal.id \in DOMAIN rows
               /\ (signal.action = "exit" => rows[signal.id].st = "closed")
      BY <1>6, <1>8, <3>2 DEF Backed, signal
    <3>3. ASSUME NEW j \in DOMAIN job.rows, job.rows[j].id = signal.id,
                 job.rows[j].st = (IF signal.action = "exit" THEN "closed" ELSE "open")
          PROVE  Backed(signal, rows', job'.rows)
      <4>1. CASE j = 1
        BY <1>3, <1>6, <3>3, <4>1 DEF Backed
      <4>2. CASE j # 1
        <5>1. j - 1 \in DOMAIN job'.rows /\ job'.rows[j - 1] = job.rows[j]
          BY <1>4, <1>5, <3>3, <4>2
        <5> QED BY <3>3, <5>1 DEF Backed
      <4> QED BY <4>1, <4>2
    <3> QED BY <3>1, <3>2, <3>3 DEF Backed, signal
  <2>2. Published("exit")' = Published("exit")
    BY <1>1 DEF Published
  <2>3. \A i \in DOMAIN job.signals : job.signals[i].action = "exit" =>
          i = 1 /\ job.signals[i].id \notin Published("exit")'
    BY <1>1, <2>2 DEF IInv, JobSignals
  <2> QED BY <1>5, <2>1, <2>3 DEF JobSignals
<1>15. Outboxed'
  BY <1>1, <1>6, <1>8 DEF IInv, Outboxed
<1>16. Spaced'
  BY <1>1 DEF IInv, Spaced
<1>17. OneOpenRow'
  <2>1. SUFFICES ASSUME errors = 0, NEW id \in DOMAIN rows', rows'[id].st = "open"
                 PROVE  id[1] \in DOMAIN positions /\ positions[id[1]].id = id
    <3>1. \A i \in DOMAIN job'.rows : job'.rows[i].st # "closed"
      BY <1>3, <1>5
    <3> QED BY <1>1, <3>1 DEF OneOpenRow
  <2>2. CASE id = r.id
    BY <1>3, <1>6, <2>1, <2>2
  <2>3. CASE id # r.id
    <3>1. id \in DOMAIN rows /\ rows[id].st = "open"
      BY <1>6, <2>1, <2>3
    <3>2. \A i \in DOMAIN job.rows : job.rows[i].st = "closed" => i = 1 /\ job.rows[i].id # id
      BY <1>3, <2>3
    <3> QED BY <2>1, <3>1, <3>2 DEF IInv, OneOpenRow
  <2> QED BY <2>2, <2>3
<1>18. ProtectionFollows'
  <2>1. pc' \in {"rows", "protect"}
    BY <1>1
  <2> QED BY <1>1, <1>5, <2>1 DEF IInv, ProtectionFollows
<1> QED BY <1>1, <1>5, <1>9, <1>10, <1>11, <1>12, <1>13, <1>14, <1>15, <1>16, <1>17, <1>18
        DEF IInv

LEMMA AfterCommitStage ==
    ASSUME NEW signals
    PROVE  /\ AfterCommit(signals) \in {"idle", "publish"}
           /\ AfterCommit(signals) = "publish" <=> signals # <<>>
BY DEF AfterCommit

LEMMA ProtectInv ==
    ASSUME IInv, Protect
    PROVE  IInv'
<1> DEFINE s == job.symbol
<1>1. PICK holdThrough \in BOOLEAN :
        protection' = [protection EXCEPT ![s] =
          IF s \in DOMAIN positions
          THEN [id |-> positions[s].id, time |-> positions[s].updated,
                arm |-> positions[s].trail /\ ~holdThrough]
          ELSE None]
  BY DEF Protect
<1>2. /\ pc = "protect" /\ pc' = AfterCommit(job.signals)
      /\ job' = (IF job.signals = <<>> THEN NoJob ELSE job)
      /\ UNCHANGED <<minute, done, positions, entered, gained, books, rows, outbox, errors, crashes>>
  BY DEF Protect, clock, engine, bounds
<1>3. job \in Job /\ job.rows = <<>> /\ s \in Symbols /\ protection \in [Symbols -> Guard \cup {None}]
  BY <1>2 DEF IInv, JobStage, TypeOK
<1>4. /\ job' \in Job /\ job'.rows = <<>> /\ job'.signals = job.signals
      /\ (pc' # "idle" => job'.symbol = job.symbol)
      /\ pc' \in {"idle", "publish"} /\ (pc' = "publish" <=> job.signals # <<>>)
  <2>1. NoJob \in Job /\ NoJob.rows = <<>> /\ NoJob.signals = <<>>
    BY <1>3, ShortJobs DEF IInv, NoJob
  <2> QED BY <1>2, <1>3, <2>1, AfterCommitStage
<1> DEFINE row == [id |-> positions[s].id, time |-> positions[s].updated,
                   arm |-> positions[s].trail /\ ~holdThrough]
<1>5. s \in DOMAIN positions => row \in Guard /\ row.id = positions[s].id /\ positions[s].id[1] = s
  <2>1. SUFFICES ASSUME s \in DOMAIN positions
                 PROVE  row \in Guard /\ row.id = positions[s].id /\ positions[s].id[1] = s
    OBVIOUS
  <2>2. positions[s] \in Row /\ positions[s].id[1] = s
    BY <2>1 DEF IInv, TypeOK
  <2>3. positions[s].id \in PositionIds /\ positions[s].updated \in Minutes
    BY <2>2 DEF Row
  <2>4. (positions[s].trail /\ ~holdThrough) \in BOOLEAN
    OBVIOUS
  <2> QED BY <2>2, <2>3, <2>4 DEF Guard
<1> HIDE DEF row, s
<1>6. protection' = [protection EXCEPT ![s] = IF s \in DOMAIN positions THEN row ELSE None]
  BY <1>1 DEF row, s
<1>7. protection' \in [Symbols -> Guard \cup {None}]
  BY <1>3, <1>5, <1>6
<1>8. TypeOK'
  <2>1. job'.rows \in Seq(Row) /\ job'.signals \in Seq(SignalRow)
    BY <1>4 DEF Job
  <2> QED BY <1>2, <1>4, <1>7, <2>1 DEF IInv, TypeOK
<1>9. Held' /\ StoredRows' /\ Outboxed' /\ Spaced'
  BY <1>2 DEF IInv, Held, StoredRows, Outboxed, Spaced, Sound
<1>10. JobStage'
  BY <1>2, <1>4 DEF IInv, JobStage
<1>11. JobRows'
  BY <1>4 DEF JobRows
<1>12. JobSignals'
  <2>1. Published("exit")' = Published("exit")
    BY <1>2 DEF Published
  <2>2. \A i \in DOMAIN job.signals :
          /\ Backed(job.signals[i], rows, job.rows)
          /\ job.signals[i].action = "exit" => i = 1 /\ job.signals[i].id \notin Published("exit")
    BY <1>2 DEF IInv, JobSignals
  <2> QED BY <1>2, <1>3, <1>4, <2>1, <2>2 DEF JobSignals
<1>13. OneOpenRow'
  <2>1. job'.rows = job.rows
    BY <1>3, <1>4
  <2> QED BY <1>2, <2>1 DEF IInv, OneOpenRow
<1>14. ProtectionFollows'
  <2>1. ASSUME NEW t \in Symbols, protection'[t] # None
        PROVE  /\ protection'[t].id[1] = t
               /\ errors = 0 => t \in DOMAIN positions /\ protection'[t].id = positions[t].id
    <3>1. CASE t = s
      BY <1>3, <1>5, <1>6, <2>1, <3>1
    <3>2. CASE t # s
      <4>1. protection'[t] = protection[t]
        BY <1>3, <1>6, <3>2
      <4> QED BY <1>2, <2>1, <3>2, <4>1 DEF IInv, ProtectionFollows, s
    <3> QED BY <3>1, <3>2
  <2> QED BY <1>2, <2>1 DEF ProtectionFollows
<1>15. books' \in [Accounts -> Book]
  BY <1>2 DEF IInv
<1> QED BY <1>4, <1>8, <1>9, <1>10, <1>11, <1>12, <1>13, <1>14, <1>15 DEF IInv

\* The signal that is next, and its row, once the rows are stored.
LEMMA FirstSignal ==
    ASSUME IInv, pc \in {"publish", "account"}
    PROVE  LET signal == Head(job.signals)
           IN /\ job.rows = <<>> /\ job.signals # <<>> /\ job.signals \in Seq(SignalRow)
              /\ signal \in SignalRow /\ signal = job.signals[1] /\ 1 \in DOMAIN job.signals
              /\ signal.id \in DOMAIN rows /\ rows[signal.id] \in Row /\ rows[signal.id].id = signal.id
              /\ signal.action = "exit" =>
                   /\ rows[signal.id].st = "closed"
                   /\ pc = "publish" => signal.id \notin Published("exit")
              /\ Tail(job.signals) \in Seq(SignalRow)
              /\ Tail(job.signals) = <<>> <=> Len(job.signals) = 1
              /\ \A i \in DOMAIN Tail(job.signals) :
                   /\ i + 1 \in DOMAIN job.signals /\ Tail(job.signals)[i] = job.signals[i + 1]
                   /\ Tail(job.signals)[i].action # "exit"
                   /\ Tail(job.signals)[i].id \in DOMAIN rows
<1> DEFINE signal == Head(job.signals)
<1>1. job.rows = <<>> /\ job.signals # <<>> /\ job.signals \in Seq(SignalRow)
  BY DEF IInv, JobStage, TypeOK
<1>2. /\ Tail(job.signals) \in Seq(SignalRow)
      /\ signal = job.signals[1] /\ signal \in SignalRow /\ 1 \in DOMAIN job.signals
      /\ \A i \in DOMAIN Tail(job.signals) :
           i + 1 \in DOMAIN job.signals /\ i + 1 # 1 /\ Tail(job.signals)[i] = job.signals[i + 1]
      /\ Tail(job.signals) = <<>> <=> Len(job.signals) = 1
  BY <1>1, TailFacts
<1> HIDE DEF signal
<1>3. \A i \in DOMAIN job.signals :
        /\ job.signals[i].id \in DOMAIN rows
        /\ job.signals[i].action = "exit" =>
             /\ i = 1 /\ rows[job.signals[i].id].st = "closed"
             /\ pc # "account" => job.signals[i].id \notin Published("exit")
  <2>1. DOMAIN job.rows = {}
    BY <1>1
  <2> QED BY <2>1 DEF IInv, JobSignals, Backed
<1>4. \A id \in DOMAIN rows : rows[id] \in Row /\ rows[id].id = id
  BY DEF IInv, TypeOK
<1>5. \A i \in DOMAIN Tail(job.signals) : Tail(job.signals)[i].action # "exit"
        /\ Tail(job.signals)[i].id \in DOMAIN rows
  BY <1>2, <1>3
<1>6. /\ signal.id \in DOMAIN rows
      /\ signal.action = "exit" =>
           rows[signal.id].st = "closed" /\ (pc = "publish" => signal.id \notin Published("exit"))
  BY <1>2, <1>3
<1> QED BY <1>1, <1>2, <1>4, <1>5, <1>6 DEF signal

\* A job whose first signal is done with.
LEMMA NextSignal ==
    ASSUME IInv, pc \in {"publish", "account"}
    PROVE  [job EXCEPT !.signals = Tail(@)] \in Job
<1>1. job \in Job /\ Tail(job.signals) \in Seq(SignalRow)
  BY FirstSignal DEF IInv
<1> QED BY <1>1 DEF Job

\* What the engine and the rows make true stays so while they do not change.
LEMMA EngineUnchanged ==
    ASSUME IInv, UNCHANGED <<minute, done, positions, entered, rows>>
    PROVE  Held' /\ StoredRows' /\ Spaced'
BY DEF IInv, Held, StoredRows, Spaced, Sound

LEMMA PublishInv ==
    ASSUME IInv, Publish
    PROVE  IInv'
<1> DEFINE signal == Head(job.signals)
           known == \E i \in DOMAIN outbox : outbox[i] = signal
<1>1. /\ pc = "publish"
      /\ outbox' = (IF known THEN outbox ELSE Append(outbox, signal))
      /\ pc' = (IF known THEN AfterCommit(Tail(job.signals)) ELSE "account")
      /\ job' = (IF known THEN [job EXCEPT !.signals = Tail(@)] ELSE job)
      /\ UNCHANGED <<minute, done, positions, entered, gained, books, rows, protection,
                     errors, crashes>>
  BY DEF Publish, clock, engine, bounds
<1>2. /\ job.rows = <<>> /\ job.signals # <<>> /\ job.signals \in Seq(SignalRow)
      /\ signal \in SignalRow /\ signal = job.signals[1] /\ 1 \in DOMAIN job.signals
      /\ signal.id \in DOMAIN rows
      /\ signal.action = "exit" =>
           rows[signal.id].st = "closed" /\ signal.id \notin Published("exit")
      /\ Tail(job.signals) \in Seq(SignalRow)
      /\ \A i \in DOMAIN Tail(job.signals) :
           /\ i + 1 \in DOMAIN job.signals /\ Tail(job.signals)[i] = job.signals[i + 1]
           /\ Tail(job.signals)[i].action # "exit" /\ Tail(job.signals)[i].id \in DOMAIN rows
  BY <1>1, FirstSignal
<1> HIDE DEF signal, known
<1>3. job \in Job /\ [job EXCEPT !.signals = Tail(@)] \in Job /\ outbox \in Seq(SignalRow)
  BY <1>1, NextSignal DEF IInv, TypeOK
<1>4. /\ job' \in Job /\ job'.rows = <<>> /\ job'.symbol = job.symbol
      /\ job'.signals = (IF known THEN Tail(job.signals) ELSE job.signals)
  BY <1>1, <1>2, <1>3 DEF Job
<1>5. Append(outbox, signal) \in Seq(SignalRow)
      /\ Len(Append(outbox, signal)) = Len(outbox) + 1
      /\ (\A i \in 1..Len(outbox) : Append(outbox, signal)[i] = outbox[i])
      /\ Append(outbox, signal)[Len(outbox) + 1] = signal
  BY <1>2, <1>3, AppendProperties
<1>6. outbox' \in Seq(SignalRow)
  BY <1>1, <1>3, <1>5
<1>7. pc' \in {"idle", "publish", "account"}
      /\ (pc' # "idle" => job'.signals # <<>>) /\ (pc' = "idle" => job'.signals = <<>>)
  BY <1>1, <1>2, <1>4, AfterCommitStage
<1>8. TypeOK'
  <2>1. job'.rows \in Seq(Row) /\ job'.signals \in Seq(SignalRow)
    BY <1>4 DEF Job
  <2> QED BY <1>1, <1>6, <1>7, <2>1 DEF IInv, TypeOK
<1>9. Held' /\ StoredRows' /\ Spaced'
  BY <1>1, EngineUnchanged
<1>10. JobStage'
  BY <1>1, <1>4, <1>7 DEF IInv, JobStage
<1>11. JobRows'
  BY <1>4 DEF JobRows
<1>12. JobSignals'
  <2>1. CASE known
    <3>1. outbox' = outbox /\ job'.signals = Tail(job.signals)
      BY <1>1, <1>4, <2>1
    <3>2. \A i \in DOMAIN Tail(job.signals) : Backed(Tail(job.signals)[i], rows, <<>>)
            /\ Tail(job.signals)[i].action # "exit"
      BY <1>2 DEF Backed
    <3> QED BY <1>1, <1>4, <3>1, <3>2 DEF JobSignals
  <2>2. CASE ~known
    <3>1. pc' = "account" /\ job' = job
      BY <1>1, <2>2
    <3> QED BY <1>1, <3>1 DEF IInv, JobSignals
  <2> QED BY <2>1, <2>2
<1>13. Outboxed'
  <2>1. CASE known
    BY <1>1, <2>1 DEF IInv, Outboxed
  <2>2. CASE ~known
    <3>1. /\ DOMAIN outbox' = 1..(Len(outbox) + 1) /\ DOMAIN outbox = 1..Len(outbox)
          /\ Len(outbox) \in Nat
          /\ \A i \in DOMAIN outbox : outbox'[i] = outbox[i]
          /\ outbox'[Len(outbox) + 1] = signal
      BY <1>1, <1>3, <1>5, <2>2
    <3>2. \A i \in DOMAIN outbox' : i \in DOMAIN outbox \/ i = Len(outbox) + 1
      BY <3>1
    <3>3. \A i \in DOMAIN outbox' :
            /\ outbox'[i].id \in DOMAIN rows
            /\ outbox'[i].action = "exit" => rows[outbox'[i].id].st = "closed"
      BY <1>2, <3>1, <3>2 DEF IInv, Outboxed
    <3>4. \A i \in DOMAIN outbox :
            outbox[i].action = "exit" /\ signal.action = "exit" => outbox[i].id # signal.id
      BY <1>2 DEF Published
    <3>5. \A i, j \in DOMAIN outbox :
            outbox[i].action = "exit" /\ outbox[j].action = "exit" /\ outbox[i].id = outbox[j].id
              => i = j
      BY DEF IInv, Outboxed
    <3>6. \A i, j \in DOMAIN outbox' :
            outbox'[i].action = "exit" /\ outbox'[j].action = "exit" /\ outbox'[i].id = outbox'[j].id
              => i = j
      BY <3>1, <3>2, <3>4, <3>5
    <3> QED BY <1>1, <3>3, <3>6 DEF Outboxed
  <2> QED BY <2>1, <2>2
<1>14. OneOpenRow'
  BY <1>1, <1>2, <1>4 DEF IInv, OneOpenRow
<1>15. ProtectionFollows'
  BY <1>1 DEF IInv, ProtectionFollows
<1> QED BY <1>1, <1>4, <1>8, <1>9, <1>10, <1>11, <1>12, <1>13, <1>14, <1>15 DEF IInv

LEMMA AppliedTyped ==
    ASSUME IInv, pc = "account"
    PROVE  Applied \in [Accounts -> Book]
<1>1. rows[Head(job.signals).id] \in Row /\ books \in [Accounts -> Book]
  BY FirstSignal DEF IInv
<1> QED BY <1>1, OpenedTyped, ClosedTyped DEF Applied

LEMMA BooksAreTyped ==
    ASSUME NEW b \in [Accounts -> Book], NEW a \in Accounts
    PROVE  /\ b[a].realized \in Int /\ b[a].peak \in Nat
           /\ \A id \in DOMAIN b[a].open : b[a].open[id] \in Nat \ {0}
BY HoldingsFacts DEF Book

LEMMA AccountInv ==
    ASSUME IInv, Account
    PROVE  IInv'
<1>1. /\ pc = "account" /\ books' = Applied
      /\ pc' = AfterCommit(Tail(job.signals))
      /\ job' = (IF Len(job.signals) = 1 THEN NoJob ELSE [job EXCEPT !.signals = Tail(@)])
      /\ UNCHANGED <<minute, done, positions, entered, gained, rows, outbox, protection,
                     errors, crashes>>
  BY DEF Account, clock, engine, store, bounds
<1>2. /\ job.rows = <<>> /\ job.signals # <<>>
      /\ Tail(job.signals) \in Seq(SignalRow)
      /\ Tail(job.signals) = <<>> <=> Len(job.signals) = 1
      /\ \A i \in DOMAIN Tail(job.signals) :
           Tail(job.signals)[i].action # "exit" /\ Tail(job.signals)[i].id \in DOMAIN rows
  BY <1>1, FirstSignal
<1>3. job \in Job /\ [job EXCEPT !.signals = Tail(@)] \in Job
  BY <1>1, NextSignal DEF IInv
<1>4. /\ job' \in Job /\ job'.rows = <<>> /\ job'.signals = Tail(job.signals)
      /\ (pc' # "idle" => job'.symbol = job.symbol)
      /\ pc' \in {"idle", "publish"} /\ (pc' = "publish" <=> job'.signals # <<>>)
  <2>1. pc' \in {"idle", "publish"} /\ (pc' = "publish" <=> Tail(job.signals) # <<>>)
    BY <1>1, AfterCommitStage
  <2>2. CASE Len(job.signals) = 1
    <3>1. NoJob \in Job /\ NoJob.rows = <<>> /\ NoJob.signals = <<>>
      BY DEF NoJob, Job
    <3> QED BY <1>1, <1>2, <2>1, <2>2, <3>1
  <2>3. CASE Len(job.signals) # 1
    BY <1>1, <1>2, <1>3, <2>1, <2>3 DEF Job
  <2> QED BY <2>2, <2>3
<1>5. books' \in [Accounts -> Book]
  BY <1>1, AppliedTyped
<1>6. TypeOK'
  <2>1. job'.rows \in Seq(Row) /\ job'.signals \in Seq(SignalRow)
    BY <1>4 DEF Job
  <2>2. \A a \in Accounts : books'[a].realized \in Int /\ books'[a].peak \in Nat
          /\ \A id \in DOMAIN books'[a].open : books'[a].open[id] \in Nat \ {0}
    BY <1>5, BooksAreTyped
  <2> QED BY <1>1, <1>4, <2>1, <2>2 DEF IInv, TypeOK
<1>7. Held' /\ StoredRows' /\ Spaced'
  BY <1>1, EngineUnchanged
<1>8. JobStage'
  BY <1>1, <1>4 DEF IInv, JobStage
<1>9. JobRows'
  BY <1>4 DEF JobRows
<1>10. JobSignals'
  <2>1. \A i \in DOMAIN Tail(job.signals) : Backed(Tail(job.signals)[i], rows, <<>>)
          /\ Tail(job.signals)[i].action # "exit"
    BY <1>2 DEF Backed
  <2> QED BY <1>1, <1>4, <2>1 DEF JobSignals
<1>11. Outboxed'
  BY <1>1 DEF IInv, Outboxed
<1>12. OneOpenRow'
  BY <1>1, <1>2, <1>4 DEF IInv, OneOpenRow
<1>13. ProtectionFollows'
  BY <1>1 DEF IInv, ProtectionFollows
<1> QED BY <1>4, <1>5, <1>6, <1>7, <1>8, <1>9, <1>10, <1>11, <1>12, <1>13 DEF IInv

LEMMA ErrorInv ==
    ASSUME IInv, Error
    PROVE  IInv'
<1>1. /\ errors < MaxErrors /\ errors' = errors + 1
      /\ books' = (IF pc = "account" THEN Applied ELSE books)
      /\ pc' = "idle" /\ job' = NoJob
      /\ UNCHANGED <<minute, done, positions, entered, gained, rows, outbox, protection, crashes>>
  BY DEF Error, clock, engine, store
<1>2. errors' \in 0..MaxErrors /\ errors' # 0
  BY <1>1, MonitorAssumption DEF IInv, TypeOK
<1>3. books' \in [Accounts -> Book]
  BY <1>1, AppliedTyped DEF IInv
<1>4. job' \in Job /\ job'.rows = <<>> /\ job'.signals = <<>>
  BY <1>1 DEF NoJob, Job
<1>5. TypeOK'
  <2>1. job'.rows \in Seq(Row) /\ job'.signals \in Seq(SignalRow)
    BY <1>4 DEF Job
  <2>2. \A a \in Accounts : books'[a].realized \in Int /\ books'[a].peak \in Nat
          /\ \A id \in DOMAIN books'[a].open : books'[a].open[id] \in Nat \ {0}
    BY <1>3, BooksAreTyped
  <2> QED BY <1>1, <1>2, <2>1, <2>2 DEF IInv, TypeOK
<1>6. Held' /\ StoredRows' /\ Spaced'
  BY <1>1, EngineUnchanged
<1>7. JobStage' /\ JobRows' /\ JobSignals'
  BY <1>1, <1>4 DEF JobStage, JobRows, JobSignals
<1>8. Outboxed' /\ OneOpenRow'
  BY <1>1, <1>2 DEF IInv, Outboxed, OneOpenRow
<1>9. ProtectionFollows'
  BY <1>1, <1>2 DEF IInv, ProtectionFollows
<1> QED BY <1>3, <1>4, <1>5, <1>6, <1>7, <1>8, <1>9 DEF IInv

-----------------------------------------------------------------------------
(***************************************************************************)
(* A crash, and the start that follows.                                    *)
(***************************************************************************)
LEMMA RowsTidy ==
    ASSUME IInv
    PROVE  /\ Tidy(AllRows) /\ IsFiniteSet(DOMAIN rows)
           /\ \A r \in AllRows : r.id \in DOMAIN rows /\ rows[r.id] = r /\ r \in Row /\ Sound(r)
<1>1. \A id \in DOMAIN rows : rows[id] \in Row /\ rows[id].id = id /\ Sound(rows[id])
  BY DEF IInv, TypeOK, StoredRows
<1>2. DOMAIN rows \in SUBSET PositionIds
  BY <1>1, RowTypes
<1>3. IsFiniteSet(DOMAIN rows)
  BY <1>2, PositionIdsFinite, FS_Subset
<1>4. IsFiniteSet(AllRows)
  <2> DEFINE T == AllRows
  <2>1. T = {rows[id] : id \in DOMAIN rows}
    BY DEF AllRows
  <2> HIDE DEF T
  <2>2. IsFiniteSet(T)
    BY <1>3, <2>1, FiniteNames
  <2> QED BY <2>2 DEF T
<1>5. \A r \in AllRows : r.id \in DOMAIN rows /\ rows[r.id] = r /\ r \in Row /\ Sound(r)
  BY <1>1 DEF AllRows
<1>6. \A r, q \in AllRows : r.id = q.id => r = q
  BY <1>5
<1>7. \A r \in AllRows : r.id[2] = r.entry /\ (r.st = "closed" => r.entry < r.exit)
  BY <1>5 DEF Sound, SoundAt
<1>8. \A r, q \in AllRows :
        r.st = "closed" /\ q.st = "closed" /\ r.id[1] = q.id[1] /\ r.exit = q.exit => r = q
  <2>1. ASSUME NEW r \in AllRows, NEW q \in AllRows, r.st = "closed", q.st = "closed",
               r.id[1] = q.id[1], r.exit = q.exit
        PROVE  r = q
    <3>1. r.id = q.id
      BY <1>5, <2>1 DEF IInv, StoredRows
    <3> QED BY <1>6, <3>1
  <2> QED BY <2>1
<1> QED BY <1>3, <1>4, <1>5, <1>6, <1>7, <1>8 DEF Tidy

\* load_positions finds an open row of every symbol it loads.
LEMMA LoadedFrom ==
    ASSUME IInv, NEW s \in DOMAIN Loaded
    PROVE  /\ Loaded[s] \in AllRows /\ Loaded[s].st = "open" /\ Loaded[s].id[1] = s
           /\ s \in Symbols
<1> DEFINE Open == OpenOn(s)
<1>1. Loaded[s] = CHOOSE r \in Open : \A x \in Open : r.updated <= x.updated
  BY DEF Loaded
<1>2. Open # {}
  BY DEF Loaded, OpenOn
<1>3. \A r \in Open : r \in Row /\ r \in AllRows /\ r.st = "open" /\ r.id[1] = s
  BY RowsTidy DEF OpenOn, OpenRows
<1>4. \A r \in Open : r.updated \in Nat
  <2>1. \A r \in Open : r.updated \in Minutes
    BY <1>3 DEF Row
  <2> QED BY <2>1, MinuteTypes DEF IInv
<1>5. \E r \in Open : \A x \in Open : r.updated <= x.updated
  <2> DEFINE Updates == {r.updated : r \in Open}
  <2>1. Updates \in SUBSET Nat /\ Updates # {}
    BY <1>2, <1>4
  <2> HIDE DEF Updates
  <2>2. PICK n \in Updates : \A m \in Updates : n <= m
    BY <2>1, LeastNumber
  <2>3. \A x \in Open : x.updated \in Updates
    BY DEF Updates
  <2>4. PICK r \in Open : r.updated = n
    BY DEF Updates
  <2> QED BY <2>2, <2>3, <2>4
<1>6. Loaded[s] \in Open
  <2> HIDE DEF Open
  <2> QED BY <1>1, <1>5
<1>7. Loaded[s].id[1] \in Symbols
  BY <1>3, <1>6, RowTypes
<1> QED BY <1>3, <1>6, <1>7

\* As long as no commit failed, a symbol has one open row.
LEMMA OpenRowsApart ==
    ASSUME IInv, errors = 0, NEW a \in DOMAIN rows, NEW b \in DOMAIN rows,
           rows[a].st = "open", rows[b].st = "open", a[1] = b[1]
    PROVE  a = b
<1>1. CASE \E i \in DOMAIN job.rows : job.rows[i].st = "closed" /\ job.rows[i].id[1] = a[1]
  <2>1. \A i, j \in DOMAIN job.rows :
          job.rows[i].st = "closed" /\ job.rows[j].st = "closed" => i = j
    BY DEF IInv, JobRows
  <2> QED BY <1>1, <2>1 DEF IInv, OneOpenRow
<1>2. CASE ~\E i \in DOMAIN job.rows : job.rows[i].st = "closed" /\ job.rows[i].id[1] = a[1]
  BY <1>2 DEF IInv, OneOpenRow
<1> QED BY <1>1, <1>2

\* So what is loaded is every open row.
LEMMA LoadedAll ==
    ASSUME IInv, errors = 0, NEW id \in DOMAIN rows, rows[id].st = "open"
    PROVE  id[1] \in DOMAIN Loaded /\ Loaded[id[1]] = rows[id]
<1>1. rows[id].id = id /\ rows[id] \in AllRows
  BY DEF IInv, TypeOK, AllRows
<1>2. id[1] \in DOMAIN Loaded
  BY <1>1 DEF Loaded, OpenRows
<1>3. Loaded[id[1]] \in AllRows /\ Loaded[id[1]].st = "open" /\ Loaded[id[1]].id[1] = id[1]
  BY <1>2, LoadedFrom
<1>4. Loaded[id[1]].id \in DOMAIN rows /\ rows[Loaded[id[1]].id] = Loaded[id[1]]
  BY <1>3, RowsTidy
<1>5. Loaded[id[1]].id = id
  BY <1>3, <1>4, OpenRowsApart
<1> QED BY <1>2, <1>4, <1>5

LEMMA RestartInv ==
    ASSUME IInv, Restart
    PROVE  IInv'
<1>1. /\ crashes < MaxCrashes /\ crashes' = crashes + 1
      /\ positions' = Loaded /\ entered' = EnteredOfRows
      /\ gained' = GainOf({id \in DOMAIN rows : rows[id].st = "closed"})
      /\ protection' = Pruned /\ books' = Replay(AllRows)
      /\ pc' = "idle" /\ job' = NoJob
      /\ UNCHANGED <<minute, done, rows, outbox, errors>>
  BY DEF Restart, clock
<1>2. \A r \in AllRows : r.id \in DOMAIN rows /\ rows[r.id] = r /\ r \in Row /\ Sound(r)
  BY RowsTidy
<1>3. \A s \in DOMAIN Loaded :
        Loaded[s] \in AllRows /\ Loaded[s].st = "open" /\ Loaded[s].id[1] = s /\ s \in Symbols
  BY LoadedFrom
<1>4. \A s \in Symbols : entered'[s] = {r.entry : r \in {x \in AllRows : x.id[1] = s}}
  BY <1>1 DEF EnteredOfRows
<1>5. \A s \in Symbols : entered'[s] \subseteq entered[s]
  <2>1. \A r \in AllRows : r.entry \in entered[r.id[1]]
    BY <1>2 DEF Sound, SoundAt
  <2> QED BY <1>4, <2>1
<1>6. \A r \in AllRows : SoundAt(r, minute, done, entered')
  <2>1. \A r \in AllRows : r.entry \in entered'[r.id[1]]
    BY <1>2, <1>4, RowTypes
  <2> QED BY <1>2, <2>1 DEF Sound, SoundAt
<1>7. books' \in [Accounts -> Book]
  BY <1>1, RowsTidy, ReplayTyped
<1>8. job' \in Job /\ job'.rows = <<>> /\ job'.signals = <<>>
  BY <1>1 DEF NoJob, Job
<1>9. gained' \in Int
  <2> DEFINE ids == {id \in DOMAIN rows : rows[id].st = "closed"}
             f == [id \in ids |-> rows[id].pnl]
  <2>1. IsFiniteSet(ids)
    BY RowsTidy, FS_Subset
  <2>2. \A id \in ids : rows[id].pnl \in Int
    BY RowTypes DEF IInv, TypeOK
  <2>3. DOMAIN f = ids /\ \A id \in DOMAIN f : f[id] \in Int
    BY <2>2
  <2>4. Total(f) = gained'
    BY <1>1 DEF GainOf
  <2> HIDE DEF f, ids
  <2> QED BY <2>1, <2>3, <2>4, TotalInt
<1>10. protection' = [s \in Symbols |->
                        IF protection[s] # None /\ protection[s].id \in {r.id : r \in OpenRows}
                        THEN protection[s] ELSE None]
  BY <1>1 DEF Pruned
<1>11. TypeOK'
  <2>1. DOMAIN positions' \subseteq Symbols
        /\ \A s \in DOMAIN positions' : positions'[s] \in Row /\ positions'[s].id[1] = s
    BY <1>1, <1>2, <1>3
  <2>2. entered' \in [Symbols -> SUBSET Minutes]
    <3>1. DOMAIN entered' = Symbols /\ entered' = [s \in Symbols |-> entered'[s]]
      BY <1>1 DEF EnteredOfRows
    <3>2. \A s \in Symbols : entered'[s] \in SUBSET Minutes
      BY <1>5 DEF IInv, TypeOK
    <3> QED BY <3>1, <3>2
  <2>3. protection' \in [Symbols -> Guard \cup {None}]
    <3>1. \A s \in Symbols : protection[s] \in Guard \cup {None}
      BY DEF IInv, TypeOK
    <3> QED BY <1>10, <3>1
  <2>4. job'.rows \in Seq(Row) /\ job'.signals \in Seq(SignalRow)
    BY <1>8 DEF Job
  <2>5. \A a \in Accounts : books'[a].realized \in Int /\ books'[a].peak \in Nat
          /\ \A id \in DOMAIN books'[a].open : books'[a].open[id] \in Nat \ {0}
    BY <1>7, BooksAreTyped
  <2>6. crashes' \in 0..MaxCrashes
    BY <1>1, MonitorAssumption DEF IInv, TypeOK
  <2> QED BY <1>1, <1>9, <2>1, <2>2, <2>3, <2>4, <2>5, <2>6 DEF IInv, TypeOK
<1>12. Held'
  BY <1>1, <1>3, <1>6 DEF Held, Sound
<1>13. StoredRows'
  <2>1. \A id \in DOMAIN rows : rows[id] \in AllRows
    BY DEF AllRows
  <2>2. \A s \in DOMAIN positions' : rows[positions'[s].id].st = "open"
    BY <1>1, <1>2, <1>3
  <2> QED BY <1>1, <1>6, <2>1, <2>2 DEF IInv, StoredRows, Sound
<1>14. JobStage' /\ JobRows' /\ JobSignals'
  BY <1>1, <1>8 DEF JobStage, JobRows, JobSignals
<1>15. Outboxed'
  BY <1>1 DEF IInv, Outboxed
<1>16. Spaced'
  <2>1. ASSUME NEW s \in Symbols
        PROVE  /\ \A m, n \in entered'[s] : m # n => m - n >= Cooldown \/ n - m >= Cooldown
               /\ \A d \in Nat : Cardinality({m \in entered'[s] : Day(m) = d}) <= DayCap
               /\ \A m \in entered'[s] : m <= minute
    <3>1. ASSUME NEW d \in Nat
          PROVE  Cardinality({m \in entered'[s] : Day(m) = d}) <= DayCap
      <4> DEFINE old == {m \in entered[s] : Day(m) = d}
                 new == {m \in entered'[s] : Day(m) = d}
      <4>1. Cardinality(old) <= DayCap
        BY DEF IInv, Spaced
      <4>2. IsFiniteSet(old)
        <5>1. old \in SUBSET Minutes
          BY DEF IInv, TypeOK
        <5>2. IsFiniteSet(Minutes)
          BY MonitorAssumption, FS_Interval DEF Minutes
        <5> QED BY <5>1, <5>2, FS_Subset
      <4>3. new \in SUBSET old
        BY <1>5
      <4> HIDE DEF old, new
      <4>4. Cardinality(new) <= Cardinality(old) /\ Cardinality(new) \in Nat /\ Cardinality(old) \in Nat
        BY <4>2, <4>3, FS_Subset, FS_CardinalityType
      <4>5. Cardinality(new) <= DayCap
        BY <4>1, <4>4, MonitorAssumption
      <4> QED BY <4>5 DEF new
    <3>2. /\ \A m, n \in entered[s] : m # n => m - n >= Cooldown \/ n - m >= Cooldown
          /\ \A m \in entered[s] : m <= minute
      BY DEF IInv, Spaced
    <3> QED BY <1>5, <3>1, <3>2
  <2> QED BY <1>1, <2>1 DEF Spaced
<1>17. OneOpenRow'
  <2>1. SUFFICES ASSUME errors = 0, NEW id \in DOMAIN rows, rows[id].st = "open"
                 PROVE  id[1] \in DOMAIN Loaded /\ Loaded[id[1]].id = id
    <3>1. DOMAIN job'.rows = {}
      BY <1>8
    <3> QED BY <1>1, <3>1 DEF OneOpenRow
  <2> QED BY <2>1, LoadedAll DEF IInv, TypeOK
<1>18. ProtectionFollows'
  <2>1. ASSUME NEW s \in Symbols, protection'[s] # None
        PROVE  /\ protection'[s].id[1] = s
               /\ errors = 0 => s \in DOMAIN Loaded /\ protection'[s].id = Loaded[s].id
    <3>1. protection'[s] = protection[s] /\ protection[s] # None
          /\ protection[s].id \in {r.id : r \in OpenRows}
      BY <1>10, <2>1
    <3>2. protection[s].id[1] = s
      BY <3>1 DEF IInv, ProtectionFollows
    <3>3. PICK r \in OpenRows : r.id = protection[s].id
      BY <3>1
    <3>4. r.id \in DOMAIN rows /\ rows[r.id] = r /\ r.st = "open"
      BY <1>2 DEF OpenRows
    <3> QED BY <3>1, <3>2, <3>3, <3>4, LoadedAll
  <2> QED BY <1>1, <2>1 DEF ProtectionFollows
<1> QED BY <1>7, <1>8, <1>11, <1>12, <1>13, <1>14, <1>15, <1>16, <1>17, <1>18 DEF IInv

-----------------------------------------------------------------------------
(***************************************************************************)
(* The theorems.                                                           *)
(***************************************************************************)
LEMMA InitInv ==
    ASSUME Init
    PROVE  IInv
<1>1. /\ minute = 1 /\ done = {} /\ positions = << >> /\ entered = [s \in Symbols |-> {}]
      /\ gained = 0 /\ books = NewBooks /\ pc = "idle" /\ job = NoJob /\ rows = << >>
      /\ outbox = <<>> /\ protection = [s \in Symbols |-> None] /\ errors = 0 /\ crashes = 0
  BY DEF Init
<1>2. job \in Job /\ job.rows = <<>> /\ job.signals = <<>>
  BY <1>1 DEF NoJob, Job
<1>3. books \in [Accounts -> Book]
  BY <1>1, NewBooksTyped
<1>4. DOMAIN positions = {} /\ DOMAIN rows = {} /\ DOMAIN outbox = {} /\ outbox \in Seq(SignalRow)
  BY <1>1
<1>5. \A a \in Accounts : books[a].realized \in Int /\ books[a].peak \in Nat
        /\ \A id \in DOMAIN books[a].open : books[a].open[id] \in Nat \ {0}
  BY <1>3, BooksAreTyped
<1>6. TypeOK
  <2>1. 1 \in Minutes /\ 0 \in 0..MaxErrors /\ 0 \in 0..MaxCrashes
    BY MonitorAssumption DEF Minutes
  <2>2. job.rows \in Seq(Row) /\ job.signals \in Seq(SignalRow)
    BY <1>2
  <2> QED BY <1>1, <1>4, <1>5, <2>1, <2>2 DEF TypeOK
<1>7. Spaced
  <2>1. ASSUME NEW s \in Symbols, NEW d \in Nat
        PROVE  Cardinality({m \in entered[s] : Day(m) = d}) <= DayCap
    <3>1. {m \in entered[s] : Day(m) = d} = {}
      BY <1>1
    <3> QED BY <3>1, FS_EmptySet, MonitorAssumption
  <2> QED BY <1>1, <2>1 DEF Spaced
<1>8. Held /\ StoredRows /\ JobStage /\ JobRows /\ JobSignals /\ Outboxed
  BY <1>1, <1>2, <1>4 DEF Held, StoredRows, JobStage, JobRows, JobSignals, Outboxed
<1>9. OneOpenRow /\ ProtectionFollows
  BY <1>1, <1>4 DEF OneOpenRow, ProtectionFollows
<1> QED BY <1>2, <1>3, <1>6, <1>7, <1>8, <1>9 DEF IInv

LEMMA NextInv ==
    ASSUME IInv, [Next]_vars
    PROVE  IInv'
<1>1. ASSUME NEW s \in Symbols, Candle(s) PROVE IInv'
  BY <1>1, CandleInv
<1>2. CASE Tick
  BY <1>2, TickInv
<1>3. CASE StoreRow
  BY <1>3, StoreRowInv
<1>4. CASE Protect
  BY <1>4, ProtectInv
<1>5. CASE Publish
  BY <1>5, PublishInv
<1>6. CASE Account
  BY <1>6, AccountInv
<1>7. CASE Error
  BY <1>7, ErrorInv
<1>8. CASE Restart
  BY <1>8, RestartInv
<1>9. CASE UNCHANGED vars
  <2>1. UNCHANGED <<minute, done, positions, entered, gained, books, pc, job, rows, outbox,
                    protection, errors, crashes>>
    BY <1>9 DEF vars, clock, engine, store, bounds
  <2>2. TypeOK' /\ job' \in Job /\ books' \in [Accounts -> Book]
    BY <2>1 DEF IInv, TypeOK
  <2>3. Held' /\ StoredRows' /\ Spaced'
    BY <2>1, EngineUnchanged
  <2>4. JobStage' /\ JobRows' /\ Outboxed' /\ OneOpenRow' /\ ProtectionFollows'
    BY <2>1 DEF IInv, JobStage, JobRows, Outboxed, OneOpenRow, ProtectionFollows, Sound
  <2>5. JobSignals'
    BY <2>1 DEF IInv, JobSignals, Published
  <2> QED BY <2>2, <2>3, <2>4, <2>5 DEF IInv
<1> QED BY <1>1, <1>2, <1>3, <1>4, <1>5, <1>6, <1>7, <1>8, <1>9 DEF Next

(* The inductive invariant holds: what the store, the outbox, the job and the
   engine's memory say of a position fits together at every step. *)
THEOREM MonitorInvariant == Spec => []IInv
<1>1. Init => IInv
  BY InitInv
<1>2. IInv /\ [Next]_vars => IInv'
  BY NextInv
<1> QED BY <1>1, <1>2, PTL DEF Spec

(* What the engine, the accounts and the tables hold has its type. *)
THEOREM MonitorTypes == Spec => []TypeOK
<1>1. IInv => TypeOK
  BY DEF IInv
<1> QED BY <1>1, MonitorInvariant, PTL

(* A position whose exit the live process may have read is never held again,
   nor exits again, whatever failed or crashed in between. *)
THEOREM ExitedIsOut == Spec => []ExitedStaysOut
<1>1. IInv => ExitedStaysOut
  BY HeldUnpublished DEF IInv, Outboxed, ExitedStaysOut
<1> QED BY <1>1, MonitorInvariant, PTL

(* The cooldown and the day's cap hold between the entries the live process is
   given, across failed commits and restarts. *)
THEOREM PublishedEntriesSpaced == Spec => []EntriesSpaced
<1>1. ASSUME IInv
      PROVE  EntriesSpaced
  <2>1. ASSUME NEW p \in Published("open")
        PROVE  p \in PositionIds /\ p[2] \in entered[p[1]]
    <3>1. p \in DOMAIN rows
      BY <1>1 DEF IInv, Outboxed, Published
    <3>2. rows[p] \in Row /\ rows[p].id = p /\ Sound(rows[p])
      BY <1>1, <3>1 DEF IInv, TypeOK, StoredRows
    <3> QED BY <3>2, RowTypes DEF Sound, SoundAt
  <2>2. \A p \in Published("open") : p = <<p[1], p[2]>> /\ p[1] \in Symbols /\ p[2] \in Nat
    BY <1>1, <2>1, MinuteTypes DEF PositionIds, IInv
  <2>3. ASSUME NEW p \in Published("open"), NEW q \in Published("open"), p # q, p[1] = q[1]
        PROVE  p[2] - q[2] >= Cooldown \/ q[2] - p[2] >= Cooldown
    <3>1. p[2] # q[2]
      BY <2>2, <2>3
    <3> QED BY <1>1, <2>1, <2>2, <2>3, <3>1 DEF IInv, Spaced
  <2>4. ASSUME NEW p \in Published("open")
        PROVE  Cardinality({r \in Published("open") : r[1] = p[1] /\ Day(r[2]) = Day(p[2])})
                 <= DayCap
    <3> DEFINE day == {r \in Published("open") : r[1] = p[1] /\ Day(r[2]) = Day(p[2])}
               times == {m \in entered[p[1]] : Day(m) = Day(p[2])}
    <3>1. Day(p[2]) \in Nat
      <4>1. p[2] \in Minutes /\ DayLength \in Nat \ {0}
        BY <2>1, MonitorAssumption DEF PositionIds
      <4>2. p[2] - 1 \in Nat
        BY <4>1 DEF Minutes
      <4>3. (p[2] - 1) \div DayLength \in Nat
        BY <4>1, <4>2
      <4> QED BY <4>3 DEF Day
    <3>2. Cardinality(times) <= DayCap
      BY <1>1, <2>2, <3>1 DEF IInv, Spaced
    <3>3. IsFiniteSet(times)
      <4>1. times \in SUBSET Minutes
        BY <1>1, <2>2 DEF IInv, TypeOK
      <4>2. IsFiniteSet(Minutes)
        BY MonitorAssumption, FS_Interval DEF Minutes
      <4> QED BY <4>1, <4>2, FS_Subset
    <3>4. day \in SUBSET ({p[1]} \X times)
      BY <2>1, <2>2
    <3> HIDE DEF day, times
    <3>5. IsFiniteSet({p[1]}) /\ Cardinality({p[1]}) = 1
      BY FS_Singleton
    <3>6. IsFiniteSet({p[1]} \X times)
          /\ Cardinality({p[1]} \X times) = Cardinality({p[1]}) * Cardinality(times)
      BY <3>3, <3>5, FS_Product
    <3>7. Cardinality(day) <= Cardinality({p[1]} \X times) /\ IsFiniteSet(day)
      BY <3>4, <3>6, FS_Subset
    <3>8. Cardinality(times) \in Nat /\ Cardinality(day) \in Nat /\ DayCap \in Nat
      BY <3>3, <3>7, FS_CardinalityType, MonitorAssumption
    <3>9. Cardinality(day) <= DayCap
      BY <3>2, <3>5, <3>6, <3>7, <3>8
    <3> QED BY <3>9 DEF day
  <2> QED BY <2>3, <2>4 DEF EntriesSpaced
<1> QED BY <1>1, MonitorInvariant, PTL

(* Between events, as long as no commit failed, the protection rows the live
   process mirrors are those of the positions held. *)
THEOREM ProtectionOfHeld == Spec => []ProtectionNamesHeld
<1>1. IInv => ProtectionNamesHeld
  BY DEF IInv, ProtectionFollows, ProtectionNamesHeld
<1> QED BY <1>1, MonitorInvariant, PTL

-----------------------------------------------------------------------------
(***************************************************************************)
(* The account that copies the strategy follows it.                        *)
(***************************************************************************)

\* The position of an exit that waits is not held.
LEMMA WaitingNotHeld ==
    ASSUME IInv, NEW id \in Waiting("exit")
    PROVE  id \notin HeldIds
<1>1. PICK i \in DOMAIN job.signals : job.signals[i].action = "exit" /\ job.signals[i].id = id
  BY DEF Waiting
<1>2. \/ id \in DOMAIN rows /\ rows[id].st = "closed"
      \/ \E j \in DOMAIN job.rows : job.rows[j].id = id /\ job.rows[j].st = "closed"
  BY <1>1 DEF IInv, JobSignals, Backed
<1>3. SUFFICES ASSUME NEW s \in DOMAIN positions, positions[s].id = id PROVE FALSE
  BY DEF HeldIds
<1>4. CASE id \in DOMAIN rows /\ rows[id].st = "closed"
  BY <1>3, <1>4 DEF IInv, StoredRows
<1>5. ASSUME NEW j \in DOMAIN job.rows, job.rows[j].id = id, job.rows[j].st = "closed"
      PROVE  FALSE
  <2>1. positions[s].id[1] = s
    BY DEF IInv, TypeOK
  <2> QED BY <1>3, <1>5, <2>1 DEF IInv, JobRows
<1> QED BY <1>2, <1>4, <1>5

\* Of one signal, and of two, those of an action.
LEMMA WaitingFew ==
    ASSUME NEW q, NEW action
    PROVE  /\ q = <<>> => {q[i].id : i \in {j \in DOMAIN q : q[j].action = action}} = {}
           /\ \A e : q = <<e>> => {q[i].id : i \in {j \in DOMAIN q : q[j].action = action}} =
                                   IF e.action = action THEN {e.id} ELSE {}
           /\ \A e, o : q = <<e, o>> =>
                {q[i].id : i \in {j \in DOMAIN q : q[j].action = action}} =
                  (IF e.action = action THEN {e.id} ELSE {})
                  \cup (IF o.action = action THEN {o.id} ELSE {})
<1>1. q = <<>> => DOMAIN q = {}
  OBVIOUS
<1>2. \A e : q = <<e>> => DOMAIN q = {1} /\ q[1] = e
  OBVIOUS
<1>3. \A e, o : q = <<e, o>> => DOMAIN q = {1, 2} /\ q[1] = e /\ q[2] = o
  OBVIOUS
<1> QED BY <1>1, <1>2, <1>3

LEMMA CandleCopies ==
    ASSUME IInv, CopyInv, NEW s \in Symbols, Candle(s)
    PROVE  CopyInv'
<1>1. /\ pc = "idle" /\ s \notin done /\ done' = done \cup {s}
      /\ UNCHANGED <<minute, books, rows, outbox, protection, errors, crashes>>
      /\ \/ LeavesAlone
         \/ \E p \in Row : Keeps(s, p)
         \/ \E c \in Row : Exits(s, c)
         \/ \E n \in Row : Enters(s, n)
         \/ \E c, n \in Row : Turns(s, c, n)
  BY CandleStep DEF IInv
<1>2. job.signals = <<>> /\ Waiting("open") = {} /\ Waiting("exit") = {}
  BY <1>1 DEF IInv, JobStage, Waiting
<1>3. errors = 0 =>
        /\ DOMAIN books[Master].open = HeldIds
        /\ \A t \in DOMAIN positions : books[Master].open[positions[t].id] = positions[t].margin
        /\ books[Master].realized = gained
  BY <1>2 DEF CopyInv, MasterFollows, HeldIds
<1>4. \A t \in DOMAIN positions : positions[t].id[1] = t
  BY DEF IInv, TypeOK
<1>5. <<s, minute>> \notin DOMAIN rows /\ (s \in DOMAIN positions => positions[s].id # <<s, minute>>)
  BY <1>1, EntryIsNew
<1>6. <<s, minute>> \notin Published("open")' /\ <<s, minute>> \notin HeldIds
  <2>1. \A i \in DOMAIN outbox : outbox[i].id \in DOMAIN rows
    BY DEF IInv, Outboxed
  <2>2. <<s, minute>>[1] = s
    OBVIOUS
  <2> QED BY <1>1, <1>4, <1>5, <2>1, <2>2 DEF Published, HeldIds
<1>7. CASE LeavesAlone
  <2>1. positions' = positions /\ gained' = gained /\ pc' = "idle" /\ job' = NoJob
    BY <1>7 DEF LeavesAlone
  <2>2. job'.signals = <<>> /\ Waiting("open")' = {} /\ Waiting("exit")' = {}
    BY <2>1 DEF NoJob, Waiting
  <2>3. HeldIds' = HeldIds
    BY <2>1 DEF HeldIds
  <2>4. OpenSignals' /\ MarginsStored' /\ SizedWithin'
    BY <1>1, <2>1, <2>2 DEF CopyInv, OpenSignals, MarginsStored, SizedWithin
  <2>5. MasterFollows'
    BY <1>1, <1>3, <2>1, <2>2, <2>3 DEF MasterFollows
  <2> QED BY <2>4, <2>5 DEF CopyInv
<1>8. ASSUME NEW p \in Row, Keeps(s, p)
      PROVE  CopyInv'
  <2>1. /\ s \in DOMAIN positions /\ SameTrade(p, positions[s])
        /\ positions' = [positions EXCEPT ![s] = p] /\ gained' = gained
        /\ job' = [symbol |-> s, rows |-> <<p>>, signals |-> <<>>]
    BY <1>8 DEF Keeps, Committing
  <2>2. job'.signals = <<>> /\ Waiting("open")' = {} /\ Waiting("exit")' = {}
    BY <2>1 DEF Waiting
  <2>3. DOMAIN positions' = DOMAIN positions
        /\ \A t \in DOMAIN positions : positions'[t].id = positions[t].id
                                       /\ positions'[t].margin = positions[t].margin
    BY <2>1 DEF SameTrade
  <2>4. HeldIds' = HeldIds
    BY <2>3 DEF HeldIds
  <2>5. OpenSignals' /\ MarginsStored' /\ SizedWithin'
    BY <1>1, <2>2, <2>3 DEF CopyInv, OpenSignals, MarginsStored, SizedWithin
  <2>6. MasterFollows'
    BY <1>1, <1>3, <2>1, <2>2, <2>3, <2>4 DEF MasterFollows
  <2> QED BY <2>5, <2>6 DEF CopyInv
<1>9. ASSUME NEW c \in Row, Exits(s, c)
      PROVE  CopyInv'
  <2> DEFINE e == Signal("exit", c.id)
  <2>1. /\ s \in DOMAIN positions /\ SameTrade(c, positions[s]) /\ c.st = "closed"
        /\ positions' = Without(positions, s) /\ gained' = gained + c.pnl
        /\ job' = [symbol |-> s, rows |-> <<c>>, signals |-> <<e>>]
        /\ e.action = "exit" /\ e.id = c.id
    BY <1>9 DEF Exits, Leaves, Committing, Signal
  <2> HIDE DEF e
  <2>2. job'.signals = <<e>> /\ job'.rows = <<c>> /\ Waiting("open")' = {} /\ Waiting("exit")' = {c.id}
    BY <2>1, WaitingFew DEF Waiting
  <2>3. DOMAIN positions' = DOMAIN positions \ {s}
        /\ \A t \in DOMAIN positions' : positions'[t] = positions[t]
    BY <2>1 DEF Without
  <2>4. HeldIds = HeldIds' \cup {c.id} /\ c.id \in HeldIds
    BY <2>1, <2>3 DEF HeldIds, SameTrade
  <2>5. DOMAIN job'.signals = {1} /\ job'.signals[1] = e /\ DOMAIN job'.rows = {1} /\ job'.rows[1] = c
    BY <2>2
  <2>6. OpenSignals'
    BY <2>1, <2>5 DEF OpenSignals
  <2>7. MarginsStored' /\ SizedWithin'
    BY <1>1, <2>2, <2>3 DEF CopyInv, MarginsStored, SizedWithin
  <2>8. ASSUME errors = 0
        PROVE  books[Master].realized + c.pnl = gained'
    BY <1>3, <2>1, <2>8
  <2>9. MasterFollows'
    BY <1>1, <1>3, <2>1, <2>2, <2>3, <2>4, <2>5, <2>8 DEF MasterFollows, Settles
  <2> QED BY <2>6, <2>7, <2>9 DEF CopyInv
<1>10. ASSUME NEW n \in Row, Enters(s, n)
       PROVE  CopyInv'
  <2> DEFINE o == Signal("open", n.id)
  <2>1. /\ s \notin DOMAIN positions /\ n.id = <<s, minute>>
        /\ positions' = Put(positions, s, n) /\ gained' = gained
        /\ MarginHeld' <= AtLeast0(Initial + gained')
        /\ job' = [symbol |-> s, rows |-> <<n>>, signals |-> <<o>>]
        /\ o.action = "open" /\ o.id = n.id
    BY <1>10 DEF Enters, NewEntry, Committing, Signal
  <2> HIDE DEF o
  <2>2. job'.signals = <<o>> /\ Waiting("open")' = {n.id} /\ Waiting("exit")' = {}
    <3>1. job'.signals = <<o>>
      BY <2>1
    <3> DEFINE q == job'.signals
    <3>2. q = <<o>>
      BY <3>1
    <3> HIDE DEF q
    <3>3. {q[i].id : i \in {j \in DOMAIN q : q[j].action = "open"}} =
            IF o.action = "open" THEN {o.id} ELSE {}
      BY <3>2, WaitingFew
    <3>4. {q[i].id : i \in {j \in DOMAIN q : q[j].action = "exit"}} =
            IF o.action = "exit" THEN {o.id} ELSE {}
      BY <3>2, WaitingFew
    <3> QED BY <2>1, <3>1, <3>3, <3>4 DEF Waiting, q
  <2>3. DOMAIN positions' = DOMAIN positions \cup {s} /\ positions'[s] = n
        /\ \A t \in DOMAIN positions : positions'[t] = positions[t]
    BY <2>1 DEF Put
  <2>4. HeldIds' = HeldIds \cup {n.id} /\ n.id \notin HeldIds
    BY <1>6, <2>1, <2>3 DEF HeldIds
  <2>5. DOMAIN job'.signals = {1} /\ job'.signals[1] = o /\ Len(job'.signals) = 1
    BY <2>2
  <2>6. OpenSignals'
    BY <1>6, <2>1, <2>4, <2>5 DEF OpenSignals
  <2>7. MarginsStored' /\ SizedWithin'
    BY <1>1, <1>5, <2>1, <2>3 DEF CopyInv, MarginsStored, SizedWithin
  <2>8. MasterFollows'
    <3>1. ASSUME errors = 0, NEW t \in DOMAIN positions', positions'[t].id \in HeldIds
          PROVE  books[Master].open[positions'[t].id] = positions'[t].margin
      BY <1>3, <2>3, <2>4, <3>1
    <3> QED BY <1>1, <1>3, <2>1, <2>2, <2>4, <3>1 DEF MasterFollows
  <2> QED BY <2>6, <2>7, <2>8 DEF CopyInv
<1>11. ASSUME NEW c \in Row, NEW n \in Row, Turns(s, c, n)
       PROVE  CopyInv'
  <2> DEFINE e == Signal("exit", c.id)
             o == Signal("open", n.id)
  <2>1. /\ s \in DOMAIN positions /\ SameTrade(c, positions[s]) /\ c.st = "closed"
        /\ n.st = "open" /\ n.id = <<s, minute>> /\ gained' = gained + c.pnl
        /\ positions' = Put(Without(positions, s), s, n)
        /\ MarginHeld' <= AtLeast0(Initial + gained')
        /\ job' = [symbol |-> s, rows |-> <<c, n>>, signals |-> <<e, o>>]
        /\ o.action = "open" /\ o.id = n.id /\ e.action = "exit" /\ e.id = c.id
    BY <1>11 DEF Turns, Leaves, NewEntry, Committing, Signal
  <2> HIDE DEF e, o
  <2>2. job'.signals = <<e, o>> /\ job'.rows = <<c, n>>
        /\ Waiting("open")' = {n.id} /\ Waiting("exit")' = {c.id}
    <3>1. job'.signals = <<e, o>> /\ job'.rows = <<c, n>>
      BY <2>1
    <3> DEFINE q == job'.signals
    <3>2. /\ {q[i].id : i \in {j \in DOMAIN q : q[j].action = "open"}} = {n.id}
          /\ {q[i].id : i \in {j \in DOMAIN q : q[j].action = "exit"}} = {c.id}
      BY <2>1, <3>1, WaitingFew
    <3> QED BY <3>1, <3>2 DEF Waiting
  <2>3. DOMAIN positions' = DOMAIN positions /\ positions'[s] = n
        /\ \A t \in DOMAIN positions : t # s => positions'[t] = positions[t]
    BY <2>1 DEF Put, Without
  <2>4. HeldIds' = (HeldIds \ {c.id}) \cup {n.id} /\ n.id \notin HeldIds /\ c.id \in HeldIds
    <3>1. \A t \in DOMAIN positions : t # s => positions[t].id # c.id
      BY <1>4, <2>1 DEF SameTrade
    <3> QED BY <1>6, <2>1, <2>3, <3>1 DEF HeldIds, SameTrade
  <2>5. DOMAIN job'.signals = {1, 2} /\ job'.signals[1] = e /\ job'.signals[2] = o
        /\ Len(job'.signals) = 2
        /\ DOMAIN job'.rows = {1, 2} /\ job'.rows[1] = c /\ job'.rows[2] = n
    BY <2>2
  <2>6. OpenSignals'
    BY <1>6, <2>1, <2>4, <2>5 DEF OpenSignals
  <2>7. MarginsStored' /\ SizedWithin'
    BY <1>1, <1>5, <2>1, <2>3 DEF CopyInv, MarginsStored, SizedWithin
  <2>8. MasterFollows'
    <3>1. ASSUME errors = 0, NEW t \in DOMAIN positions', positions'[t].id \in HeldIds
          PROVE  books[Master].open[positions'[t].id] = positions'[t].margin
      BY <1>3, <2>3, <2>4, <3>1
    <3>2. errors = 0 => books[Master].realized + c.pnl = gained'
      BY <1>3, <2>1
    <3>3. Settles(books[Master], c.id)' <=> books'[Master].realized + c.pnl = gained'
      BY <2>1, <2>5 DEF Settles
    <3>4. (HeldIds' \ {n.id}) \cup {c.id} = HeldIds
      BY <2>4
    <3> QED BY <1>1, <1>3, <2>1, <2>2, <3>1, <3>2, <3>3, <3>4 DEF MasterFollows, Settles
  <2> QED BY <2>6, <2>7, <2>8 DEF CopyInv
<1> QED BY <1>1, <1>7, <1>8, <1>9, <1>10, <1>11

LEMMA CopiesUnchanged ==
    ASSUME CopyInv, UNCHANGED <<positions, gained, books, pc, job, rows, outbox, errors>>
    PROVE  CopyInv'
<1>1. HeldIds' = HeldIds /\ MarginHeld' = MarginHeld
      /\ \A action : Waiting(action)' = Waiting(action) /\ Published(action)' = Published(action)
  BY DEF HeldIds, MarginHeld, Waiting, Published
<1>2. OpenSignals' /\ MarginsStored' /\ SizedWithin'
  BY <1>1 DEF CopyInv, OpenSignals, MarginsStored, SizedWithin
<1>3. MasterFollows'
  BY <1>1 DEF CopyInv, MasterFollows, Settles
<1> QED BY <1>2, <1>3 DEF CopyInv

LEMMA StoreRowCopies ==
    ASSUME IInv, CopyInv, StoreRow
    PROVE  CopyInv'
<1> DEFINE r == Head(job.rows)
<1>1. /\ pc = "rows" /\ rows' = Put(rows, r.id, r) /\ job' = [job EXCEPT !.rows = Tail(@)]
      /\ pc' # "account"
      /\ UNCHANGED <<positions, gained, books, outbox, errors>>
  BY DEF StoreRow, engine, bounds
<1>2. job.rows # <<>> /\ job \in Job
  BY <1>1 DEF IInv, JobStage
<1>3. /\ r = job.rows[1] /\ 1 \in DOMAIN job.rows
      /\ r.st = "open" => job.symbol \in DOMAIN positions /\ positions[job.symbol] = r
      /\ r.st = "closed" => \A t \in DOMAIN positions : positions[t].id # r.id
      /\ \A i \in DOMAIN Tail(job.rows) : Tail(job.rows)[i].st = "open"
      /\ \A i \in DOMAIN job.rows : i # 1 => job.rows[i].st = "open"
      /\ r.st \in {"open", "closed"}
  BY <1>2, FirstRow, RowTypes
<1>4. job'.rows = Tail(job.rows) /\ job'.signals = job.signals
  BY <1>1, <1>2 DEF Job
<1> HIDE DEF r
<1>5. /\ DOMAIN rows' = DOMAIN rows \cup {r.id} /\ rows'[r.id] = r
      /\ \A id \in DOMAIN rows : id # r.id => rows'[id] = rows[id]
  BY <1>1 DEF Put
<1>6. HeldIds' = HeldIds /\ MarginHeld' = MarginHeld
      /\ \A action : Waiting(action)' = Waiting(action) /\ Published(action)' = Published(action)
  BY <1>1, <1>4 DEF HeldIds, MarginHeld, Waiting, Published
<1>7. OpenSignals' /\ SizedWithin'
  BY <1>1, <1>4, <1>6 DEF CopyInv, OpenSignals, SizedWithin
<1>8. MarginsStored'
  <2>1. ASSUME NEW t \in DOMAIN positions, positions[t].id = r.id
        PROVE  r.margin = positions[t].margin
    <3>1. positions[t].id[1] = t /\ r.st = "open"
      BY <1>3, <2>1 DEF IInv, TypeOK
    <3>2. positions[job.symbol].id[1] = job.symbol /\ positions[job.symbol] = r
      BY <1>3, <3>1 DEF IInv, TypeOK
    <3> QED BY <2>1, <3>1, <3>2
  <2> QED BY <1>1, <1>5, <2>1 DEF CopyInv, MarginsStored
<1>9. ASSUME errors = 0, NEW id \in Waiting("exit")
      PROVE  Settles(books[Master], id)'
  <2>1. Settles(books[Master], id)
    BY <1>9 DEF CopyInv, MasterFollows
  <2>2. id \in DOMAIN rows' /\ books[Master].realized + rows'[id].pnl = gained
    <3>1. CASE r.st = "closed"
      <4>1. r.id = id /\ books[Master].realized + r.pnl = gained
        BY <1>3, <2>1, <3>1 DEF Settles
      <4> QED BY <1>5, <4>1
    <3>2. CASE r.st = "open"
      <4>1. \A i \in DOMAIN job.rows : job.rows[i].st # "closed"
        BY <1>3, <3>2
      <4>2. id \in DOMAIN rows /\ books[Master].realized + rows[id].pnl = gained
        BY <2>1, <4>1 DEF Settles
      <4>3. id # r.id
        BY <1>3, <1>9, <3>2, WaitingNotHeld DEF HeldIds
      <4> QED BY <1>5, <4>2, <4>3
    <3> QED BY <1>3, <3>1, <3>2
  <2>3. \A i \in DOMAIN job'.rows : job'.rows[i].st # "closed"
    BY <1>3, <1>4
  <2> QED BY <1>1, <2>2, <2>3 DEF Settles
<1>10. MasterFollows'
  BY <1>1, <1>6, <1>9 DEF CopyInv, MasterFollows
<1> QED BY <1>7, <1>8, <1>10 DEF CopyInv

LEMMA ProtectCopies ==
    ASSUME IInv, CopyInv, Protect
    PROVE  CopyInv'
<1>1. /\ pc = "protect" /\ pc' = AfterCommit(job.signals)
      /\ job' = (IF job.signals = <<>> THEN NoJob ELSE job)
      /\ UNCHANGED <<positions, gained, books, rows, outbox, errors>>
  BY DEF Protect, engine, bounds
<1>2. pc' # "account"
  BY <1>1, AfterCommitStage
<1>3. job'.rows = job.rows /\ job'.signals = job.signals
  BY <1>1 DEF IInv, JobStage, NoJob
<1>4. HeldIds' = HeldIds /\ MarginHeld' = MarginHeld
      /\ \A action : Waiting(action)' = Waiting(action) /\ Published(action)' = Published(action)
  BY <1>1, <1>3 DEF HeldIds, MarginHeld, Waiting, Published
<1>5. OpenSignals' /\ MarginsStored' /\ SizedWithin'
  BY <1>1, <1>2, <1>3, <1>4 DEF CopyInv, OpenSignals, MarginsStored, SizedWithin
<1>6. MasterFollows'
  BY <1>1, <1>3, <1>4 DEF CopyInv, MasterFollows, Settles
<1> QED BY <1>5, <1>6 DEF CopyInv

LEMMA PublishCopies ==
    ASSUME IInv, CopyInv, Publish
    PROVE  CopyInv'
<1> DEFINE signal == Head(job.signals)
           known == \E i \in DOMAIN outbox : outbox[i] = signal
<1>1. /\ pc = "publish"
      /\ outbox' = (IF known THEN outbox ELSE Append(outbox, signal))
      /\ pc' = (IF known THEN AfterCommit(Tail(job.signals)) ELSE "account")
      /\ job' = (IF known THEN [job EXCEPT !.signals = Tail(@)] ELSE job)
      /\ UNCHANGED <<positions, gained, books, rows, errors>>
  BY DEF Publish, engine, bounds
<1>2. /\ signal \in SignalRow /\ signal = job.signals[1] /\ 1 \in DOMAIN job.signals
      /\ signal.action = "exit" => signal.id \notin Published("exit")
  BY <1>1, FirstSignal
<1> HIDE DEF signal
\* A signal is published once: the head of the job is new.
<1>3. ~known
  <2>1. signal.action \in {"open", "exit"}
    BY <1>2 DEF SignalRow
  <2>2. signal.action = "open" => signal.id \notin Published("open")
    BY <1>1, <1>2 DEF CopyInv, OpenSignals
  <2>3. \A i \in DOMAIN outbox : outbox[i].id \in Published(outbox[i].action)
    BY DEF Published
  <2> QED BY <1>2, <2>1, <2>2, <2>3
<1> HIDE DEF known
<1>4. pc' = "account" /\ job' = job /\ outbox' = Append(outbox, signal)
  BY <1>1, <1>3
<1>5. signal.action # "open" => Published("open")' = Published("open")
  <2>1. outbox \in Seq(SignalRow)
    BY DEF IInv, TypeOK
  <2>2. /\ DOMAIN outbox = 1..Len(outbox) /\ DOMAIN outbox' = 1..(Len(outbox) + 1)
        /\ Len(outbox) \in Nat
        /\ \A i \in DOMAIN outbox : outbox'[i] = outbox[i]
        /\ outbox'[Len(outbox) + 1] = signal
    <3>1. Append(outbox, signal) \in Seq(SignalRow)
          /\ Len(Append(outbox, signal)) = Len(outbox) + 1
          /\ (\A i \in 1..Len(outbox) : Append(outbox, signal)[i] = outbox[i])
          /\ Append(outbox, signal)[Len(outbox) + 1] = signal
      BY <1>2, <2>1, AppendProperties
    <3> QED BY <1>4, <2>1, <3>1
  <2>3. ASSUME signal.action # "open"
        PROVE  {j \in DOMAIN outbox' : outbox'[j].action = "open"}
                 = {j \in DOMAIN outbox : outbox[j].action = "open"}
    BY <2>2, <2>3
  <2> QED BY <2>2, <2>3 DEF Published
<1>6. HeldIds' = HeldIds /\ MarginHeld' = MarginHeld
      /\ \A action : Waiting(action)' = Waiting(action)
  BY <1>1, <1>4 DEF HeldIds, MarginHeld, Waiting
<1>7. OpenSignals'
  <2>1. ASSUME NEW i \in DOMAIN job.signals, job.signals[i].action = "open", i # 1
        PROVE  job.signals[i].id \notin Published("open")'
    <3>1. i = Len(job.signals) /\ job.signals[i].id \notin Published("open")
      BY <1>1, <2>1 DEF CopyInv, OpenSignals
    <3>2. signal.action # "open"
      BY <1>2, <2>1, <3>1 DEF CopyInv, OpenSignals
    <3> QED BY <1>5, <3>1, <3>2
  <2> QED BY <1>4, <1>6, <2>1 DEF CopyInv, OpenSignals
<1>8. MarginsStored' /\ SizedWithin' /\ MasterFollows'
  BY <1>1, <1>4, <1>6 DEF CopyInv, MarginsStored, SizedWithin, MasterFollows, Settles
<1> QED BY <1>7, <1>8 DEF CopyInv

LEMMA ErrorCopies ==
    ASSUME IInv, CopyInv, Error
    PROVE  CopyInv'
<1>1. /\ errors' = errors + 1 /\ errors \in Nat /\ job' = NoJob
      /\ UNCHANGED <<positions, rows>>
  BY MonitorAssumption DEF Error, engine, store, IInv, TypeOK
<1>2. errors' # 0 /\ DOMAIN job'.signals = {} /\ Waiting("open")' = {}
  BY <1>1 DEF NoJob, Waiting
<1> QED BY <1>1, <1>2 DEF CopyInv, OpenSignals, MarginsStored, SizedWithin, MasterFollows

\* An exit reaches the account: it books what the strategy booked.
LEMMA MasterSettles ==
    ASSUME IInv, CopyInv, pc = "account", errors = 0, Head(job.signals).action = "exit"
    PROVE  LET a == Head(job.signals).id
           IN /\ Waiting("exit") = {a} /\ a \in DOMAIN books[Master].open /\ a \notin HeldIds
              /\ Applied[Master].realized = gained
              /\ Applied[Master].open = Without(books[Master].open, a)
<1> DEFINE a == Head(job.signals).id
<1>1. /\ job.rows = <<>> /\ Head(job.signals) = job.signals[1] /\ 1 \in DOMAIN job.signals
      /\ a \in DOMAIN rows /\ rows[a] \in Row /\ rows[a].id = a
  BY FirstSignal
<1> HIDE DEF a
<1>2. Applied = Closed(books, rows[a])
  BY DEF Applied, a
<1>3. Waiting("exit") = {a}
  <2>1. \A i \in DOMAIN job.signals : job.signals[i].action = "exit" => i = 1
    BY DEF IInv, JobSignals
  <2> QED BY <1>1, <2>1 DEF Waiting, a
<1>4. a \in DOMAIN books[Master].open /\ Settles(books[Master], a)
  BY <1>3 DEF CopyInv, MasterFollows
<1>5. books[Master].realized + rows[a].pnl = gained
  <2>1. DOMAIN job.rows = {}
    BY <1>1
  <2> QED BY <1>4, <2>1 DEF Settles
<1>6. books \in [Accounts -> Book] /\ Master \in Accounts /\ books[Master] \in Book
  BY AccountAssumption DEF IInv
<1>7. Closed(books, rows[a])[Master] = Settled(books[Master], rows[a].pnl, a)
  BY <1>1, <1>4, <1>6, ClosedBook DEF Profit
<1>8. rows[a].pnl \in Int
  BY <1>1, RowTypes
<1>9. a \notin HeldIds
  BY <1>3, WaitingNotHeld
<1> QED BY <1>2, <1>3, <1>4, <1>5, <1>6, <1>7, <1>8, <1>9, SettledTyped DEF a

\* An entry reaches the account: it commits what the strategy committed.
LEMMA MasterCommits ==
    ASSUME IInv, CopyInv, pc = "account", errors = 0, Head(job.signals).action = "open"
    PROVE  LET a == Head(job.signals).id
           IN /\ Waiting("open") = {a} /\ Waiting("exit") = {} /\ Tail(job.signals) = <<>>
              /\ a \in HeldIds /\ a \notin DOMAIN books[Master].open
              /\ Applied[Master].realized = gained
              /\ Applied[Master].open = Put(books[Master].open, a, rows[a].margin)
<1> DEFINE a == Head(job.signals).id
<1>1. /\ Head(job.signals) = job.signals[1] /\ 1 \in DOMAIN job.signals
      /\ a \in DOMAIN rows /\ rows[a] \in Row /\ rows[a].id = a
      /\ Tail(job.signals) = <<>> <=> Len(job.signals) = 1
      /\ job.signals \in Seq(SignalRow)
  BY FirstSignal
<1>2. 1 = Len(job.signals) /\ a \in HeldIds
  BY <1>1 DEF CopyInv, OpenSignals
<1>3. DOMAIN job.signals = {1} /\ job.signals[1].action = "open" /\ job.signals[1].id = a
  BY <1>1, <1>2
<1> HIDE DEF a
<1>4. Applied = Opened(books, rows[a])
  BY DEF Applied, a
<1>5. Waiting("open") = {a} /\ Waiting("exit") = {}
  BY <1>3 DEF Waiting
<1>6. a \notin DOMAIN books[Master].open /\ books[Master].realized = gained
  BY <1>5 DEF CopyInv, MasterFollows
<1>7. books \in [Accounts -> Book] /\ Master \in Accounts /\ books[Master] \in Book
  BY AccountAssumption DEF IInv
<1>8. rows[a].margin > 0 /\ rows[a].margin \in Nat
  BY <1>1, RowTypes DEF IInv, StoredRows, Sound, SoundAt
<1>9. MarginFor(Master, books[Master], rows[a]) = rows[a].margin
  BY <1>1, <1>7, <1>8, MarginType
<1>10. Opened(books, rows[a])[Master]
         = [books[Master] EXCEPT !.open = Put(books[Master].open, a, rows[a].margin)]
  BY <1>1, <1>6, <1>7, <1>8, <1>9 DEF Opened
<1>11. /\ Opened(books, rows[a])[Master].open = Put(books[Master].open, a, rows[a].margin)
       /\ Opened(books, rows[a])[Master].realized = books[Master].realized
  BY <1>7, <1>10 DEF Book
<1> QED BY <1>1, <1>2, <1>4, <1>5, <1>6, <1>11 DEF a

LEMMA MasterCommitted ==
    ASSUME IInv, CopyInv, pc = "account", errors = 0, Head(job.signals).action = "open"
    PROVE  /\ DOMAIN Applied[Master].open = HeldIds
           /\ \A s \in DOMAIN positions :
                Applied[Master].open[positions[s].id] = positions[s].margin
<1> DEFINE a == Head(job.signals).id
<1>1. /\ Waiting("open") = {a} /\ Waiting("exit") = {} /\ a \in HeldIds
      /\ Applied[Master].open = Put(books[Master].open, a, rows[a].margin)
  BY MasterCommits
<1>2. a \in DOMAIN rows
  BY FirstSignal
<1> HIDE DEF a
<1>3. DOMAIN books[Master].open = HeldIds \ {a}
  BY <1>1 DEF CopyInv, MasterFollows
<1>4. DOMAIN Applied[Master].open = HeldIds
  BY <1>1, <1>3 DEF Put
<1>5. ASSUME NEW s \in DOMAIN positions
      PROVE  Applied[Master].open[positions[s].id] = positions[s].margin
  <2>1. positions[s].id \in HeldIds
    BY DEF HeldIds
  <2>2. CASE positions[s].id = a
    BY <1>1, <1>2, <2>2 DEF CopyInv, MarginsStored, Put
  <2>3. CASE positions[s].id # a
    BY <1>1, <1>3, <2>1, <2>3 DEF CopyInv, MasterFollows, Put
  <2> QED BY <2>2, <2>3
<1> QED BY <1>4, <1>5

LEMMA AccountCopies ==
    ASSUME IInv, CopyInv, Account
    PROVE  CopyInv'
<1> DEFINE signal == Head(job.signals)
           a == signal.id
<1>1. /\ pc = "account" /\ books' = Applied /\ pc' # "account"
      /\ job' = (IF Len(job.signals) = 1 THEN NoJob ELSE [job EXCEPT !.signals = Tail(@)])
      /\ UNCHANGED <<positions, gained, rows, outbox, errors>>
  BY AfterCommitStage DEF Account, engine, store, bounds
<1>2. /\ job.rows = <<>> /\ job.signals \in Seq(SignalRow) /\ job.signals # <<>>
      /\ signal = job.signals[1] /\ 1 \in DOMAIN job.signals /\ signal \in SignalRow
      /\ Tail(job.signals) = <<>> <=> Len(job.signals) = 1
      /\ \A i \in DOMAIN Tail(job.signals) : Tail(job.signals)[i].action # "exit"
  BY <1>1, FirstSignal
<1>3. /\ \A i \in DOMAIN Tail(job.signals) :
           i + 1 \in DOMAIN job.signals /\ i + 1 # 1 /\ Tail(job.signals)[i] = job.signals[i + 1]
      /\ \A i \in DOMAIN job.signals :
           i # 1 => i - 1 \in DOMAIN Tail(job.signals) /\ Tail(job.signals)[i - 1] = job.signals[i]
      /\ Len(Tail(job.signals)) = Len(job.signals) - 1 /\ Len(job.signals) \in Nat
      /\ Tail(job.signals) \in Seq(SignalRow)
  BY <1>2, TailFacts
<1>4. job'.signals = Tail(job.signals) /\ job'.rows = <<>>
  <2>1. job \in Job /\ NoJob.signals = <<>> /\ NoJob.rows = <<>>
    BY DEF IInv, NoJob
  <2> QED BY <1>1, <1>2, <2>1 DEF Job
<1> HIDE DEF signal
<1>5. signal.action \in {"open", "exit"}
  BY <1>2 DEF SignalRow
<1>6. HeldIds' = HeldIds /\ MarginHeld' = MarginHeld
      /\ \A action : Published(action)' = Published(action)
  BY <1>1 DEF HeldIds, MarginHeld, Published
<1>7. Waiting("exit")' = {}
  BY <1>2, <1>4 DEF Waiting
<1>8. CASE signal.action = "exit"
  <2>1. Waiting("open")' = Waiting("open")
    <3>1. \A i \in DOMAIN job.signals : job.signals[i].action = "open" => i # 1
      BY <1>2, <1>8
    <3>2. ASSUME NEW id \in Waiting("open") PROVE id \in Waiting("open")'
      <4>1. PICK i \in DOMAIN job.signals : job.signals[i].action = "open" /\ job.signals[i].id = id
        BY <3>2 DEF Waiting
      <4>2. i - 1 \in DOMAIN job'.signals /\ job'.signals[i - 1] = job.signals[i]
        BY <1>3, <1>4, <3>1, <4>1
      <4> QED BY <4>1, <4>2 DEF Waiting
    <3>3. ASSUME NEW id \in Waiting("open")' PROVE id \in Waiting("open")
      <4>1. PICK i \in DOMAIN job'.signals :
                   job'.signals[i].action = "open" /\ job'.signals[i].id = id
        BY <3>3 DEF Waiting
      <4>2. i + 1 \in DOMAIN job.signals /\ job'.signals[i] = job.signals[i + 1]
        BY <1>3, <1>4, <4>1
      <4> QED BY <4>1, <4>2 DEF Waiting
    <3> QED BY <3>2, <3>3
  <2>2. OpenSignals'
    <3>1. ASSUME NEW i \in DOMAIN job'.signals, job'.signals[i].action = "open"
          PROVE  /\ i = Len(job'.signals) /\ job'.signals[i].id \in HeldIds
                 /\ job'.signals[i].id \notin Published("open")
      <4>1. i + 1 \in DOMAIN job.signals /\ i + 1 # 1 /\ job'.signals[i] = job.signals[i + 1]
            /\ i \in Nat
        BY <1>3, <1>4, <3>1
      <4>2. /\ i + 1 = Len(job.signals) /\ job.signals[i + 1].id \in HeldIds
            /\ job.signals[i + 1].id \notin Published("open")
        BY <3>1, <4>1 DEF CopyInv, OpenSignals
      <4> QED BY <1>3, <1>4, <4>1, <4>2
    <3> QED BY <1>6, <3>1 DEF OpenSignals
  <2>3. MarginsStored' /\ SizedWithin'
    BY <1>1, <1>6, <2>1 DEF CopyInv, MarginsStored, SizedWithin
  <2>4. MasterFollows'
    <3>1. SUFFICES ASSUME errors = 0 PROVE MasterFollows'
      BY <1>1 DEF MasterFollows
    <3>2. /\ Waiting("exit") = {a} /\ a \notin HeldIds
          /\ books'[Master].realized = gained
          /\ books'[Master].open = Without(books[Master].open, a)
      BY <1>1, <1>8, <3>1, MasterSettles DEF signal
    <3>3. DOMAIN books[Master].open = (HeldIds \ Waiting("open")) \cup {a}
      BY <3>1, <3>2 DEF CopyInv, MasterFollows
    <3>4. DOMAIN books'[Master].open = HeldIds \ Waiting("open")
      BY <3>2, <3>3 DEF Without
    <3>5. \A id \in DOMAIN books'[Master].open :
            id \in DOMAIN books[Master].open /\ books'[Master].open[id] = books[Master].open[id]
      BY <3>2 DEF Without
    <3>6. \A s \in DOMAIN positions : positions[s].id \in DOMAIN books'[Master].open =>
            books'[Master].open[positions[s].id] = positions[s].margin
      BY <3>1, <3>5 DEF CopyInv, MasterFollows
    <3> QED BY <1>1, <1>6, <1>7, <2>1, <3>2, <3>4, <3>6 DEF MasterFollows
  <2> QED BY <2>2, <2>3, <2>4 DEF CopyInv
<1>9. CASE signal.action = "open"
  <2>1. Len(job.signals) = 1
    BY <1>1, <1>2, <1>9 DEF CopyInv, OpenSignals
  <2>2. job'.signals = <<>> /\ Waiting("open")' = {}
    BY <1>2, <1>4, <2>1 DEF Waiting
  <2>3. OpenSignals' /\ MarginsStored' /\ SizedWithin'
    BY <1>1, <2>2 DEF CopyInv, OpenSignals, MarginsStored, SizedWithin
  <2>4. MasterFollows'
    <3>1. SUFFICES ASSUME errors = 0 PROVE MasterFollows'
      BY <1>1 DEF MasterFollows
    <3>2. /\ Waiting("open") = {a} /\ Waiting("exit") = {} /\ a \in HeldIds
          /\ books'[Master].realized = gained
      BY <1>1, <1>9, <3>1, MasterCommits DEF signal
    <3>3. /\ DOMAIN books'[Master].open = HeldIds
          /\ \A s \in DOMAIN positions :
               books'[Master].open[positions[s].id] = positions[s].margin
      BY <1>1, <1>9, <3>1, MasterCommitted DEF signal
    <3> QED BY <1>1, <1>6, <1>7, <2>2, <3>2, <3>3 DEF MasterFollows
  <2> QED BY <2>3, <2>4 DEF CopyInv
<1> QED BY <1>5, <1>8, <1>9

LEMMA RestartCopies ==
    ASSUME IInv, CopyInv, Restart
    PROVE  CopyInv'
<1> DEFINE held == {r \in AllRows : r.st = "open"}
           closed == {r \in AllRows : r.st = "closed"}
<1>1. /\ positions' = Loaded /\ gained' = GainOf({id \in DOMAIN rows : rows[id].st = "closed"})
      /\ books' = Replay(AllRows) /\ job' = NoJob /\ UNCHANGED <<rows, errors>>
  BY DEF Restart
<1>2. \A r \in AllRows : r.id \in DOMAIN rows /\ rows[r.id] = r /\ r \in Row /\ Sound(r)
  BY RowsTidy
<1>3. \A id \in DOMAIN rows : rows[id] \in AllRows /\ rows[id].id = id
  BY DEF IInv, TypeOK, AllRows
<1>4. DOMAIN job'.signals = {} /\ Waiting("open")' = {} /\ Waiting("exit")' = {}
  BY <1>1 DEF NoJob, Waiting
<1>5. CopiesRows(Replay(AllRows)[Master], held, closed)
  <2>1. Tidy(AllRows) /\ \A r \in AllRows : r.margin > 0
    BY <1>2, RowsTidy DEF Sound, SoundAt
  <2> QED BY <2>1, ReplayCopies
<1>6. \A s \in DOMAIN Loaded : Loaded[s] \in held /\ rows[Loaded[s].id] = Loaded[s]
  BY <1>2, LoadedFrom
<1>7. OpenSignals' /\ MarginsStored' /\ SizedWithin'
  BY <1>1, <1>4, <1>6 DEF OpenSignals, MarginsStored, SizedWithin
<1>8. books'[Master].realized = gained'
  <2> DEFINE ids == {id \in DOMAIN rows : rows[id].st = "closed"}
             f == [r \in AllRows |-> r.pnl]
             name == [r \in AllRows |-> r.id]
             g == [id \in DOMAIN rows |-> rows[id].pnl]
  <2>1. IsFiniteSet(closed)
    <3>1. IsFiniteSet(AllRows)
      BY RowsTidy DEF Tidy
    <3> QED BY <3>1, FS_Subset
  <2>2. \A r \in closed : f[r] \in Int
    BY <1>2, RowTypes
  <2>3. \A r, q \in closed : r # q => name[r] # name[q]
    BY <1>2
  <2>4. \A r \in closed : g[name[r]] = f[r]
    BY <1>2
  <2>5. {name[r] : r \in closed} = ids
    BY <1>2, <1>3
  <2>6. [r \in closed |-> f[r]] = [r \in closed |-> r.pnl]
    OBVIOUS
  <2>7. [id \in ids |-> g[id]] = [id \in ids |-> rows[id].pnl]
    OBVIOUS
  <2> HIDE DEF f, g, name, ids, closed
  <2>8. Total([r \in closed |-> f[r]]) = Total([n \in {name[r] : r \in closed} |-> g[n]])
    BY <2>1, <2>2, <2>3, <2>4, TotalRenamed
  <2>9. Total([r \in closed |-> r.pnl]) = Total([id \in ids |-> rows[id].pnl])
    BY <2>5, <2>6, <2>7, <2>8
  <2> QED BY <1>1, <1>5, <2>9 DEF CopiesRows, GainOf, ids
<1>9. ASSUME errors = 0
      PROVE  HeldIds' = {r.id : r \in held}
  <2>1. \A r \in held : r.id[1] \in DOMAIN Loaded /\ Loaded[r.id[1]] = r
    BY <1>2, <1>9, LoadedAll
  <2> QED BY <1>1, <1>6, <2>1 DEF HeldIds
<1>10. MasterFollows'
  <2>1. ASSUME NEW s \in DOMAIN positions'
        PROVE  books'[Master].open[positions'[s].id] = positions'[s].margin
    BY <1>1, <1>5, <1>6, <2>1 DEF CopiesRows
  <2> QED BY <1>1, <1>4, <1>5, <1>8, <1>9, <2>1 DEF MasterFollows, CopiesRows
<1> QED BY <1>7, <1>10 DEF CopyInv

LEMMA InitCopies ==
    ASSUME Init
    PROVE  CopyInv
<1>1. /\ DOMAIN positions = {} /\ gained = 0 /\ DOMAIN job.signals = {}
      /\ books[Master].realized = 0 /\ DOMAIN books[Master].open = {}
  BY AccountAssumption DEF Init, NoJob, NewBooks, NewBook
<1>2. HeldIds = {} /\ Waiting("open") = {} /\ Waiting("exit") = {}
  BY <1>1 DEF HeldIds, Waiting
<1> QED BY <1>1, <1>2 DEF CopyInv, OpenSignals, MarginsStored, SizedWithin, MasterFollows

LEMMA NextCopies ==
    ASSUME IInv, CopyInv, [Next]_vars
    PROVE  CopyInv'
<1>1. ASSUME NEW s \in Symbols, Candle(s) PROVE CopyInv'
  BY <1>1, CandleCopies
<1>2. CASE Tick
  BY <1>2, CopiesUnchanged DEF Tick, engine, store, bounds
<1>3. CASE StoreRow
  BY <1>3, StoreRowCopies
<1>4. CASE Protect
  BY <1>4, ProtectCopies
<1>5. CASE Publish
  BY <1>5, PublishCopies
<1>6. CASE Account
  BY <1>6, AccountCopies
<1>7. CASE Error
  BY <1>7, ErrorCopies
<1>8. CASE Restart
  BY <1>8, RestartCopies
<1>9. CASE UNCHANGED vars
  BY <1>9, CopiesUnchanged DEF vars, engine, store, bounds
<1> QED BY <1>1, <1>2, <1>3, <1>4, <1>5, <1>6, <1>7, <1>8, <1>9 DEF Next

(* The account that copies the strategy is behind it by the signals of the event
   at hand, and by nothing else, as long as no commit failed. *)
THEOREM CopyInvariant == Spec => [](IInv /\ CopyInv)
<1>1. Init => IInv /\ CopyInv
  BY InitInv, InitCopies
<1>2. IInv /\ CopyInv /\ [Next]_vars => (IInv /\ CopyInv)'
  BY NextInv, NextCopies
<1> QED BY <1>1, <1>2, PTL DEF Spec

(* The 20% account is the strategy's own account between events: apply_signal, and
   the rebuild after a crash, bring it to the engine's memory. *)
THEOREM MasterCopiesStrategy == Spec => []MasterIsTheStrategy
<1>1. ASSUME IInv, CopyInv, pc = "idle", errors = 0
      PROVE  /\ books[Master].realized = gained
             /\ DOMAIN books[Master].open = {positions[s].id : s \in DOMAIN positions}
             /\ \A s \in DOMAIN positions :
                  books[Master].open[positions[s].id] = positions[s].margin
  <2>1. Waiting("open") = {} /\ Waiting("exit") = {}
    BY <1>1 DEF IInv, JobStage, Waiting
  <2> QED BY <1>1, <2>1 DEF CopyInv, MasterFollows, HeldIds
<1>2. IInv /\ CopyInv => MasterIsTheStrategy
  BY <1>1 DEF MasterIsTheStrategy
<1> QED BY <1>2, CopyInvariant, PTL

-----------------------------------------------------------------------------
(***************************************************************************)
(* What an account commits.                                                *)
(***************************************************************************)

\* Only a signal of the accounts' turn opens a position in a book.
LEMMA OpensFromSignal ==
    ASSUME IInv, [Next]_vars, NEW a \in Accounts, Opens(a), crashes' = crashes
    PROVE  /\ pc = "account" /\ Head(job.signals).action = "open"
           /\ books'[a] = Opened(books, rows[Head(job.signals).id])[a]
<1> DEFINE signal == Head(job.signals)
<1>1. books' # books
  BY DEF Opens
<1>2. pc = "account" /\ books' = Applied
  <2>1. ASSUME NEW s \in Symbols, Candle(s) PROVE FALSE
    BY <1>1, <2>1 DEF Candle
  <2>2. ~Tick /\ ~StoreRow /\ ~Protect /\ ~Publish /\ ~UNCHANGED vars
    BY <1>1 DEF Tick, StoreRow, Protect, Publish, vars
  <2>3. ~Restart
    <3>1. crashes \in Nat
      BY MonitorAssumption DEF IInv, TypeOK
    <3> QED BY <3>1 DEF Restart
  <2>4. Account \/ Error
    BY <2>1, <2>2, <2>3 DEF Next
  <2> QED BY <1>1, <2>4 DEF Account, Error
<1>3. rows[signal.id] \in Row /\ signal \in SignalRow /\ books \in [Accounts -> Book]
  BY <1>2, FirstSignal DEF IInv
<1>4. signal.action # "exit"
  <2>1. SUFFICES ASSUME signal.action = "exit" PROVE FALSE
    OBVIOUS
  <2>2. books' = Closed(books, rows[signal.id])
    BY <1>2, <2>1 DEF Applied
  <2>3. books'[a].open = books[a].open
        \/ books'[a].open = Without(books[a].open, rows[signal.id].id)
    <3>1. books'[a] =
            IF rows[signal.id].id \in DOMAIN books[a].open
            THEN Settled(books[a], Profit(a, books[a], rows[signal.id]), rows[signal.id].id)
            ELSE books[a]
      <4> HIDE DEF signal
      <4> QED BY <1>3, <2>2, ClosedBook
    <3>2. books[a] \in Book
      BY <1>3
    <3>3. CASE rows[signal.id].id \in DOMAIN books[a].open
      <4> HIDE DEF signal
      <4>1. Profit(a, books[a], rows[signal.id]) \in Int
        BY <1>3, <3>2, <3>3, ProfitType
      <4> QED BY <3>1, <3>2, <3>3, <4>1, SettledTyped
    <3>4. CASE rows[signal.id].id \notin DOMAIN books[a].open
      BY <3>1, <3>4
    <3> QED BY <3>3, <3>4
  <2>4. DOMAIN books'[a].open \subseteq DOMAIN books[a].open
    BY <2>3 DEF Without
  <2> QED BY <2>4 DEF Opens
<1>5. signal.action = "open"
  BY <1>3, <1>4 DEF SignalRow
<1>6. Applied = Opened(books, rows[signal.id])
  BY <1>5 DEF Applied
<1> QED BY <1>2, <1>5, <1>6

\* An account with a ladder of its own commits what is free.
LEMMA OthersWithin ==
    ASSUME IInv, [Next]_vars, NEW a \in Accounts, Opens(a), crashes' = crashes, a # Master
    PROVE  Total(books'[a].open) <= Equity(books'[a])
<1> DEFINE row == rows[Head(job.signals).id]
           margin == MarginFor(a, books[a], row)
<1>1. books'[a] = Opened(books, row)[a] /\ pc = "account"
  BY OpensFromSignal
<1>2. row \in Row /\ books \in [Accounts -> Book] /\ books[a] \in Book
  BY <1>1, FirstSignal DEF IInv
<1> HIDE DEF row
<1>3. row.id \notin DOMAIN books[a].open /\ margin > 0
      /\ books'[a] = [books[a] EXCEPT !.open = Put(books[a].open, row.id, margin)]
  <2>1. books'[a] # books[a]
    BY DEF Opens
  <2> QED BY <1>1, <1>2, <2>1, OpenedBook
<1>4. margin \in Int /\ margin <= Free(books[a])
  BY <1>2, MarginType
<1> HIDE DEF margin
<1>5. books'[a].open = Put(books[a].open, row.id, margin)
      /\ books'[a].realized = books[a].realized
  BY <1>2, <1>3 DEF Book
<1>6. /\ Equity(books'[a]) = Equity(books[a]) /\ Equity(books[a]) \in Nat
      /\ Total(books[a].open) \in Int /\ IsFiniteSet(DOMAIN books[a].open)
      /\ \A id \in DOMAIN books[a].open : books[a].open[id] \in Int
  <2>1. books[a].open \in Holdings /\ books[a].realized \in Int
    BY <1>2 DEF Book
  <2>2. \A id \in DOMAIN books[a].open : books[a].open[id] \in Nat \ {0}
    BY <2>1, HoldingsFacts
  <2> QED BY <1>5, <2>1, <2>2, HoldingsFacts, EquityType DEF Equity
<1>7. Total(Put(books[a].open, row.id, margin)) = Total(books[a].open) + margin
  BY <1>3, <1>4, <1>6, TotalPut
<1>8. margin <= Equity(books[a]) - Total(books[a].open)
  BY <1>3, <1>4, <1>6 DEF Free, AtLeast0
<1> QED BY <1>4, <1>5, <1>6, <1>7, <1>8

\* The account of the strategy commits what the strategy has sized within its own.
LEMMA MasterWithin ==
    ASSUME IInv, CopyInv, [Next]_vars, Opens(Master), crashes' = crashes, errors = 0
    PROVE  Total(books'[Master].open) <= Equity(books'[Master])
<1> DEFINE a == Head(job.signals).id
           g == Applied[Master].open
<1>1. pc = "account" /\ Head(job.signals).action = "open"
      /\ books'[Master] = Opened(books, rows[a])[Master]
  BY OpensFromSignal, AccountAssumption
<1>2. books'[Master] = Applied[Master]
  BY <1>1 DEF Applied
<1>3. Waiting("open") = {a} /\ Applied[Master].realized = gained
  BY <1>1, MasterCommits
<1>4. MarginHeld <= AtLeast0(Initial + gained)
  BY <1>3 DEF CopyInv, SizedWithin
<1>5. /\ DOMAIN g = HeldIds
      /\ \A s \in DOMAIN positions : g[positions[s].id] = positions[s].margin
  BY <1>1, MasterCommitted
<1>6. g = [id \in HeldIds |-> g[id]]
  <2>1. Applied[Master] \in Book
    BY <1>1, AppliedTyped, AccountAssumption
  <2>2. g \in Holdings
    BY <2>1 DEF Book
  <2> HIDE DEF g
  <2> QED BY <1>5, <2>2, HoldingsFacts
<1>7. MarginHeld = Total(g)
  <2> DEFINE S == DOMAIN positions
             f == [s \in S |-> positions[s].margin]
             name == [s \in S |-> positions[s].id]
  <2>1. IsFiniteSet(S)
    BY MonitorAssumption, FS_Subset DEF IInv, TypeOK
  <2>2. \A s \in S : f[s] \in Int
    BY RowTypes DEF IInv, TypeOK
  <2>3. \A s, t \in S : s # t => name[s] # name[t]
    <3>1. \A s \in S : positions[s].id[1] = s
      BY DEF IInv, TypeOK
    <3> QED BY <3>1
  <2>4. \A s \in S : g[name[s]] = f[s]
    BY <1>5
  <2>5. {name[s] : s \in S} = HeldIds
    BY DEF HeldIds
  <2>6. [s \in S |-> f[s]] = [s \in DOMAIN positions |-> positions[s].margin]
    OBVIOUS
  <2> HIDE DEF f, name, g, S
  <2>7. Total([s \in S |-> f[s]]) = Total([n \in {name[s] : s \in S} |-> g[n]])
    BY <2>1, <2>2, <2>3, <2>4, TotalRenamed
  <2>8. Total([s \in S |-> f[s]]) = Total(g)
    BY <1>6, <2>5, <2>7
  <2> QED BY <2>6, <2>8 DEF MarginHeld
<1> QED BY <1>2, <1>3, <1>4, <1>7 DEF Equity

(* An account that opens a position has not committed more than its realized
   equity, at any moment of any run without a failed commit for the account of
   the strategy, and always for the others. *)
THEOREM CommittedWithinEquity == Spec => WithinEquity
<1>1. ASSUME IInv, CopyInv, [Next]_vars
      PROVE  \A a \in Accounts :
               Opens(a) /\ crashes' = crashes /\ (a = Master => errors = 0)
                 => Total(books'[a].open) <= Equity(books'[a])
  BY <1>1, OthersWithin, MasterWithin
<1>2. IInv /\ CopyInv /\ [Next]_vars =>
        [\A a \in Accounts :
           Opens(a) /\ crashes' = crashes /\ (a = Master => errors = 0)
             => Total(books'[a].open) <= Equity(books'[a])]_vars
  BY <1>1
<1> QED BY <1>2, CopyInvariant, PTL DEF Spec, WithinEquity
=============================================================================
