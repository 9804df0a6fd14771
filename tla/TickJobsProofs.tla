---------------------------- MODULE TickJobsProofs ----------------------------
(***************************************************************************)
(* Theorems about TickJobs, for any providers, environments, intervals,    *)
(* sources and strategies, any fold sizes, cutoff and history, and any     *)
(* number of restarts.                                                     *)
(***************************************************************************)
EXTENDS TickJobs, FiniteSetTheorems, FunctionTheorems, WellFoundedInduction, TLAPS

------------------------------------------------------------------------------
(* Folds *)

\* The candles of a run: one after the other.
Consecutive(times) ==
    /\ times \in Seq(Int)
    /\ \A i \in 1 .. Len(times) : times[i] = times[1] + i - 1

Fold(k) == [trainLo |-> k * Test, testLo |-> k * Test + Train, testHi |-> k * Test + Train + Test]

\* Where the test window of a fold begins lies behind where it ended in the fold before.
LEMMA Multiples ==
    ASSUME NEW j \in Nat, NEW k \in Nat
    PROVE  /\ Test \in Nat \ {0} /\ Train \in Nat \ {0} /\ k * Test \in Nat /\ k <= k * Test
           /\ (k + 1) * Test = k * Test + Test
           /\ j < k => j * Test + Test <= k * Test
           /\ j <= k => j * Test <= k * Test
<1>1. Test \in Nat \ {0} /\ Train \in Nat \ {0}
    BY BacktestAssumption
<1>2. ASSUME NEW d \in Nat PROVE d * Test \in Nat /\ d <= d * Test
    <2>1. d * Test = d + d * (Test - 1) /\ Test - 1 \in Nat
        BY <1>1
    <2>2. d * (Test - 1) \in Nat
        BY <2>1
    <2> QED BY <2>1, <2>2
<1>3. (k + 1) * Test = k * Test + Test
    BY <1>1
<1>4. ASSUME j < k PROVE j * Test + Test <= k * Test
    <2>1. PICK d \in Nat : d = k - j - 1
        BY <1>4
    <2>2. k = (j + 1) + d
        BY <2>1
    <2>3. ((j + 1) + d) * Test = j * Test + Test + d * Test
        BY <1>1
    <2> QED BY <1>1, <1>2, <2>2, <2>3
<1> QED BY <1>1, <1>2, <1>3, <1>4

\* The folds are numbered from 0, and after the last one no other fits.
LEMMA FoldsFit ==
    ASSUME NEW n \in Nat
    PROVE  \E m \in Nat :
               /\ {k \in 0 .. n : k * Test + Train + Test <= n} = 0 .. m - 1
               /\ n - Train - m * Test < Test
               /\ m > 0 => m * Test + Train <= n
<1>1. Test \in Nat \ {0} /\ Train \in Nat \ {0}
    BY BacktestAssumption
<1> DEFINE Beyond == {k \in Nat : n < k * Test + Train + Test}
<1>2. n + 1 \in Beyond
    BY <1>1, Multiples
<1>3. PICK m \in Beyond : \A y \in Beyond : <<y, m>> \notin OpToRel(<, Nat)
    <2>1. Beyond \subseteq Nat
        OBVIOUS
    <2> HIDE DEF Beyond
    <2> QED BY <1>2, <2>1, NatLessThanWellFounded, WFMin
<1>4. m \in Nat /\ m * Test \in Nat /\ n < m * Test + Train + Test
    BY Multiples
<1>5. ASSUME NEW k \in Nat, k < m PROVE k * Test + Train + Test <= n
    <2>1. <<k, m>> \in OpToRel(<, Nat)
        BY <1>4, <1>5, Zenon DEF OpToRel
    <2>2. k \notin Beyond
        BY <1>3, <2>1
    <2> QED BY <2>2, <1>1, Multiples
<1>6. ASSUME NEW k \in Nat, ~(k < m) PROVE ~(k * Test + Train + Test <= n)
    <2>1. m \in Nat /\ m <= k
        BY <1>4, <1>6
    <2>2. m * Test <= k * Test /\ k * Test \in Nat
        BY <2>1, Multiples
    <2> QED BY <2>2, <1>1, <1>4
<1>7. \A k \in Nat : k < m => k \in 0 .. n
    <2> SUFFICES ASSUME NEW k \in Nat, k < m PROVE k <= n
        OBVIOUS
    <2>1. k <= k * Test /\ k * Test \in Nat /\ k * Test + Train + Test <= n
        BY <1>5, Multiples
    <2> QED BY <2>1, <1>1
<1>8. {k \in 0 .. n : k * Test + Train + Test <= n} = 0 .. m - 1
    <2>1. ASSUME NEW k \in 0 .. n PROVE k \in Nat /\ (k * Test + Train + Test <= n <=> k \in 0 .. m - 1)
        <3>1. CASE k < m
            BY <3>1, <1>4, <1>5
        <3>2. CASE ~(k < m)
            BY <3>2, <1>4, <1>6
        <3> QED BY <3>1, <3>2
    <2>2. \A k \in 0 .. m - 1 : k \in Nat /\ k < m
        BY <1>4
    <2> QED BY <2>1, <2>2, <1>7
<1>9. ASSUME m > 0 PROVE m * Test + Train <= n
    <2>1. PICK p \in Nat : p = m - 1
        BY <1>4, <1>9
    <2>2. p * Test + Train + Test <= n /\ p + 1 = m
        BY <2>1, <1>4, <1>5
    <2>3. m * Test = p * Test + Test /\ p * Test \in Nat
        BY <2>2, Multiples
    <2> QED BY <2>2, <2>3, <1>1
<1> QED BY <1>4, <1>8, <1>9, <1>1

\* The candles a fold is tested on, by their positions.
LEMMA SeenByFold ==
    ASSUME NEW k \in Nat, NEW times
    PROVE  /\ Fold(k).testLo = k * Test + Train /\ Fold(k).testHi = k * Test + Train + Test
           /\ Seen(Fold(k), times) =
                  {times[i] : i \in k * Test + Train + 1 .. k * Test + Train + Test}
BY DEF Fold, Seen

\* Every position from the first test window to the end of the last lies in one of them.
LEMMA WindowsCover ==
    ASSUME NEW m \in Nat, NEW i \in Int, Train < i, i <= Train + m * Test
    PROVE  \E k \in 0 .. m - 1 : k * Test + Train < i /\ i <= k * Test + Train + Test
<1>1. Test \in Nat \ {0} /\ Train \in Nat \ {0}
    BY BacktestAssumption
<1> DEFINE Upto == {k \in Nat : i <= k * Test + Train + Test}
<1>2. m \in Upto
    BY <1>1, Multiples
<1>3. PICK k \in Upto : \A y \in Upto : <<y, k>> \notin OpToRel(<, Nat)
    <2>1. Upto \subseteq Nat
        OBVIOUS
    <2> HIDE DEF Upto
    <2> QED BY <1>2, <2>1, NatLessThanWellFounded, WFMin
<1>4. k \in Nat /\ k * Test \in Nat /\ i <= k * Test + Train + Test
    BY Multiples
<1>5. k * Test + Train < i
    <2>1. CASE k = 0
        BY <2>1, <1>1
    <2>2. CASE k # 0
        <3>1. PICK p \in Nat : p = k - 1
            BY <2>2, <1>4
        <3>2. p < k /\ p + 1 = k
            BY <3>1, <1>4
        <3>3. <<p, k>> \in OpToRel(<, Nat)
            BY <3>2, <1>4, Zenon DEF OpToRel
        <3>4. p \notin Upto
            BY <1>3, <3>3
        <3>5. ~(i <= p * Test + Train + Test) /\ k * Test = p * Test + Test /\ p * Test \in Nat
            BY <3>2, <3>4, Multiples
        <3> QED BY <3>5, <1>1
    <2> QED BY <2>1, <2>2
<1>6. k < m
    <2> SUFFICES ASSUME ~(k < m) PROVE FALSE
        OBVIOUS
    <2>1. m * Test <= k * Test /\ m * Test \in Nat
        BY <1>4, Multiples
    <2> QED BY <2>1, <1>1, <1>4, <1>5
<1> QED BY <1>4, <1>5, <1>6

\* What a walk over consecutive candles records: folds that share no candle, none of them
\* in the first train slice, as many as fit; the trusted ones later than the cutoff.
LEMMA WalkSound ==
    ASSUME NEW times, Consecutive(times), NEW r, r = WalkForward(times)
    PROVE  /\ \A x, y \in r.oos : x = y \/ x \cap y = {}
           /\ Cardinality(r.oos) = r.folds
           /\ \A i \in 1 .. Train : i <= Len(times) => times[i] \notin UNION r.oos
           /\ Len(times) - Train - Cardinality(UNION r.oos) < Test
           /\ \A t \in UNION r.trusted : t >= Cutoff
<1> DEFINE n == Len(times)
<1>1. n \in Nat /\ Test \in Nat \ {0} /\ Train \in Nat \ {0} /\ Cutoff \in Int
    BY BacktestAssumption DEF Consecutive
<1>2. PICK a \in Int : \A i \in 1 .. n : times[i] = a + i - 1
    <2>1. CASE n = 0
        BY <2>1
    <2>2. CASE n # 0
        <3>1. times[1] \in Int
            BY <2>2, <1>1 DEF Consecutive
        <3> QED BY <3>1 DEF Consecutive
    <2> QED BY <2>1, <2>2
<1>3. PICK m \in Nat :
          /\ {k \in 0 .. n : k * Test + Train + Test <= n} = 0 .. m - 1
          /\ n - Train - m * Test < Test
          /\ m > 0 => m * Test + Train <= n
    BY <1>1, FoldsFit
<1> DEFINE folds == {Fold(k) : k \in 0 .. m - 1}
<1>4. /\ r.oos = {Seen(f, times) : f \in folds}
      /\ r.folds = Cardinality(folds)
      /\ r.trusted = {Seen(f, times) : f \in {g \in folds : PostCutoff(g, times)}}
    <2>1. FoldBounds(n, Train, Test, Step) = folds
        BY <1>3 DEF FoldBounds, Fold, Step
    <2> QED BY <2>1 DEF WalkForward
<1> DEFINE Window(k) == k * Test + Train + 1 .. k * Test + Train + Test
<1> DEFINE At(k) == {times[i] : i \in Window(k)}
<1> HIDE DEF At, Window
<1>5. ASSUME NEW k \in 0 .. m - 1
      PROVE  /\ k \in Nat /\ k * Test \in Nat /\ Seen(Fold(k), times) = At(k)
             /\ k * Test + Train + Test <= n
             /\ k * Test + Train + Test <= m * Test + Train
             /\ Window(k) \subseteq 1 .. n
    <2>1. k \in Nat /\ k < m
        OBVIOUS
    <2>2. k \in Nat /\ k < m /\ k * Test \in Nat /\ k * Test + Test <= m * Test /\ m * Test \in Nat
        BY <2>1, Multiples
    <2>3. m > 0 /\ m * Test + Train <= n
        BY <2>2, <1>3
    <2>4. k * Test + Train + Test <= m * Test + Train /\ k * Test + Train + Test <= n
        BY <2>2, <2>3, <1>1
    <2>5. Seen(Fold(k), times) = At(k)
        BY <2>2, SeenByFold DEF At, Window
    <2>6. Window(k) \subseteq 1 .. n
        BY <2>2, <2>4, <1>1 DEF Window
    <2> QED BY <2>2, <2>4, <2>5, <2>6
<1>6. r.oos = {At(k) : k \in 0 .. m - 1}
    BY <1>4, <1>5
<1>7. ASSUME NEW j \in 0 .. m - 1, NEW k \in 0 .. m - 1, j < k PROVE At(j) \cap At(k) = {}
    <2> SUFFICES ASSUME NEW u \in Window(j), NEW v \in Window(k), times[u] = times[v] PROVE FALSE
        BY DEF At
    <2>1. j \in Nat /\ k \in Nat
        OBVIOUS
    <2>2. j * Test + Test <= k * Test /\ j * Test \in Nat /\ k * Test \in Nat
        BY <2>1, <1>7, Multiples
    <2>3. u \in 1 .. n /\ v \in 1 .. n
        BY <1>5
    <2>4. u < v /\ u \in 1 .. n /\ v \in 1 .. n
        BY <2>2, <2>3, <1>1 DEF Window
    <2>5. times[u] = a + u - 1 /\ times[v] = a + v - 1
        BY <2>4, <1>2
    <2>6. a + u - 1 = a + v - 1
        BY <2>5
    <2> QED BY <2>4, <2>6
<1>8. ASSUME NEW k \in 0 .. m - 1 PROVE times[k * Test + Train + 1] \in At(k)
    <2>1. k * Test + Train + 1 \in Window(k)
        BY <1>1, <1>5 DEF Window
    <2> QED BY <2>1 DEF At
<1>9. \A x, y \in r.oos : x = y \/ x \cap y = {}
    <2> SUFFICES ASSUME NEW j \in 0 .. m - 1, NEW k \in 0 .. m - 1
                 PROVE  At(j) = At(k) \/ At(j) \cap At(k) = {}
        BY <1>6
    <2>1. j < k \/ j = k \/ k < j
        OBVIOUS
    <2> QED BY <2>1, <1>7
<1>10. Cardinality(r.oos) = r.folds
    <2>1. IsFiniteSet(0 .. m - 1)
        BY FS_Interval
    <2> DEFINE toFold == [k \in 0 .. m - 1 |-> Fold(k)]
               toSeen == [k \in 0 .. m - 1 |-> At(k)]
    <2>2. \A j, k \in 0 .. m - 1 : At(j) = At(k) => j = k
        <3> SUFFICES ASSUME NEW j \in 0 .. m - 1, NEW k \in 0 .. m - 1, At(j) = At(k), j # k
                     PROVE  FALSE
            OBVIOUS
        <3>1. j < k \/ k < j
            OBVIOUS
        <3>2. At(j) \cap At(k) = {}
            BY <3>1, <1>7
        <3> QED BY <3>2, <1>8
    <2>3. \A j, k \in 0 .. m - 1 : Fold(j) = Fold(k) => j = k
        BY <1>5, <2>2
    <2>4. toFold \in Bijection(0 .. m - 1, folds)
        <3>1. toFold \in [0 .. m - 1 -> folds] /\ \A t \in folds : \E s \in 0 .. m - 1 : toFold[s] = t
            OBVIOUS
        <3>2. \A j, k \in 0 .. m - 1 : toFold[j] = toFold[k] => j = k
            BY <2>3
        <3> HIDE DEF toFold, folds
        <3> QED BY <3>1, <3>2, Fun_IsBij
    <2>5. toSeen \in Bijection(0 .. m - 1, r.oos)
        <3>1. toSeen \in [0 .. m - 1 -> r.oos] /\ \A t \in r.oos : \E s \in 0 .. m - 1 : toSeen[s] = t
            BY <1>6
        <3>2. \A j, k \in 0 .. m - 1 : toSeen[j] = toSeen[k] => j = k
            BY <2>2
        <3> HIDE DEF toSeen
        <3> QED BY <3>1, <3>2, Fun_IsBij
    <2>6. ExistsBijection(0 .. m - 1, folds) /\ ExistsBijection(0 .. m - 1, r.oos)
        BY <2>4, <2>5, Fun_ExistsBij
    <2>7. /\ Cardinality(folds) = Cardinality(0 .. m - 1)
          /\ Cardinality(r.oos) = Cardinality(0 .. m - 1)
        <3> HIDE DEF folds
        <3> QED BY <2>1, <2>6, FS_Bijection
    <2> QED BY <2>7, <1>4
<1> DEFINE first == a + Train
           final == a + Train + m * Test - 1
<1>11. m * Test \in Nat /\ (m = 0 => m * Test = 0)
    BY <1>1, Multiples
<1>12. ASSUME m > 0 PROVE UNION r.oos = first .. final
    <2>1. m * Test + Train <= n
        BY <1>12, <1>3
    <2>2. ASSUME NEW t \in UNION r.oos PROVE t \in first .. final
        <3>1. PICK k \in 0 .. m - 1 : t \in At(k)
            BY <1>6
        <3>2. PICK i \in Window(k) : t = times[i]
            BY <3>1 DEF At
        <3>3. k * Test \in Nat /\ k * Test + Train + Test <= m * Test + Train /\ i \in 1 .. n
            BY <1>5
        <3>4. k * Test + Train < i /\ i <= m * Test + Train /\ i \in 1 .. n
            BY <3>3, <1>1, <1>11 DEF Window
        <3>5. t = a + i - 1 /\ i \in Int
            BY <3>2, <3>4, <1>2
        <3> QED BY <3>4, <3>5, <1>1, <1>11
    <2>3. ASSUME NEW t \in first .. final PROVE t \in UNION r.oos
        <3>1. PICK i \in Int : i = t - a + 1
            BY <1>1, <1>11
        <3>2. Train < i /\ i <= Train + m * Test
            BY <3>1, <2>1, <1>1, <1>11
        <3>3. i \in 1 .. n /\ t = a + i - 1
            BY <3>1, <3>2, <2>1, <1>1, <1>11
        <3>4. i \in 1 .. n /\ t = times[i]
            BY <3>3, <1>2
        <3>5. PICK k \in 0 .. m - 1 : k * Test + Train < i /\ i <= k * Test + Train + Test
            BY <3>2, WindowsCover
        <3>6. i \in Window(k)
            BY <3>5, <1>1, <1>5 DEF Window
        <3>7. t \in At(k)
            BY <3>4, <3>6 DEF At
        <3> QED BY <3>7, <1>6
    <2> QED BY <2>2, <2>3
<1>13. Len(times) - Train - Cardinality(UNION r.oos) < Test
    <2>1. CASE m > 0
        <3>1. Cardinality(first .. final) = m * Test
            <4>1. first \in Int /\ final \in Int /\ final - first + 1 = m * Test
                BY <2>1, <1>1, <1>11, <1>12
            <4>2. Cardinality(first .. final) = IF first > final THEN 0 ELSE final - first + 1
                <5> HIDE DEF first, final
                <5> QED BY <4>1, FS_Interval
            <4> QED BY <4>1, <4>2, <1>11
        <3> QED BY <3>1, <2>1, <1>3, <1>12
    <2>2. CASE m = 0
        <3>1. UNION r.oos = {}
            BY <2>2, <1>6
        <3> QED BY <3>1, <2>2, <1>1, <1>3, <1>11, FS_EmptySet
    <2> QED BY <2>1, <2>2
<1>14. \A i \in 1 .. Train : i <= Len(times) => times[i] \notin UNION r.oos
    <2> SUFFICES ASSUME NEW i \in 1 .. Train, i <= n, NEW k \in 0 .. m - 1, times[i] \in At(k)
                 PROVE  FALSE
        BY <1>6
    <2>1. PICK j \in Window(k) : times[i] = times[j]
        BY DEF At
    <2>2. Train < j /\ j \in 1 .. n /\ i \in 1 .. n
        BY <1>1, <1>5 DEF Window
    <2>3. times[i] = a + i - 1 /\ times[j] = a + j - 1
        BY <2>2, <1>2
    <2>4. a + i - 1 = a + j - 1
        BY <2>1, <2>3
    <2> QED BY <2>2, <2>4, <1>1
<1>15. \A t \in UNION r.trusted : t >= Cutoff
    <2> SUFFICES ASSUME NEW k \in 0 .. m - 1, PostCutoff(Fold(k), times), NEW t \in Seen(Fold(k), times)
                 PROVE  t >= Cutoff
        BY <1>4
    <2>1. PICK i \in Window(k) : t = times[i]
        BY <1>5 DEF At
    <2>2. times[k * Test + Train + 1] >= Cutoff
        BY <1>5, SeenByFold DEF PostCutoff
    <2>3. k * Test + Train + 1 <= i /\ i \in 1 .. n /\ k * Test + Train + 1 \in 1 .. n
        BY <1>1, <1>5 DEF Window
    <2>4. /\ times[i] = a + i - 1
          /\ times[k * Test + Train + 1] = a + (k * Test + Train + 1) - 1
        BY <2>3, <1>2
    <2> QED BY <2>1, <2>2, <2>3, <2>4, <1>1, <1>5
<1> QED BY <1>9, <1>10, <1>13, <1>14, <1>15

------------------------------------------------------------------------------
(* The backtest job *)

Listed(s) == {s[i] : i \in DOMAIN s}

\* The rows are of the candles at hand, and with those that raised and those still to come
\* of every strategy.
JobsInv ==
    /\ now \in Nat /\ stamped \in Nat \cup {NeverRun} /\ todo \in Seq(STRING)
    /\ Consecutive(candles)
    /\ \A r \in rows : r.result = WalkForward(candles)
    /\ stamped # NeverRun =>
           Listed(Backtested) = {r.strategy : r \in rows} \cup raised \cup Listed(todo)

\* What the ledger holds has no gap.
LEMMA StoredConsecutive ==
    ASSUME NEW clock \in Nat, Stored(clock) # <<>>
    PROVE  Consecutive(Stored(clock))
<1> DEFINE first == IF clock - Days > EarliestCandle THEN clock - Days ELSE EarliestCandle
<1>1. PICK f \in Int : f = first
    <2>1. Days \in Nat /\ EarliestCandle \in Int
        BY BacktestAssumption
    <2>2. first \in Int
        BY <2>1
    <2> QED BY <2>2
<1>2. PICK n \in Int : n = clock - f + 1
    OBVIOUS
<1>3. Stored(clock) = [i \in 1 .. n |-> f + i - 1]
    BY <1>1, <1>2 DEF Stored
<1>4. n > 0
    <2> SUFFICES ASSUME ~(n > 0) PROVE FALSE
        OBVIOUS
    <2>1. 1 .. n = {}
        BY <1>2
    <2> QED BY <2>1, <1>3
<1>5. Stored(clock) \in Seq(Int) /\ Len(Stored(clock)) = n
    <2>1. n \in Nat /\ \A i \in 1 .. n : f + i - 1 \in Int
        BY <1>1, <1>4
    <2>2. [i \in 1 .. n |-> f + i - 1] \in Seq(Int) /\ Len([i \in 1 .. n |-> f + i - 1]) = n
        BY <2>1
    <2> QED BY <2>2, <1>3
<1>6. ASSUME NEW i \in 1 .. n PROVE Stored(clock)[i] = Stored(clock)[1] + i - 1
    <2>1. Stored(clock)[i] = f + i - 1 /\ Stored(clock)[1] = f + 1 - 1
        BY <1>3, <1>4
    <2> QED BY <2>1, <1>1
<1> QED BY <1>5, <1>6 DEF Consecutive

\* The first of a list and the rest of it.
LEMMA ListedTail ==
    ASSUME NEW s \in Seq(STRING), s # <<>>
    PROVE  Tail(s) \in Seq(STRING) /\ Listed(s) = {Head(s)} \cup Listed(Tail(s))
<1>1. Len(s) \in Nat /\ Len(s) > 0 /\ DOMAIN s = 1 .. Len(s) /\ Head(s) = s[1]
    OBVIOUS
<1>2. /\ Tail(s) \in Seq(STRING) /\ Len(Tail(s)) = Len(s) - 1
      /\ \A i \in 1 .. Len(s) - 1 : Tail(s)[i] = s[i + 1]
    OBVIOUS
<1>3. DOMAIN Tail(s) = 1 .. Len(s) - 1
    BY <1>2
<1>4. ASSUME NEW i \in 1 .. Len(s) PROVE s[i] \in {Head(s)} \cup Listed(Tail(s))
    <2>1. CASE i = 1
        BY <2>1, <1>1
    <2>2. CASE i # 1
        <3>1. PICK j \in 1 .. Len(s) - 1 : i = j + 1
            <4>1. i - 1 \in 1 .. Len(s) - 1 /\ i = (i - 1) + 1
                BY <2>2, <1>1
            <4> QED BY <4>1
        <3> QED BY <3>1, <1>2, <1>3 DEF Listed
    <2> QED BY <2>1, <2>2
<1>5. ASSUME NEW j \in 1 .. Len(s) - 1 PROVE Tail(s)[j] \in Listed(s)
    <2>1. j + 1 \in DOMAIN s
        BY <1>1
    <2> QED BY <2>1, <1>2 DEF Listed
<1>6. Head(s) \in Listed(s)
    BY <1>1 DEF Listed
<1> QED BY <1>1, <1>2, <1>3, <1>4, <1>5, <1>6 DEF Listed

\* A run starts with fresh candles and no rows, or not at all.
LEMMA JobsStart ==
    ASSUME JobsInv, NEW read \in BOOLEAN, StartJob(now, read), now' = now
    PROVE  JobsInv'
<1>1. CASE read /\ Stored(now) # <<>>
    <2>1. stamped' = now /\ todo' = Backtested /\ candles' = Stored(now) /\ rows' = {} /\ raised' = {}
        BY <1>1 DEF StartJob
    <2>2. Consecutive(Stored(now))
        BY <1>1, StoredConsecutive DEF JobsInv
    <2> QED BY <2>1, <2>2, BacktestAssumption DEF JobsInv
<1>2. CASE ~(read /\ Stored(now) # <<>>)
    BY <1>2 DEF StartJob, JobsInv, jobVars
<1> QED BY <1>1, <1>2

\* One strategy less, one row or one failure more.
LEMMA JobsGoOn ==
    ASSUME JobsInv, Evaluated \/ Raised, now' = now
    PROVE  JobsInv'
<1>1. todo # <<>> /\ todo' = Tail(todo) /\ UNCHANGED <<stamped, candles>>
    BY DEF Evaluated, Raised
<1>2. Tail(todo) \in Seq(STRING) /\ Listed(todo) = {Head(todo)} \cup Listed(Tail(todo))
    BY <1>1, ListedTail DEF JobsInv
<1>3. CASE Evaluated
    <2> DEFINE row == [strategy |-> Head(todo), ts |-> stamped, result |-> WalkForward(candles)]
    <2>1. rows' = rows \cup {row} /\ raised' = raised
        BY <1>3 DEF Evaluated
    <2>2. row.result = WalkForward(candles) /\ row.strategy = Head(todo)
        OBVIOUS
    <2> HIDE DEF row
    <2>3. {r.strategy : r \in rows'} = {r.strategy : r \in rows} \cup {Head(todo)}
        BY <2>1, <2>2
    <2> QED BY <1>1, <1>2, <2>1, <2>2, <2>3 DEF JobsInv
<1>4. CASE Raised
    BY <1>1, <1>2, <1>4 DEF Raised, JobsInv
<1> QED BY <1>3, <1>4

LEMMA JobsStep == JobsInv /\ [Next]_vars => JobsInv'
<1> SUFFICES ASSUME JobsInv, [Next]_vars PROVE JobsInv'
    OBVIOUS
<1>1. CASE UNCHANGED <<now, jobVars>>
    BY <1>1 DEF JobsInv, jobVars
<1>2. CASE Tick \/ Hold \/ Ask \/ Reply \/ JobNotDue \/ Approve \/ UNCHANGED vars
    BY <1>1, <1>2 DEF Tick, Hold, Ask, Reply, JobNotDue, Approve, vars
<1>3. CASE JobStarts
    BY <1>3, JobsStart DEF JobStarts
<1>4. CASE JobGoesOn
    BY <1>4, JobsGoOn DEF JobGoesOn
<1>5. CASE Passes
    BY <1>5 DEF Passes, JobsInv, jobVars
<1>6. CASE Restart
    <2>1. JobLost /\ now' = now
        BY <1>6 DEF Restart
    <2> QED BY <2>1 DEF JobLost, JobsInv
<1> QED BY <1>2, <1>3, <1>4, <1>5, <1>6 DEF Next

\* What the job has recorded can be believed, whatever the ledger held, however the clock
\* went on and whenever the process died (backtest_job.py:45-84, walkforward.py:28-42).
THEOREM EvidenceStaysSound == Spec => []EvidenceSound
<1>1. Init => JobsInv
    <2> SUFFICES ASSUME Init PROVE JobsInv
        OBVIOUS
    <2>1. /\ now = 0 /\ stamped = NeverRun /\ todo = <<>> /\ candles = <<>> /\ rows = {}
        BY DEF Init, ConsultInit, JobInit
    <2> QED BY <2>1 DEF JobsInv, Consecutive
<1>2. JobsInv => EvidenceSound
    <2> SUFFICES ASSUME JobsInv PROVE EvidenceSound
        OBVIOUS
    <2>1. EvidenceComplete
        <3>1. todo = <<>> => Listed(todo) = {}
            BY DEF Listed
        <3> QED BY <3>1 DEF JobsInv, EvidenceComplete, Listed
    <2>2. ASSUME NEW r \in rows
          PROVE  LET w == r.result IN
                 /\ \A a, b \in w.oos : a = b \/ a \cap b = {}
                 /\ Cardinality(w.oos) = w.folds
                 /\ \A i \in 1 .. Train : i <= Len(candles) => candles[i] \notin UNION w.oos
                 /\ Len(candles) - Train - Cardinality(UNION w.oos) < Test
                 /\ \A t \in UNION w.trusted : t >= Cutoff
        BY WalkSound DEF JobsInv
    <2>3. EvidenceDisjoint /\ TrustedIsLater
        BY <2>2 DEF EvidenceDisjoint, TrustedIsLater
    <2> QED BY <2>1, <2>3 DEF EvidenceSound
<1> QED BY <1>1, <1>2, JobsStep, PTL DEF Spec

------------------------------------------------------------------------------
(* Who trades *)

\* Every brain with a wallet was approved; a process refused for its arms does nothing.
GateInv ==
    /\ OnlyApprovedTrade
    /\ SelectBroker(env.arms) # "broker" => turn = Down /\ consult = NoConsult

\* Builtins have no need of the whitelist, all others are looked up there.
LEMMA BrainsApproved == \A e : Brains(e) \subseteq Approved(e)
BY DEF Brains, Approved, Discovered

\* A step of an engine that was refused is the clock's, an operator's or the next start.
LEMMA GateStep ==
    GateInv /\ [Next]_vars =>
        /\ GateInv'
        /\ SelectBroker(env'.arms) # "broker" => UNCHANGED <<wallets, cache, decided, rows>>
<1> SUFFICES ASSUME GateInv, [Next]_vars
             PROVE  /\ GateInv'
                    /\ SelectBroker(env'.arms) # "broker" => UNCHANGED <<wallets, cache, decided, rows>>
    OBVIOUS
<1> USE DEF GateInv, OnlyApprovedTrade, consultVars, memory, store, jobVars, tickVars
<1>1. CASE UNCHANGED vars
    BY <1>1 DEF vars
<1>2. CASE Tick
    BY <1>2 DEF Tick, Rest, Down
<1>3. CASE Hold
    BY <1>3 DEF Hold, Asking
<1>4. CASE Ask
    <2>1. turn # Down /\ UNCHANGED <<env, wallets, approved>>
        BY <1>4 DEF Ask, Asking, Prompt
    <2> QED BY <2>1
<1>5. CASE Reply
    <2>1. consult # NoConsult /\ UNCHANGED <<env, wallets, approved>>
        BY <1>5 DEF Reply, Answer, Malformed, Unavailable
    <2> QED BY <2>1
<1>6. CASE JobNotDue \/ JobStarts \/ JobGoesOn
    BY <1>6 DEF JobNotDue, JobStarts, JobGoesOn, Job, Down
<1>7. CASE Passes
    BY <1>7 DEF Passes
<1>8. CASE Approve
    BY <1>8 DEF Approve, Publish
<1>9. CASE Restart
    <2>1. /\ \E e \in Environments : Starts(e)
          /\ consult' = NoConsult /\ UNCHANGED <<cache, decided, rows>>
        BY <1>9 DEF Restart, JobLost
    <2>2. PICK e \in Environments : Starts(e)
        BY <2>1
    <2>3. CASE SelectBroker(e.arms) = "broker"
        BY <2>1, <2>2, <2>3, BrainsApproved DEF Starts, BootBrains
    <2>4. CASE SelectBroker(e.arms) # "broker"
        BY <2>1, <2>2, <2>4 DEF Starts
    <2> QED BY <2>3, <2>4
<1> QED BY <1>1, <1>2, <1>3, <1>4, <1>5, <1>6, <1>7, <1>8, <1>9 DEF Next

\* No start mints a trader nobody approved (ai_traders.py:95), and none with real orders in
\* mind leaves a trace (engine.py:479), in any order of environments.
THEOREM StartsStayGated == Spec => StartsAreGated
<1>1. Init => GateInv
    BY BrainsApproved DEF Init, ConsultInit, GateInv, OnlyApprovedTrade
<1>2. GateInv /\ [Next]_vars =>
          GateInv' /\ [SelectBroker(env'.arms) # "broker" =>
                           UNCHANGED <<wallets, cache, decided, rows>>]_vars
    BY GateStep
<1>3. GateInv => OnlyApprovedTrade
    BY DEF GateInv
<1> QED BY <1>1, <1>2, <1>3, PTL DEF Spec, StartsAreGated, RefusedStartIsInert

------------------------------------------------------------------------------
(* What a decision claims *)

\* The version goes with the rules from the prompt to the row.
ClaimInv ==
    /\ consult # NoConsult => consult.version = consult.rules
    /\ decided = [n \in Names |-> decided[n]]
    /\ ClaimsWhatItSaw

LEMMA ClaimStep == ClaimInv /\ [Next]_vars => ClaimInv'
<1> SUFFICES ASSUME ClaimInv, [Next]_vars PROVE ClaimInv'
    OBVIOUS
<1> USE DEF ClaimInv, ClaimsWhatItSaw
<1>1. CASE UNCHANGED <<consult, decided>>
    BY <1>1
<1>2. CASE Ask
    <2>1. PICK n, answers, locked : Prompt(n, answers, locked)
        BY <1>2 DEF Ask
    <2>2. PICK v : consult' = [brain |-> n, at |-> now, version |-> v, rules |-> v,
                            asked |-> Stale]
        BY <2>1 DEF Prompt
    <2>3. decided' = decided
        BY <2>1 DEF Prompt
    <2> QED BY <2>2, <2>3
<1>3. CASE Reply
    <2>1. ASSUME NEW asked, Answer(asked) PROVE ClaimInv'
        <3> DEFINE row == [claimed |-> consult.version, rules |-> consult.rules]
        <3>1. consult' = NoConsult /\ decided' = [decided EXCEPT ![consult.brain] = row]
            BY <2>1 DEF Answer, Claimed
        <3>2. row.claimed = row.rules
            BY <2>1 DEF Answer
        <3> HIDE DEF row
        <3>3. \A n \in Names : decided'[n] = row \/ decided'[n] = decided[n]
            BY <3>1
        <3>4. decided' = [n \in Names |-> decided'[n]]
            BY <3>1
        <3> QED BY <3>1, <3>2, <3>3, <3>4
    <2>2. (\E asked : Malformed(asked)) \/ Unavailable => consult' = NoConsult /\ decided' = decided
        BY DEF Malformed, Unavailable
    <2> QED BY <1>3, <2>1, <2>2 DEF Reply
<1>4. CASE Tick \/ Hold \/ JobNotDue \/ JobStarts \/ JobGoesOn \/ Passes \/ Approve \/ UNCHANGED vars
    BY <1>1, <1>4 DEF Tick, Hold, JobNotDue, JobStarts, JobGoesOn, Passes, Approve, Publish,
                      vars, consultVars
<1>5. CASE Restart
    BY <1>5 DEF Restart
<1> QED BY <1>2, <1>3, <1>4, <1>5 DEF Next

\* A decision claims the playbook its prompt held, whatever is approved while a model
\* thinks (llm_trader.py:289-301).
THEOREM ClaimsStayHonest == Spec => []ClaimsWhatItSaw
<1>1. Init => ClaimInv
    BY DEF Init, ConsultInit, ClaimInv, ClaimsWhatItSaw
<1>2. ClaimInv => ClaimsWhatItSaw
    BY DEF ClaimInv
<1> QED BY <1>1, <1>2, ClaimStep, PTL DEF Spec

------------------------------------------------------------------------------
(* The cache *)

\* No brain was shown more than the cache holds, nothing is from the future, and an answer
\* that was kept is the row.
CacheInv ==
    /\ now \in Nat
    /\ cache \in [Sources -> [at : Nat \cup {Never}, ts : Int]]
    /\ shown \in [Sources -> Nat \cup {Never}]
    /\ kept \in [Sources -> Nat \cup {Never}]
    /\ \A s \in Sources : shown[s] <= cache[s].at /\ cache[s].at <= now
    /\ \A s \in Sources : kept[s] \in {Never, cache[s].at}

\* What becomes of one source in a consult.
LEMMA SourceStep ==
    ASSUME CacheInv, NEW s \in Sources, NEW n, NEW answers, NEW locked,
           Prompt(n, answers, locked)
    PROVE  /\ cache'[s] \in [at : Nat \cup {Never}, ts : Int]
           /\ shown'[s] \in Nat \cup {Never} /\ kept'[s] \in Nat \cup {Never}
           /\ shown[s] <= shown'[s] /\ shown'[s] <= cache'[s].at /\ cache'[s].at <= now
           /\ kept'[s] \in {Never, cache'[s].at}
<1> DEFINE lost == Stale \cap answers \cap locked
<1>1. /\ now \in Nat /\ cache[s] \in [at : Nat \cup {Never}, ts : Int]
      /\ cache[s].at \in Nat \cup {Never} /\ cache[s].at \in Int
      /\ shown[s] \in Nat \cup {Never} /\ shown[s] \in Int
      /\ kept[s] \in Nat \cup {Never} /\ kept[s] \in {Never, cache[s].at}
      /\ shown[s] <= cache[s].at /\ cache[s].at <= now
    BY DEF CacheInv, Never
<1>2. /\ cache'[s] = IF s \in lost THEN cache[s] ELSE Served(s, answers)
      /\ shown'[s] = IF s \in lost THEN shown[s] ELSE cache'[s].at
      /\ kept'[s] = IF s \in lost THEN Never
                    ELSE IF s \in Stale \cap answers THEN now ELSE kept[s]
    BY DEF Prompt
<1>3. CASE s \in lost
    BY <1>1, <1>2, <1>3
<1>4. CASE s \notin lost /\ s \in Stale \cap answers
    <2>1. ~Fresh(s) /\ s \in answers
        BY <1>4 DEF Stale
    <2>2. cache'[s] = [at |-> now, ts |-> now - Lag]
        BY <1>2, <1>4, <2>1 DEF Served
    <2>3. now - Lag \in Int
        BY <1>1, ConsultAssumption
    <2> QED BY <1>1, <1>2, <1>4, <2>2, <2>3
<1>5. CASE s \notin lost /\ s \notin Stale \cap answers
    <2>1. ~(~Fresh(s) /\ s \in answers)
        BY <1>5 DEF Stale
    <2>2. cache'[s] = cache[s]
        BY <1>2, <1>5, <2>1 DEF Served
    <2> QED BY <1>1, <1>2, <1>5, <2>2
<1> QED BY <1>3, <1>4, <1>5

\* A source without a fresh row has given no answer of late that the row took.
LEMMA AskedGently ==
    ASSUME CacheInv, NEW s \in Stale, kept[s] # Never
    PROVE  now - kept[s] >= MaxAge[s]
<1>1. s \in Sources /\ ~Fresh(s) /\ MaxAge[s] \in Nat
    BY ConsultAssumption DEF Stale
<1>2. kept[s] = cache[s].at /\ cache[s].at \in Nat \cup {Never} /\ now \in Nat
    BY <1>1 DEF CacheInv
<1> QED BY <1>1, <1>2 DEF Fresh, Never

LEMMA CacheStep ==
    CacheInv /\ [Next]_vars =>
        /\ CacheInv'
        /\ \A s \in Sources : shown'[s] >= shown[s]
        /\ consult = NoConsult /\ consult' # NoConsult =>
               \A s \in consult'.asked : kept[s] # Never => now - kept[s] >= MaxAge[s]
<1> DEFINE Gently ==
        consult = NoConsult /\ consult' # NoConsult =>
            \A s \in consult'.asked : kept[s] # Never => now - kept[s] >= MaxAge[s]
           Goal ==
        /\ CacheInv'
        /\ \A s \in Sources : shown'[s] >= shown[s]
        /\ Gently
<1> SUFFICES ASSUME CacheInv, [Next]_vars PROVE Goal
    OBVIOUS
<1>1. \A s \in Sources : shown[s] \in Int /\ shown[s] >= shown[s]
    BY DEF CacheInv, Never
<1>2. CASE /\ UNCHANGED <<cache, shown, kept>> /\ (now' = now \/ now' = now + 1)
           /\ consult' \in {consult, NoConsult}
    <2>1. \A s \in Sources : cache[s].at \in Int
        BY DEF CacheInv, Never
    <2>2. CacheInv'
        BY <1>2, <2>1 DEF CacheInv
    <2>3. Gently
        BY <1>2
    <2> QED BY <1>1, <1>2, <2>2, <2>3
<1>3. CASE Ask
    <2>1. PICK n, answers, locked : Prompt(n, answers, locked) /\ now' = now
        BY <1>3 DEF Ask
    <2>2. \A s \in Sources :
              /\ cache'[s] \in [at : Nat \cup {Never}, ts : Int]
              /\ shown'[s] \in Nat \cup {Never} /\ kept'[s] \in Nat \cup {Never}
              /\ shown[s] <= shown'[s] /\ shown'[s] <= cache'[s].at /\ cache'[s].at <= now
              /\ kept'[s] \in {Never, cache'[s].at}
        BY <2>1, SourceStep
    <2>3. /\ cache' = [s \in Sources |-> cache'[s]] /\ shown' = [s \in Sources |-> shown'[s]]
          /\ kept' = [s \in Sources |-> kept'[s]]
        BY <2>1 DEF Prompt
    <2>4. cache' \in [Sources -> [at : Nat \cup {Never}, ts : Int]]
        BY <2>2, <2>3
    <2>5. shown' \in [Sources -> Nat \cup {Never}] /\ kept' \in [Sources -> Nat \cup {Never}]
        BY <2>2, <2>3
    <2>6. CacheInv'
        BY <2>1, <2>2, <2>4, <2>5 DEF CacheInv
    <2>7. \A s \in Sources : shown'[s] >= shown[s]
        <3> SUFFICES ASSUME NEW s \in Sources PROVE shown'[s] >= shown[s]
            OBVIOUS
        <3>1. shown[s] \in Int /\ shown'[s] \in Int
            BY <1>1, <2>2 DEF Never
        <3> QED BY <2>2, <3>1
    <2>8. consult'.asked = Stale
        BY <2>1 DEF Prompt
    <2>9. Gently
        BY <2>8, AskedGently
    <2> QED BY <2>6, <2>7, <2>9
<1>4. CASE Tick \/ Hold \/ JobNotDue \/ JobStarts \/ JobGoesOn \/ Passes \/ Approve
           \/ UNCHANGED vars
    BY <1>2, <1>4 DEF Tick, Hold, JobNotDue, JobStarts, JobGoesOn, Passes, Approve, Publish,
                      vars, consultVars, store
<1>5. CASE Reply \/ Restart
    BY <1>2, <1>5 DEF Reply, Answer, Malformed, Unavailable, Restart, store
<1> QED BY <1>3, <1>4, <1>5 DEF Next

\* One row per source serves every brain of every process: no reading is followed by an
\* older one, and no source is asked within max_age of its last answer, unless the ledger
\* was too busy to keep that answer (cache.py:18-36).
THEOREM CacheKeepsServing == Spec => CacheServesAll
<1>1. Init => CacheInv
    <2> SUFFICES ASSUME Init PROVE CacheInv
        OBVIOUS
    <2>1. /\ now = 0 /\ cache = [s \in Sources |-> NoRow] /\ shown = [s \in Sources |-> Never]
          /\ kept = shown
        BY DEF Init, ConsultInit
    <2> QED BY <2>1 DEF CacheInv, NoRow, Never
<1>2. CacheInv /\ [Next]_vars =>
          /\ CacheInv'
          /\ [\A s \in Sources : shown'[s] >= shown[s]]_shown
          /\ [consult = NoConsult /\ consult' # NoConsult =>
                 \A s \in consult'.asked : kept[s] # Never => now - kept[s] >= MaxAge[s]]_consult
    BY CacheStep
<1> QED BY <1>1, <1>2, PTL DEF Spec, CacheServesAll, NeverOlderReading, GentleOnSources

------------------------------------------------------------------------------
(* The pace of a brain *)

Floor(n) == Least(MinInterval, Interval(env, n))
Ceiling(n) == Greatest(MinInterval, Interval(env, n))
Consults ==
    [brain : Names, at : Nat, version : Nat, rules : Nat, asked : SUBSET Sources]

\* A brain's stamps lie in the past; a running process's brains wait between floor and
\* interval, and a consult under way was due.
PaceInv ==
    /\ now \in Nat /\ started \in 0 .. now /\ env \in Environments /\ playbook \in Nat
    /\ last \in [Names -> Nat \cup {Never}] /\ tried \in [Names -> Nat \cup {Never}]
    /\ gap \in [Names -> Nat \cup {Never}]
    /\ \A n \in Names : last[n] <= tried[n] /\ tried[n] <= now
    /\ turn # Down => \A n \in Names : Floor(n) <= gap[n] /\ gap[n] <= Ceiling(n)
    /\ consult # NoConsult =>
           /\ consult \in Consults /\ Asking /\ Head(turn) = consult.brain
           /\ started <= consult.at /\ consult.at <= now /\ tried[consult.brain] = consult.at
           /\ last[consult.brain] = Never
                  \/ consult.at - last[consult.brain] >= gap[consult.brain]

InTime(n) == tried[n] # Never /\ started - tried[n] < Greatest(1, Ceiling(n))

\* The tick has been through the first k names.
Been(k) ==
    /\ Len(turn) = Len(Order) - k + 1 /\ turn[Len(turn)] = "job"
    /\ \A i \in 1 .. Len(Order) - k : turn[i] = Roster[k + i]
    /\ \A j \in 1 .. k : Order[j] \in Brains(env) => InTime(Order[j])

Words == Names \cup {NoBrain, "job", "rest", "down"}

TurnInv ==
    /\ turn \in Seq(Words)
    /\ turn \notin {Rest, Down} => \E k \in 0 .. Len(Order) : Been(k)

\* Numbers.
LEMMA Bounds ==
    ASSUME NEW a \in Int, NEW b \in Int
    PROVE  /\ Least(a, b) \in Int /\ Least(a, b) <= a /\ Least(a, b) <= b
           /\ Greatest(a, b) \in Int /\ a <= Greatest(a, b) /\ b <= Greatest(a, b)
           /\ Greatest(a, b) = a \/ Greatest(a, b) = b
           /\ Least(a, b) = a \/ Least(a, b) = b
BY DEF Least, Greatest

LEMMA OrderSeq == Order \in Seq(STRING) /\ Len(Order) \in Nat /\ DOMAIN Order = 1 .. Len(Order)
BY ConsultAssumption

\* The three labels of a tick are words, and differ.
LEMMA LabelSeqs ==
    /\ Job \in Seq(Words) /\ Rest \in Seq(Words) /\ Down \in Seq(Words)
    /\ Job # Rest /\ Job # Down /\ Rest # Down
<1>1. "job" \in Words /\ "rest" \in Words /\ "down" \in Words
    BY DEF Words
<1>2. Job \in Seq(Words) /\ Rest \in Seq(Words) /\ Down \in Seq(Words)
    BY <1>1 DEF Job, Rest, Down
<1>3. Job # Rest /\ Job # Down /\ Rest # Down
    BY DEF Job, Rest, Down
<1> QED BY <1>2, <1>3

LEMMA IntervalNat ==
    ASSUME NEW e \in Environments, NEW n \in Names
    PROVE  Interval(e, n) \in Nat /\ MinInterval \in Nat
<1>1. /\ e.fields \in [Builtin -> Nat \cup {Unset}] /\ e.poll \in [Names -> Nat \cup {Unset}]
      /\ BuiltinPoll \in [Builtin -> Nat] /\ DefaultPoll \in Nat /\ MinInterval \in Nat
    BY ConsultAssumption DEF Environment
<1> QED BY <1>1 DEF Interval

\* What an answer may set is between the floor and the interval.
LEMMA ClampInside ==
    ASSUME NEW asked \in Asks, NEW e \in Environments, NEW n \in Names
    PROVE  /\ Clamp(asked, Interval(e, n)) \in Nat
           /\ Least(MinInterval, Interval(e, n)) <= Clamp(asked, Interval(e, n))
           /\ Clamp(asked, Interval(e, n)) <= Greatest(MinInterval, Interval(e, n))
<1>1. asked \in Nat /\ Interval(e, n) \in Nat /\ MinInterval \in Nat
    BY IntervalNat, ConsultAssumption
<1> QED BY <1>1 DEF Clamp, Least, Greatest

\* Whose turn it is has a brain, or is passed over.
LEMMA WhoseTurn ==
    ASSUME TurnInv, Asking
    PROVE  \E k \in 0 .. Len(Order) :
               /\ Been(k) /\ k + 1 \in 1 .. Len(Order) /\ turn # <<>>
               /\ Head(turn) = IF Order[k + 1] \in Brains(env) THEN Order[k + 1] ELSE NoBrain
               /\ Order[k + 1] \in Names
<1>1. PICK k \in 0 .. Len(Order) : Been(k)
    BY DEF TurnInv, Asking
<1>2. k < Len(Order)
    <2> SUFFICES ASSUME ~(k < Len(Order)) PROVE FALSE
        OBVIOUS
    <2>1. Len(turn) = 1 /\ turn[1] = "job"
        BY <1>1, OrderSeq DEF Been
    <2>2. turn = Job
        BY <2>1 DEF TurnInv, Job
    <2> QED BY <2>2 DEF Asking
<1>3. k + 1 \in 1 .. Len(Order) /\ 1 \in 1 .. Len(Order) - k
    BY <1>2, OrderSeq
<1>4. turn # <<>> /\ Head(turn) = turn[1]
    BY <1>1, <1>2, OrderSeq DEF Been, TurnInv
<1>5. turn[1] = Roster[k + 1]
    BY <1>1, <1>3 DEF Been
<1> QED BY <1>1, <1>3, <1>4, <1>5, OrderSeq DEF Roster, Names

LEMMA HeadBrain ==
    ASSUME TurnInv, Asking, Head(turn) # NoBrain
    PROVE  Head(turn) \in Names
BY WhoseTurn

\* The tick goes on to the next name.
LEMMA TurnMoves ==
    ASSUME TurnInv, Asking, turn' = Tail(turn), UNCHANGED <<env, started, tried>>,
           Head(turn) # NoBrain => InTime(Head(turn))
    PROVE  TurnInv'
<1>1. PICK k \in 0 .. Len(Order) :
          /\ Been(k) /\ k + 1 \in 1 .. Len(Order) /\ turn # <<>>
          /\ Head(turn) = IF Order[k + 1] \in Brains(env) THEN Order[k + 1] ELSE NoBrain
          /\ Order[k + 1] \in Names
    BY WhoseTurn
<1>2. k + 1 \in 0 .. Len(Order) /\ Len(Order) \in Nat
    BY <1>1, OrderSeq
<1>3. /\ turn' \in Seq(Words) /\ Len(turn') = Len(turn) - 1
      /\ \A i \in 1 .. Len(turn) - 1 : turn'[i] = turn[i + 1]
    BY <1>1 DEF TurnInv
<1>4. Len(turn) = Len(Order) - k + 1 /\ turn[Len(turn)] = "job"
    BY <1>1 DEF Been
<1>5. Len(turn') = Len(Order) - (k + 1) + 1 /\ turn'[Len(turn')] = "job"
    BY <1>2, <1>3, <1>4
<1>6. Roster' = Roster
    BY DEF Roster
<1>7. ASSUME NEW i \in 1 .. Len(Order) - (k + 1) PROVE turn'[i] = Roster'[(k + 1) + i]
    <2>1. i \in 1 .. Len(turn) - 1 /\ i + 1 \in 1 .. Len(Order) - k /\ k + (i + 1) = (k + 1) + i
        BY <1>2, <1>4
    <2>2. turn[i + 1] = Roster[k + (i + 1)]
        BY <1>1, <2>1 DEF Been
    <2> QED BY <2>1, <2>2, <1>3, <1>6
<1>8. \A n : InTime(n) => InTime(n)'
    BY DEF InTime, Ceiling
<1>9. ASSUME NEW j \in 1 .. k + 1, Order[j] \in Brains(env) PROVE InTime(Order[j])
    <2>1. CASE j \in 1 .. k
        BY <1>1, <1>9, <2>1 DEF Been
    <2>2. CASE j = k + 1
        BY <1>1, <1>9, <2>2, ConsultAssumption
    <2> QED BY <2>1, <2>2, <1>2
<1>10. Been(k + 1)'
    BY <1>5, <1>7, <1>8, <1>9 DEF Been
<1> QED BY <1>2, <1>3, <1>10 DEF TurnInv

\* Nobody moves; a brain that is asked is asked in this tick.
LEMMA TurnStays ==
    ASSUME TurnInv, PaceInv, UNCHANGED <<env, started, turn>>,
           \A n \in Names : tried'[n] = tried[n] \/ tried'[n] = now
    PROVE  TurnInv'
<1>1. CASE turn \in {Rest, Down}
    BY <1>1 DEF TurnInv
<1>2. CASE turn \notin {Rest, Down}
    <2>1. PICK k \in 0 .. Len(Order) : Been(k)
        BY <1>2 DEF TurnInv
    <2>2. ASSUME NEW n \in Names, InTime(n) PROVE InTime(n)'
        <3>1. Ceiling(n) \in Int /\ Ceiling(n)' = Ceiling(n)
            <4>1. Interval(env, n) \in Int /\ MinInterval \in Int
                BY IntervalNat DEF PaceInv
            <4> QED BY <4>1 DEF Ceiling, Greatest
        <3>2. Greatest(1, Ceiling(n)) \in Int /\ 1 <= Greatest(1, Ceiling(n))
            BY <3>1 DEF Greatest
        <3>3. CASE tried'[n] = tried[n]
            BY <2>2, <3>1, <3>3 DEF InTime
        <3>4. CASE tried'[n] = now
            BY <3>1, <3>2, <3>4 DEF InTime, PaceInv, Never
        <3> QED BY <3>3, <3>4
    <2>3. Roster' = Roster
        BY DEF Roster
    <2>4. \A j \in 1 .. k : Order[j] \in Names
        BY OrderSeq DEF Names
    <2>5. Been(k)'
        BY <2>1, <2>2, <2>3, <2>4 DEF Been
    <2> QED BY <2>5 DEF TurnInv
<1> QED BY <1>1, <1>2

LEMMA BothInit == Init => PaceInv /\ TurnInv
<1> SUFFICES ASSUME Init PROVE PaceInv /\ TurnInv
    OBVIOUS
<1>1. /\ now = 0 /\ started = 0 /\ env \in Environments /\ playbook = 0 /\ consult = NoConsult
      /\ last = [n \in Names |-> Never] /\ tried = last /\ turn = Rest
      /\ gap = [n \in Names |-> Interval(env, n)]
    BY DEF Init, ConsultInit
<1>2. ASSUME NEW n \in Names PROVE gap[n] \in Nat /\ Floor(n) <= gap[n] /\ gap[n] <= Ceiling(n)
    <2>1. gap[n] = Interval(env, n) /\ Interval(env, n) \in Nat /\ MinInterval \in Nat
        BY <1>1, IntervalNat
    <2> QED BY <2>1 DEF Floor, Ceiling, Least, Greatest
<1>3. gap \in [Names -> Nat \cup {Never}]
    <2>1. \A n \in Names : Interval(env, n) \in Nat \cup {Never}
        BY <1>1, IntervalNat
    <2> QED BY <1>1, <2>1
<1>4. last \in [Names -> Nat \cup {Never}] /\ \A n \in Names : last[n] <= 0
    BY <1>1 DEF Never
<1>5. PaceInv
    BY <1>1, <1>2, <1>3, <1>4 DEF PaceInv
<1>6. turn \in Seq(Words)
    BY <1>1, LabelSeqs
<1> QED BY <1>1, <1>5, <1>6 DEF TurnInv

\* A tick begins: all names are ahead.
LEMMA PaceTick == PaceInv /\ TurnInv /\ Tick => PaceInv' /\ TurnInv'
<1> SUFFICES ASSUME PaceInv, TurnInv, Tick PROVE PaceInv' /\ TurnInv'
    OBVIOUS
<1>1. /\ turn = Rest /\ turn' = Append(Roster, "job") /\ started' = now
      /\ UNCHANGED <<now, env, last, gap, tried, playbook, consult>>
    BY DEF Tick, consultVars, memory, store
<1>2. consult = NoConsult /\ turn # Down
    BY <1>1 DEF PaceInv, Asking, Rest, Down
<1>3. \A n : Floor(n)' = Floor(n) /\ Ceiling(n)' = Ceiling(n)
    BY <1>1 DEF Floor, Ceiling
<1>4. PaceInv'
    BY <1>1, <1>2, <1>3 DEF PaceInv
<1>5. Roster \in Seq(Words) /\ Len(Roster) = Len(Order) /\ Roster' = Roster
    <2>1. \A i \in 1 .. Len(Order) : Roster[i] \in Words
        <3> SUFFICES ASSUME NEW i \in 1 .. Len(Order) PROVE Roster[i] \in Words
            OBVIOUS
        <3>1. Order[i] \in Words
            BY OrderSeq DEF Words, Names
        <3>2. NoBrain \in Words
            BY DEF Words
        <3>3. Roster[i] = Order[i] \/ Roster[i] = NoBrain
            BY OrderSeq DEF Roster
        <3> QED BY <3>1, <3>2, <3>3
    <2>2. Roster = [i \in 1 .. Len(Order) |-> Roster[i]]
        BY OrderSeq DEF Roster
    <2> QED BY <1>1, <2>1, <2>2, OrderSeq DEF Roster
<1>6. /\ turn' \in Seq(Words) /\ Len(turn') = Len(Order) + 1 /\ turn'[Len(Order) + 1] = "job"
      /\ \A i \in 1 .. Len(Order) : turn'[i] = Roster[i]
    <2>1. "job" \in Words
        BY DEF Words
    <2>2. PICK r \in Seq(Words) : r = Roster
        BY <1>5
    <2>3. Len(r) = Len(Order) /\ Len(Order) \in Nat /\ turn' = Append(r, "job")
        BY <1>1, <1>5, <2>2, OrderSeq
    <2>4. turn' \in Seq(Words) /\ Len(turn') = Len(Order) + 1
        BY <2>1, <2>2, <2>3
    <2>5. turn'[Len(Order) + 1] = "job" /\ \A i \in 1 .. Len(Order) : turn'[i] = r[i]
        BY <2>1, <2>2, <2>3
    <2> QED BY <2>2, <2>4, <2>5
<1>7. Been(0)'
    BY <1>5, <1>6, OrderSeq DEF Been
<1> QED BY <1>4, <1>6, <1>7, OrderSeq DEF TurnInv

\* A brain that is not due was asked within its ceiling.
LEMMA PaceHold == PaceInv /\ TurnInv /\ Hold => PaceInv' /\ TurnInv'
<1> SUFFICES ASSUME PaceInv, TurnInv, Hold PROVE PaceInv' /\ TurnInv'
    OBVIOUS
<1>1. /\ Asking /\ consult = NoConsult /\ (Head(turn) # NoBrain => ~Due(Head(turn)))
      /\ turn' = Tail(turn)
      /\ UNCHANGED <<now, started, env, last, gap, tried, playbook, consult>>
    BY DEF Hold, consultVars, memory, store
<1>2. ASSUME Head(turn) # NoBrain PROVE InTime(Head(turn))
    <2>1. PICK n \in Names : n = Head(turn)
        BY <1>1, <1>2, HeadBrain
    <2>2. last[n] # Never /\ ~(now - last[n] >= gap[n])
        BY <1>1, <1>2, <2>1 DEF Due
    <2>3. /\ now \in Int /\ started \in Int /\ started <= now
          /\ last[n] \in Nat \cup {Never} /\ tried[n] \in Nat \cup {Never}
          /\ gap[n] \in Int /\ last[n] <= tried[n] /\ gap[n] <= Ceiling(n)
        BY <1>1 DEF PaceInv, Never, Asking
    <2>4. Ceiling(n) \in Int
        <3>1. Interval(env, n) \in Int /\ MinInterval \in Int
            BY IntervalNat DEF PaceInv
        <3> QED BY <3>1 DEF Ceiling, Greatest
    <2>5. Ceiling(n) <= Greatest(1, Ceiling(n)) /\ Greatest(1, Ceiling(n)) \in Int
        BY <2>4 DEF Greatest
    <2> QED BY <2>1, <2>2, <2>3, <2>4, <2>5 DEF InTime, Never
<1>3. TurnInv'
    BY <1>1, <1>2, TurnMoves
<1>4. \A n : Floor(n)' = Floor(n) /\ Ceiling(n)' = Ceiling(n)
    BY <1>1 DEF Floor, Ceiling
<1>5. PaceInv'
    BY <1>1, <1>4 DEF PaceInv, Asking
<1> QED BY <1>3, <1>5

\* A consult: of a brain that is due.
LEMMA PaceAsk == PaceInv /\ TurnInv /\ Ask => PaceInv' /\ TurnInv'
<1> SUFFICES ASSUME PaceInv, TurnInv, Ask PROVE PaceInv' /\ TurnInv'
    OBVIOUS
<1>1. PICK n \in Names : n = Head(turn)
    BY HeadBrain DEF Ask
<1>2. PICK answers, locked : Prompt(n, answers, locked)
    BY <1>1 DEF Ask
<1>3. PICK v \in Nat : v = IF usable THEN playbook ELSE 0
    BY DEF PaceInv
<1>4. /\ Asking /\ Due(n) /\ consult' = [brain |-> n, at |-> now, version |-> v, rules |-> v,
                            asked |-> Stale]
      /\ tried' = [tried EXCEPT ![n] = now]
      /\ UNCHANGED <<now, started, turn, env, last, gap, playbook>>
    BY <1>1, <1>2, <1>3 DEF Ask, Prompt, tickVars
<1>5. \A m \in Names : tried'[m] = tried[m] \/ tried'[m] = now
    BY <1>4 DEF PaceInv
<1>6. TurnInv'
    BY <1>4, <1>5, TurnStays
<1>7. /\ now \in Nat /\ started <= now /\ started \in Int /\ last[n] \in Nat \cup {Never}
      /\ tried \in [Names -> Nat \cup {Never}] /\ tried[n] <= now /\ last[n] <= tried[n]
      /\ tried[n] \in Nat \cup {Never}
    BY DEF PaceInv
<1>8. /\ consult' \in Consults /\ consult'.brain = n /\ consult'.at = now
      /\ tried'[n] = now /\ tried' \in [Names -> Nat \cup {Never}]
      /\ last'[n] = Never \/ now - last'[n] >= gap'[n]
    BY <1>4, <1>7 DEF Consults, Due, Stale
<1>9. \A m \in Names : last'[m] <= tried'[m] /\ tried'[m] <= now
    <2> SUFFICES ASSUME NEW m \in Names PROVE last[m] <= tried'[m] /\ tried'[m] <= now
        BY <1>4
    <2>1. CASE m = n
        BY <2>1, <1>7, <1>8 DEF Never
    <2>2. CASE m # n
        BY <2>2, <1>4, <1>7 DEF PaceInv
    <2> QED BY <2>1, <2>2
<1>10. \A m : Floor(m)' = Floor(m) /\ Ceiling(m)' = Ceiling(m)
    BY <1>4 DEF Floor, Ceiling
<1>11. PaceInv'
    BY <1>1, <1>4, <1>7, <1>8, <1>9, <1>10 DEF PaceInv, Asking
<1> QED BY <1>6, <1>11

\* What an answer does to a brain's pace, whole, malformed or none.
LEMMA PaceReply == PaceInv /\ TurnInv /\ Reply => PaceInv' /\ TurnInv'
<1> SUFFICES ASSUME PaceInv, TurnInv, Reply PROVE PaceInv' /\ TurnInv'
    OBVIOUS
<1>1. PICK b \in Names, t \in Nat : b = consult.brain /\ t = consult.at
    BY DEF Reply, Answer, Malformed, Unavailable, PaceInv, Consults
<1>2. /\ consult # NoConsult /\ Asking /\ Head(turn) = b /\ started <= t /\ t <= now
      /\ tried[b] = t /\ started \in Int /\ now \in Nat
      /\ \A n \in Names : /\ last[n] \in Nat \cup {Never} /\ gap[n] \in Nat \cup {Never}
                          /\ last[n] <= tried[n] /\ tried[n] <= now
                          /\ Floor(n) <= gap[n] /\ gap[n] <= Ceiling(n)
    BY <1>1 DEF Reply, Answer, Malformed, Unavailable, PaceInv, Asking
<1>3. /\ consult' = NoConsult /\ turn' = Tail(turn)
      /\ UNCHANGED <<now, started, env, tried, playbook>>
    BY DEF Reply, Answer, Malformed, Unavailable, store, memory
<1>4. last' = last \/ last' = [last EXCEPT ![b] = t]
    BY <1>1 DEF Reply, Answer, Malformed, Unavailable, Stamp, memory
<1>5. gap' = gap \/ \E asked \in Asks : gap' = [gap EXCEPT ![b] = Clamp(asked, Interval(env, b))]
    BY <1>1 DEF Reply, Answer, Malformed, Unavailable, memory
<1>6. \A n : Floor(n)' = Floor(n) /\ Ceiling(n)' = Ceiling(n)
    BY <1>3 DEF Floor, Ceiling
<1>7. /\ gap' \in [Names -> Nat \cup {Never}]
      /\ \A n \in Names : Floor(n) <= gap'[n] /\ gap'[n] <= Ceiling(n)
    <2>1. CASE gap' = gap
        BY <2>1, <1>2 DEF PaceInv
    <2>2. ASSUME NEW asked \in Asks, gap' = [gap EXCEPT ![b] = Clamp(asked, Interval(env, b))]
          PROVE  /\ gap' \in [Names -> Nat \cup {Never}]
                 /\ \A n \in Names : Floor(n) <= gap'[n] /\ gap'[n] <= Ceiling(n)
        <3>1. PICK c \in Nat : c = Clamp(asked, Interval(env, b)) /\ Floor(b) <= c /\ c <= Ceiling(b)
            BY ClampInside DEF Floor, Ceiling, PaceInv
        <3>2. gap' = [gap EXCEPT ![b] = c]
            BY <2>2, <3>1
        <3> QED BY <3>1, <3>2, <1>2 DEF PaceInv
    <2> QED BY <2>1, <2>2, <1>5
<1>8. /\ last' \in [Names -> Nat \cup {Never}]
      /\ \A n \in Names : last'[n] <= tried[n]
    BY <1>2, <1>4 DEF PaceInv
<1>9. PaceInv'
    BY <1>2, <1>3, <1>6, <1>7, <1>8 DEF PaceInv
<1>10. InTime(b)
    <2>1. Ceiling(b) \in Int
        <3>1. Interval(env, b) \in Int /\ MinInterval \in Int
            BY IntervalNat DEF PaceInv
        <3> QED BY <3>1 DEF Ceiling, Greatest
    <2>2. 1 <= Greatest(1, Ceiling(b)) /\ Greatest(1, Ceiling(b)) \in Int
        BY <2>1 DEF Greatest
    <2> QED BY <2>2, <1>2 DEF InTime, Never
<1>11. TurnInv'
    BY <1>2, <1>3, <1>10, TurnMoves
<1> QED BY <1>9, <1>11

\* A restart: brains without a memory, or a process that never came to its brains.
LEMMA PaceRestart == PaceInv /\ TurnInv /\ Restart => PaceInv' /\ TurnInv'
<1> SUFFICES ASSUME PaceInv, TurnInv, Restart PROVE PaceInv' /\ TurnInv'
    OBVIOUS
<1>1. /\ consult' = NoConsult /\ started' = now /\ UNCHANGED <<now, playbook>> /\ now \in Nat
      /\ playbook \in Nat
    BY DEF Restart, PaceInv
<1>2. PICK e \in Environments : Starts(e)
    BY DEF Restart
<1>3. /\ env' = e /\ turn' \in {Rest, Down}
      /\ last' = [n \in Names |-> Never] /\ tried' = [n \in Names |-> Never]
    BY <1>2 DEF Starts, BootBrains
<1>4. /\ gap' \in [Names -> Nat \cup {Never}]
      /\ turn' # Down => \A n \in Names : Floor(n)' <= gap'[n] /\ gap'[n] <= Ceiling(n)'
    <2>1. CASE SelectBroker(e.arms) = "broker"
        <3>1. gap' = [n \in Names |-> Interval(e, n)]
            BY <1>2, <2>1 DEF Starts, BootBrains
        <3>2. ASSUME NEW n \in Names
              PROVE  gap'[n] \in Nat /\ Floor(n)' <= gap'[n] /\ gap'[n] <= Ceiling(n)'
            <4>1. gap'[n] = Interval(e, n) /\ Interval(e, n) \in Nat /\ MinInterval \in Nat
                BY <3>1, IntervalNat
            <4>2. /\ Floor(n)' = Least(MinInterval, Interval(e, n))
                  /\ Ceiling(n)' = Greatest(MinInterval, Interval(e, n))
                BY <1>3 DEF Floor, Ceiling
            <4> QED BY <4>1, <4>2 DEF Least, Greatest
        <3>3. gap' = [n \in Names |-> gap'[n]]
            BY <3>1
        <3> QED BY <3>2, <3>3
    <2>2. CASE SelectBroker(e.arms) # "broker"
        BY <1>2, <2>2 DEF Starts
    <2> QED BY <2>1, <2>2
<1>5. /\ last' \in [Names -> Nat \cup {Never}] /\ tried' \in [Names -> Nat \cup {Never}]
      /\ \A n \in Names : last'[n] <= tried'[n] /\ tried'[n] <= now'
    BY <1>1, <1>3 DEF Never
<1>6. started' \in 0 .. now' /\ now' \in Nat /\ env' \in Environments /\ playbook' \in Nat
    BY <1>1, <1>2, <1>3
<1>7. PaceInv'
    BY <1>1, <1>4, <1>5, <1>6 DEF PaceInv, NoConsult
<1>8. TurnInv'
    BY <1>3, LabelSeqs DEF TurnInv, Words
<1> QED BY <1>7, <1>8

\* The clock, the job and the operator touch no brain.
LEMMA PaceOthers ==
    /\ PaceInv /\ TurnInv
    /\ JobNotDue \/ JobStarts \/ JobGoesOn \/ Passes \/ Approve \/ UNCHANGED vars
    => PaceInv' /\ TurnInv'
<1> SUFFICES ASSUME PaceInv, TurnInv,
                    JobNotDue \/ JobStarts \/ JobGoesOn \/ Passes \/ Approve \/ UNCHANGED vars
             PROVE  PaceInv' /\ TurnInv'
    OBVIOUS
<1>1. UNCHANGED <<env, last, gap, tried, consult, started>>
    BY DEF JobNotDue, JobStarts, JobGoesOn, Passes, Approve, Publish, vars, consultVars, memory,
           tickVars
<1>2. \A n : Floor(n)' = Floor(n) /\ Ceiling(n)' = Ceiling(n)
    BY <1>1 DEF Floor, Ceiling
<1>3. playbook' \in Nat /\ now' \in Nat /\ now <= now' /\ now \in Nat
    BY DEF JobNotDue, JobStarts, JobGoesOn, Passes, Approve, Publish, vars, consultVars, store,
           PaceInv
<1>4. CASE turn' = turn
    <2>1. PaceInv'
        BY <1>1, <1>2, <1>3, <1>4 DEF PaceInv, Asking, Consults, Never
    <2>2. TurnInv'
        BY <1>1, <1>4, TurnStays
    <2> QED BY <2>1, <2>2
<1>5. CASE turn' # turn
    <2>1. turn = Job /\ turn' = Rest /\ now' = now
        BY <1>5 DEF JobNotDue, JobStarts, JobGoesOn, Passes, Approve, vars, tickVars
    <2>2. consult = NoConsult /\ turn # Down
        BY <2>1 DEF PaceInv, Asking, Job, Down
    <2>3. PaceInv'
        BY <1>1, <1>2, <1>3, <2>1, <2>2 DEF PaceInv, NoConsult
    <2>4. TurnInv'
        BY <2>1, LabelSeqs DEF TurnInv, Words
    <2> QED BY <2>3, <2>4
<1> QED BY <1>4, <1>5

\* A brain's stamp moves with its answer, and the consult was due.
LEMMA Unhurried ==
    ASSUME PaceInv, TurnInv, [Next]_vars, NEW n \in Names,
           last[n] # Never, last'[n] \notin {last[n], Never}
    PROVE  last'[n] - last[n] >= Least(MinInterval, Interval(env, n))
<1>1. CASE Reply
    <2>1. consult # NoConsult /\ (last' = last \/ last' = [last EXCEPT ![consult.brain] = consult.at])
        BY <1>1 DEF Reply, Answer, Malformed, Unavailable, Stamp, memory
    <2>2. n = consult.brain /\ last'[n] = consult.at
        BY <2>1 DEF PaceInv
    <2>3. /\ consult.at - last[n] >= gap[n] /\ Floor(n) <= gap[n] /\ turn # Down
          /\ consult.at \in Int /\ last[n] \in Int /\ gap[n] \in Int
        BY <2>1, <2>2 DEF PaceInv, Consults, Asking, Never
    <2>4. Floor(n) \in Int
        <3>1. Interval(env, n) \in Int /\ MinInterval \in Int
            BY IntervalNat DEF PaceInv
        <3> QED BY <3>1 DEF Floor, Least
    <2> QED BY <2>2, <2>3, <2>4 DEF Floor
<1>2. CASE Restart
    <2>1. last' = [m \in Names |-> Never]
        BY <1>2 DEF Restart, Starts, BootBrains
    <2> QED BY <2>1
<1>3. CASE ~Reply /\ ~Restart
    <2>1. last' = last
        BY <1>3 DEF Next, Tick, Hold, Ask, Prompt, JobNotDue, JobStarts, JobGoesOn, Passes,
                    Approve, Publish, vars, consultVars, memory
    <2> QED BY <2>1
<1> QED BY <1>1, <1>2, <1>3

\* Each brain goes at its own pace, between the floor and its interval: none is silent for
\* longer, none calls its model sooner (llm_trader.py:283-322).
THEOREM EachAtItsPace == Spec => Paced
<1>1. PaceInv /\ TurnInv /\ [Next]_vars => PaceInv' /\ TurnInv'
    BY PaceTick, PaceHold, PaceAsk, PaceReply, PaceRestart, PaceOthers DEF Next
<1>2. PaceInv /\ TurnInv /\ [Next]_vars =>
          [\A n \in Names : last[n] # Never /\ last'[n] \notin {last[n], Never} =>
               last'[n] - last[n] >= Least(MinInterval, Interval(env, n))]_last
    BY Unhurried
<1>3. PaceInv /\ TurnInv => NeverSilent
    <2> SUFFICES ASSUME PaceInv, TurnInv, turn = Job, NEW n \in Brains(env)
                 PROVE  InTime(n)
        BY DEF NeverSilent, InTime, Ceiling
    <2>0. Job # Rest /\ Job # Down
        BY LabelSeqs
    <2>1. PICK k \in 0 .. Len(Order) : Been(k)
        BY <2>0 DEF TurnInv
    <2>2. k = Len(Order)
        <3>1. Len(turn) = 1
            BY DEF Job
        <3>2. Len(turn) = Len(Order) - k + 1
            BY <2>1 DEF Been
        <3>3. k \in Int /\ Len(Order) \in Int
            BY OrderSeq
        <3>4. 1 = Len(Order) - k + 1
            BY <3>1, <3>2
        <3> QED BY <3>3, <3>4
    <2>3. n \in Names
        BY ConsultAssumption DEF Brains, Discovered, PaceInv, Environment
    <2>4. PICK j \in 1 .. Len(Order) : n = Order[j]
        BY <2>3, OrderSeq DEF Names
    <2> QED BY <2>1, <2>2, <2>4 DEF Been
<1> QED BY <1>1, <1>2, <1>3, BothInit, PTL DEF Spec, Paced, NeverHasty
==============================================================================
