------------------------------ MODULE Backtests ------------------------------
(***************************************************************************)
(* The continuous walk-forward job: on its own cadence it evaluates every  *)
(* strategy out of sample on the candles the ledger holds and records one  *)
(* row for each, of all folds and of those after the trust cutoff.  One    *)
(* strategy that raises is skipped.  A candle is named by its time; what a *)
(* fold earns is left out, which candles it was earned on is not.          *)
(***************************************************************************)
EXTENDS Integers, Sequences, FiniteSets

CONSTANTS
    Backtested,         \* enabled and candidate strategies, in order
    BacktestPoll,       \* continuous_backtest_poll_sec
    Train, Test,        \* fold sizes, in candles
    Cutoff,             \* trust_cutoff_iso as a candle time
    Days,               \* continuous_backtest_days, in candles
    EarliestCandle      \* time of the oldest candle ever stored

ASSUME BacktestAssumption ==
    /\ BacktestPoll \in Nat /\ Train \in Nat \ {0} /\ Test \in Nat \ {0}
    /\ Cutoff \in Int /\ Days \in Nat /\ EarliestCandle \in Int /\ Backtested \in Seq(STRING)

VARIABLES
    stamped,        \* BacktestRunner._last, in memory
    todo,           \* strategies the run under way still has to evaluate
    candles,        \* times of the candles it works on, oldest first
    rows,           \* backtest_results of the run stamped last
    raised          \* history: strategies that raised in it

jobVars == <<stamped, todo, candles, rows, raised>>
NeverRun == -1

JobInit ==
    /\ stamped = NeverRun /\ todo = <<>> /\ candles = <<>>
    /\ rows = {} /\ raised = {}

------------------------------------------------------------------------------
(* walkforward and profit_mirage *)

\* fold_bounds(n, train, test, step): half-open ranges, one fold each step that fits.
FoldBounds(n, train, test, step) ==
    {[trainLo |-> k * step, testLo |-> k * step + train, testHi |-> k * step + train + test] :
        k \in {j \in 0 .. n : j * step + train + test <= n}}

StepOfOne == 1      \* mutant

Step == Test        \* default: contiguous test windows
PostCutoffAtEnd(fold, times) == times[fold.testHi] >= Cutoff    \* mutant

\* is_post_cutoff of the test window's first candle.
PostCutoff(fold, times) == times[fold.testLo + 1] >= Cutoff

Seen(fold, times) == {times[i] : i \in fold.testLo + 1 .. fold.testHi}

\* walk_forward: each fold by a fresh skill, on its test slice alone.
WalkForward(times) ==
    LET folds == FoldBounds(Len(times), Train, Test, Step) IN
    [oos     |-> {Seen(f, times) : f \in folds}, folds |-> Cardinality(folds),
     trusted |-> {Seen(f, times) : f \in {g \in folds : PostCutoff(g, times)}}]

------------------------------------------------------------------------------
(* BacktestRunner.run *)

JobDue(clock) == stamped = NeverRun \/ clock - stamped >= BacktestPoll

\* get_candles_range from days back to now.
Stored(clock) ==
    LET first == IF clock - Days > EarliestCandle THEN clock - Days ELSE EarliestCandle
    IN [i \in 1 .. clock - first + 1 |-> first + i - 1]

StampFirst(clock, read) ==      \* mutant: a failed read burns the period
    /\ todo = <<>> /\ JobDue(clock)
    /\ stamped' = clock /\ rows' = {} /\ raised' = {}
    /\ IF read /\ Stored(clock) # <<>>
       THEN todo' = Backtested /\ candles' = Stored(clock)
       ELSE UNCHANGED <<todo, candles>>

\* Candles are read before the cadence is stamped: nothing stored, or a read that fails,
\* leaves the run due.
StartJob(clock, read) ==
    /\ todo = <<>> /\ JobDue(clock)
    /\ IF read /\ Stored(clock) # <<>>
       THEN /\ stamped' = clock /\ todo' = Backtested /\ candles' = Stored(clock)
            /\ rows' = {} /\ raised' = {}
       ELSE UNCHANGED jobVars

Evaluated ==
    /\ todo # <<>> /\ todo' = Tail(todo)
    /\ rows' = rows \cup {[strategy |-> Head(todo), ts |-> stamped,
                           result |-> WalkForward(candles)]}
    /\ UNCHANGED <<stamped, candles, raised>>

Raised ==                       \* an unknown name, a locked ledger: the next one goes on
    /\ todo # <<>> /\ todo' = Tail(todo)
    /\ raised' = raised \cup {Head(todo)}
    /\ UNCHANGED <<stamped, candles, rows>>

JobLost == stamped' = NeverRun /\ todo' = <<>> /\ UNCHANGED <<candles, rows, raised>>

------------------------------------------------------------------------------
(* Properties *)

\* The job that stamped the cadence has a row for each strategy, its failures excepted: a
\* failed read stamps nothing, and one failing strategy costs no other its evidence.
EvidenceComplete ==
    stamped # NeverRun /\ todo = <<>> =>
        {Backtested[i] : i \in DOMAIN Backtested} = {r.strategy : r \in rows} \cup raised

\* No candle counts twice as evidence, none of it was in the train slice of its first fold,
\* and as many folds as fit were tested.
EvidenceDisjoint ==
    \A r \in rows :
        /\ \A a, b \in r.result.oos : a = b \/ a \cap b = {}
        /\ Cardinality(r.result.oos) = r.result.folds
        /\ \A i \in 1 .. Train : i <= Len(candles) => candles[i] \notin UNION r.result.oos
        /\ Len(candles) - Train - Cardinality(UNION r.result.oos) < Test

\* What is recorded as trusted was earned entirely after the cutoff.
TrustedIsLater == \A r \in rows : \A t \in UNION r.result.trusted : t >= Cutoff

\* A recorded result can be believed: all of it is there, nothing counts twice, and what is
\* trusted is out of the models' training data.
EvidenceSound == EvidenceComplete /\ EvidenceDisjoint /\ TrustedIsLater
==============================================================================
