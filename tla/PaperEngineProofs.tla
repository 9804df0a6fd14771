-------------------------- MODULE PaperEngineProofs --------------------------
(* Theorems about PaperEngine, for every roster, price, bound and limit. *)
EXTENDS PaperEngine, TLAPS

------------------------------------------------------------------------------
(* What the operators return *)

\* Integer products, for size times price.
LEMMA ProductType == \A a, b \in Int : a * b \in Int
BY SMT

\* broker.realized_pnl returns an integer.
LEMMA PnlType ==
    ASSUME NEW p \in Positions, NEW f \in Int
    PROVE  RealizedPnl(p, f) \in Int
<1>1. p.size \in Int /\ f - p.entry \in Int /\ p.entry - f \in Int
    BY DEF Positions
<1>2. p.size * (f - p.entry) \in Int /\ p.size * (p.entry - f) \in Int
    BY <1>1, ProductType, Zenon
<1> QED BY <1>2 DEF RealizedPnl

\* broker.fill_price stays on the grid.
LEMMA FillType ==
    ASSUME NEW price \in Int, NEW side, NEW isEntry \in BOOLEAN
    PROVE  FillPrice(price, side, isEntry) \in Int
BY BrokerAssumption DEF FillPrice

\* What PositionManager.close books is an integer.
LEMMA NetType ==
    ASSUME NEW p \in Positions, NEW price \in Int
    PROVE  NetPnl(p, price) \in Int
<1> DEFINE pnl == RealizedPnl(p, FillPrice(price, p.side, FALSE))
<1>1. pnl \in Int
    BY PnlType, FillType
<1>2. NetPnl(p, price) = pnl - Fee
    BY DEF NetPnl
<1> HIDE DEF pnl
<1> QED BY <1>1, <1>2, BrokerAssumption

\* Stop and liquidation prices stay on the grid.
LEMMA RiskExitType ==
    ASSUME NEW p \in Positions, NEW c
    PROVE  RiskExitPrice(p, c) \in Int
BY BrokerAssumption DEF RiskExitPrice, LiquidationPrice, StopPrice, Positions

\* An OPEN row adds its notional to its day and changes nothing else.
LEMMA BookOpened ==
    ASSUME NEW t \in [Days -> DayTotals], NEW d \in Days, NEW x \in Int
    PROVE  [t EXCEPT ![d].opened = @ + x] \in [Days -> DayTotals]
<1>1. [t[d] EXCEPT !.opened = @ + x] \in DayTotals
    BY DEF DayTotals
<1> QED BY <1>1

\* A CLOSE row adds its pnl to its day and changes nothing else.
LEMMA BookClosed ==
    ASSUME NEW t \in [Days -> DayTotals], NEW d \in Days, NEW x \in Int
    PROVE  [t EXCEPT ![d].closed = @ + x] \in [Days -> DayTotals]
<1>1. [t[d] EXCEPT !.closed = @ + x] \in DayTotals
    BY DEF DayTotals
<1> QED BY <1>1

\* A manual CLOSE row is booked on its day, in the column of manual exits.
LEMMA BookManual ==
    ASSUME NEW t \in [Days -> DayTotals], NEW d \in Days, NEW x \in Int
    PROVE  [t EXCEPT ![d].manual = @ + x] \in [Days -> DayTotals]
<1>1. [t[d] EXCEPT !.manual = @ + x] \in DayTotals
    BY DEF DayTotals
<1> QED BY <1>1

\* A flip books its close and its opening on the same day.
LEMMA FlipBooks ==
    ASSUME NEW t \in [Days -> DayTotals], NEW d \in Days, NEW x \in Int, NEW y \in Int
    PROVE  [t EXCEPT ![d].closed = @ + x, ![d].opened = @ + y]
           = [[t EXCEPT ![d].closed = @ + x] EXCEPT ![d].opened = @ + y]
BY DEF DayTotals

\* DailyRiskGuard._roll returns a guard, of the day it is given.
LEMMA RollType ==
    ASSUME NEW g \in GuardType, NEW d \in Nat
    PROVE  Roll(g, d) \in GuardType
BY DEF Roll, GuardType

\* DailyRiskGuard._check_loss returns a guard with the same totals.
LEMMA CheckLossType ==
    ASSUME NEW g \in GuardType
    PROVE  CheckLoss(g) \in GuardType
BY DEF CheckLoss, GuardType

\* can_open, record_open and record_close leave a guard.
LEMMA GuardTypes ==
    ASSUME NEW g \in GuardType, NEW d \in Nat, NEW x \in Int
    PROVE  /\ CanOpenGuard(g, d) \in GuardType
           /\ RecordOpen(g, x, d) \in GuardType
           /\ RecordClose(g, x, d) \in GuardType
<1> DEFINE r == Roll(g, d)
<1>1. r \in GuardType
    BY RollType
<1>2. CanOpenGuard(g, d) \in GuardType
    BY <1>1, CheckLossType DEF CanOpenGuard
<1>3. [r EXCEPT !.traded = @ + x] \in GuardType /\ [r EXCEPT !.realized = @ + x] \in GuardType
    <2> HIDE DEF r
    <2> QED BY <1>1 DEF GuardType
<1> QED BY <1>2, <1>3, CheckLossType DEF RecordOpen, RecordClose

------------------------------------------------------------------------------
(* The type invariant is inductive together with what makes PositionOf mean the
   position of a strategy: there is only one, and ids are handed out once. *)

IdsFresh == \A p \in open : p.id < nextId

Inv == TypeOK /\ OnePositionPerStrategy /\ IdsFresh

\* get_open_position returns an open row of the strategy.
LEMMA ThePosition ==
    ASSUME Inv, NEW s, ~Flat(s)
    PROVE  /\ PositionOf(s) \in open
           /\ PositionOf(s) \in Positions
           /\ OpenOf(s) = {PositionOf(s)}
<1>1. PICK p : p \in OpenOf(s)
    BY DEF Flat
<1>2. \A q \in OpenOf(s) : q = p
    BY <1>1 DEF OpenOf, Inv, OnePositionPerStrategy
<1>3. p.id <= p.id
    BY <1>1 DEF OpenOf, Inv, TypeOK, Positions
<1>4. PositionOf(s) = p
    BY <1>1, <1>2, <1>3 DEF PositionOf
<1>5. p \in Positions
    BY <1>1 DEF OpenOf, Inv, TypeOK
<1> QED BY <1>1, <1>2, <1>4, <1>5 DEF OpenOf

\* What a close leaves behind.
LEMMA CloseLeaves ==
    ASSUME Inv, NEW p \in Positions, NEW price \in Int, CloseAt(p, price), nextId' = nextId
    PROVE  /\ open' \subseteq Positions
           /\ trades' \in [Days -> DayTotals]
           /\ guard' \in GuardType
           /\ OnePositionPerStrategy' /\ IdsFresh'
<1> DEFINE pnl == NetPnl(p, price)
<1>1. pnl \in Int
    BY NetType
<1>2. /\ open' = open \ {p}
      /\ trades' = [trades EXCEPT ![now].closed = @ + pnl]
      /\ guard' = RecordClose(guard, pnl, now)
    BY DEF CloseAt
<1> HIDE DEF pnl
<1>3. now \in Nat /\ now \in Days /\ guard \in GuardType
    BY EngineAssumption DEF Inv, TypeOK, Days
<1>4. trades' \in [Days -> DayTotals]
    BY <1>1, <1>2, <1>3, BookClosed DEF Inv, TypeOK
<1>5. guard' \in GuardType
    BY <1>1, <1>2, <1>3, GuardTypes
<1> QED BY <1>2, <1>4, <1>5 DEF Inv, TypeOK, OnePositionPerStrategy, IdsFresh

\* What an attempt to open leaves behind: a veto, or one position with a new id whose
\* notional the guard has allowed and recorded.
LEMMA OpenLeaves ==
    ASSUME Inv, NEW s \in Strategies, NEW side \in Sides, NEW size \in Sizes,
           NEW g \in GuardType, NEW kept \in SUBSET open,
           \A p \in kept : p.strategy # s,
           OpenOrVeto(s, side, size, g, kept)
    PROVE  /\ open' \subseteq Positions
           /\ nextId' \in Nat \ {0}
           /\ guard' \in GuardType
           /\ OnePositionPerStrategy' /\ IdsFresh'
           /\ Opened \in Int
           /\ \/ /\ nextId' = nextId /\ Opened = 0
                 /\ guard' = CanOpenGuard(g, now)
              \/ /\ nextId' = nextId + 1
                 /\ CanOpen(CanOpenGuard(g, now), Opened)
                 /\ guard' = RecordOpen(CanOpenGuard(g, now), Opened, now)
<1> DEFINE fill == FillPrice(candle.close, side, TRUE)
           notional == size * fill
           asked == CanOpenGuard(g, now)
           new == [id |-> nextId, strategy |-> s, side |-> side, entry |-> fill,
                   size |-> size, opened |-> candle.time]
<1>1. now \in Nat /\ nextId \in Nat \ {0} /\ candle.close \in Int /\ candle.time \in Nat
    BY EngineAssumption DEF Inv, TypeOK, Days
<1>2. fill \in Int
    BY <1>1, FillType
<1>3. size \in Nat /\ size \in Int /\ notional \in Int
    <2>1. size \in Nat /\ size \in Int
        BY EngineAssumption
    <2> QED BY <1>2, <2>1, ProductType, Zenon
<1>4. asked \in GuardType
    BY <1>1, GuardTypes
<1>5. new \in Positions
    BY <1>1, <1>2, <1>3 DEF Positions
<1>a. /\ new.id = nextId /\ new.strategy = s
      /\ new.size * new.entry = notional
    <2>1. new.size = size /\ new.entry = fill
        OBVIOUS
    <2> QED BY <2>1, Zenon
<1>b. /\ kept \subseteq open /\ kept \subseteq Positions
      /\ \A p \in kept : p.id \in Nat /\ p.id < nextId
      /\ \A p, q \in kept : p.strategy = q.strategy => p = q
    BY DEF Inv, TypeOK, OnePositionPerStrategy, IdsFresh, Positions
<1>6. CASE CanOpen(asked, notional)
    <2>1. /\ open' = kept \cup {new}
          /\ nextId' = nextId + 1
          /\ guard' = RecordOpen(asked, notional, now)
        BY <1>6, Zenon DEF OpenOrVeto
    <2> HIDE DEF fill, notional, asked, new
    <2>2. \A q \in open' : q.id = nextId => q = new
        BY <2>1, <1>1, <1>b
    <2>3. (CHOOSE q \in open' : q.id = nextId) = new
        BY <2>1, <2>2, <1>a
    <2>4. nextId' # nextId
        BY <2>1, <1>1
    <2>5. Opened = notional
        BY <2>3, <2>4, <1>a, Zenon DEF Opened
    <2>6. guard' \in GuardType
        BY <2>1, <1>1, <1>3, <1>4, GuardTypes
    <2>7. open' \subseteq Positions /\ nextId' \in Nat \ {0}
        BY <2>1, <1>1, <1>5, <1>b
    <2>8. OnePositionPerStrategy'
        BY <2>1, <1>a, <1>b DEF OnePositionPerStrategy
    <2>9. IdsFresh'
        BY <2>1, <1>1, <1>a, <1>b DEF IdsFresh
    <2> QED BY <1>3, <1>6, <2>1, <2>5, <2>6, <2>7, <2>8, <2>9 DEF asked
<1>7. CASE ~CanOpen(asked, notional)
    <2>1. open' = kept /\ nextId' = nextId /\ guard' = asked
        BY <1>7 DEF OpenOrVeto
    <2>2. Opened = 0
        BY <2>1 DEF Opened
    <2>3. OnePositionPerStrategy' /\ IdsFresh' /\ open' \subseteq Positions
        BY <2>1 DEF Inv, TypeOK, OnePositionPerStrategy, IdsFresh
    <2> QED BY <1>1, <1>4, <2>1, <2>2, <2>3
<1> QED BY <1>6, <1>7

\* An empty ledger and an engine that is off satisfy the invariant.
LEMMA InvInit == Init => Inv
<1> SUFFICES ASSUME Init PROVE Inv
    OBVIOUS
<1>1. 1 \in Days
    BY EngineAssumption DEF Days
<1>2. trades \in [Days -> DayTotals] /\ base \in [Days -> DayTotals]
    BY DEF Init, DayTotals
<1>3. guard \in GuardType
    BY DEF Init, FreshGuard, GuardType
<1>4. candle \in [time : Nat, low : Nat, close : Nat, high : Nat]
    BY DEF Init
<1>5. queue \in Seq(Strategies) /\ mech \in Seq(Strategies)
    BY DEF Init
<1>6. fails \in [Strategies -> Nat] /\ consultedAt \in [Strategies -> Nat]
    BY DEF Init
<1>7. /\ open \subseteq Positions /\ nextId \in Nat \ {0} /\ lastCandleTime \in Nat
      /\ day \in Days /\ now \in Days
      /\ sweep \subseteq Nat /\ passFirst \in Nat \ {0} /\ runs \in Nat
      /\ idx \in Nat \ {0}
    BY <1>1 DEF Init
<1>8. /\ disabled \subseteq Strategies /\ tripped \subseteq Strategies
      /\ paused \in BOOLEAN /\ stop \in BOOLEAN /\ pausedAt \in BOOLEAN
      /\ haveCandle \in BOOLEAN
      /\ pc = "off" /\ pass = "mech"
    BY DEF Init
<1>9. TypeOK
    BY <1>2, <1>3, <1>4, <1>5, <1>6, <1>7, <1>8 DEF TypeOK
<1> QED BY <1>9 DEF Init, Inv, OnePositionPerStrategy, IdsFresh

\* The parts of a candle shape are naturals.
LEMMA ShapeType == \A c \in Shapes : c.low \in Nat /\ c.close \in Nat /\ c.high \in Nat
BY EngineAssumption

\* What get_candles may show has the type of a candle.
LEMMA QuotesType ==
    ASSUME NEW q \in Quotes
    PROVE  q \in [time : Nat, low : Nat, close : Nat, high : Nat]
<1>1. PICK t \in {candle.time, candle.time + 1} \cap (1 .. MaxTime), c \in Shapes :
         q = [time |-> t, low |-> c.low, close |-> c.close, high |-> c.high]
    BY DEF Quotes
<1>2. t \in Nat
    OBVIOUS
<1> QED BY <1>1, <1>2, ShapeType

\* Steps that touch neither the positions nor the guard's books.
LEMMA InvBooksKept ==
    ASSUME Inv, UNCHANGED <<open, nextId>>, TypeOK'
    PROVE  Inv'
BY DEF Inv, OnePositionPerStrategy, IdsFresh

\* The steps of engine.run around a tick keep the invariant.
LEMMA InvLoop ==
    ASSUME Inv, Start \/ LoopExit \/ FetchOk \/ FetchFails \/ DrainDone \/ Die
    PROVE  Inv'
<1> USE DEF Inv, TypeOK, ledgerVars, passVars, userVars, runVars
<1>1. CASE Start
    <2>1. mech' \in Seq(Strategies)
        BY <1>1, EngineAssumption DEF Start
    <2>2. guard' \in GuardType
        BY <1>1 DEF Start, FreshGuard, GuardType
    <2>3. fails' \in [Strategies -> Nat] /\ base' \in [Days -> DayTotals]
        BY <1>1 DEF Start
    <2>4. /\ tripped' = {} /\ runs' = runs + 1 /\ pc' = "top"
          /\ paused' = FALSE /\ stop' = FALSE /\ haveCandle' = FALSE
        BY <1>1 DEF Start
    <2>5. UNCHANGED <<open, nextId, lastCandleTime, trades, candle, day, queue, disabled,
                      pass, pausedAt, now, passFirst, idx, sweep, consultedAt>>
        BY <1>1 DEF Start
    <2>6. (tripped' \subseteq Strategies) /\ (runs' \in Nat)
        BY <2>4
    <2>7. TypeOK'
        BY <2>1, <2>2, <2>3, <2>4, <2>5, <2>6
    <2> QED BY <1>1, <2>7, InvBooksKept DEF Start
<1>2. CASE LoopExit
    <2>1. TypeOK'
        BY <1>2 DEF LoopExit
    <2> QED BY <1>2, <2>1, InvBooksKept DEF LoopExit
<1>3. CASE FetchOk
    <2>1. candle' \in [time : Nat, low : Nat, close : Nat, high : Nat]
        BY <1>3, QuotesType DEF FetchOk
    <2>2. TypeOK'
        BY <1>3, <2>1 DEF FetchOk
    <2> QED BY <1>3, <2>2, InvBooksKept DEF FetchOk
<1>4. CASE FetchFails
    <2>1. TypeOK'
        BY <1>4 DEF FetchFails
    <2> QED BY <1>4, <2>1, InvBooksKept DEF FetchFails
<1>5. CASE DrainDone
    <2>1. TypeOK'
        BY <1>5 DEF DrainDone
    <2> QED BY <1>5, <2>1, InvBooksKept DEF DrainDone
<1>6. CASE Die
    <2>1. <<>> \in Seq(Strategies)
        OBVIOUS
    <2>2. queue' \in {queue, <<>>} /\ disabled' \in {disabled, {}}
        BY <1>6 DEF Die
    <2>3. /\ pc' = "off" /\ sweep' = {}
          /\ UNCHANGED <<open, nextId, lastCandleTime, trades, candle, day, paused, stop,
                         pass, pausedAt, now, passFirst, idx, guard, mech, haveCandle,
                         fails, tripped, runs, base, consultedAt>>
        BY <1>6 DEF Die
    <2>4. queue' \in Seq(Strategies) /\ disabled' \subseteq Strategies
        BY <2>1, <2>2
    <2>5. TypeOK'
        BY <2>3, <2>4
    <2> QED BY <1>6, <2>5, InvBooksKept DEF Die
<1> QED BY <1>1, <1>2, <1>3, <1>4, <1>5, <1>6

\* The steps of run_tick between the passes keep the invariant.
LEMMA InvPasses ==
    ASSUME Inv, MechPass \/ AiPass \/ ListOrphans \/ EndPass \/ AfterTick
    PROVE  Inv'
<1> USE DEF Inv, TypeOK, ledgerVars, passVars, userVars, runVars
<1>1. CASE MechPass
    <2>1. TypeOK'
        BY <1>1 DEF MechPass, BeginPass
    <2> QED BY <1>1, <2>1, InvBooksKept DEF MechPass
<1>2. CASE AiPass
    <2>1. TypeOK'
        BY <1>2 DEF AiPass, BeginPass
    <2> QED BY <1>2, <2>1, InvBooksKept DEF AiPass
<1>3. CASE ListOrphans
    <2>1. sweep' \subseteq Nat
        BY <1>3 DEF ListOrphans, Orphans, Positions
    <2>2. TypeOK'
        BY <1>3, <2>1 DEF ListOrphans
    <2> QED BY <1>3, <2>2, InvBooksKept DEF ListOrphans
<1>4. CASE EndPass
    <2>1. TypeOK'
        BY <1>4 DEF EndPass
    <2> QED BY <1>4, <2>1, InvBooksKept DEF EndPass
<1>5. CASE AfterTick
    <2>1. TypeOK'
        BY <1>5 DEF AfterTick
    <2> QED BY <1>5, <2>1, InvBooksKept DEF AfterTick
<1> QED BY <1>1, <1>2, <1>3, <1>4, <1>5

\* The Controller and the clock, at any moment, keep the invariant.
LEMMA InvControls ==
    ASSUME Inv, Operator \/ NextDay
    PROVE  Inv'
<1> USE DEF Inv, TypeOK, engineVars, ledgerVars, passVars, userVars, runVars
<1>1. CASE Pause
    <2>1. TypeOK'
        BY <1>1 DEF Pause
    <2> QED BY <1>1, <2>1, InvBooksKept DEF Pause
<1>2. CASE Resume
    <2>1. TypeOK'
        BY <1>2 DEF Resume
    <2> QED BY <1>2, <2>1, InvBooksKept DEF Resume
<1>3. CASE Stop
    <2>1. TypeOK'
        BY <1>3 DEF Stop
    <2> QED BY <1>3, <2>1, InvBooksKept DEF Stop
<1>4. ASSUME NEW s \in Strategies, CloseTrade(s) PROVE Inv'
    <2>1. queue' \in Seq(Strategies)
        BY <1>4 DEF CloseTrade
    <2>2. TypeOK'
        BY <1>4, <2>1 DEF CloseTrade
    <2> QED BY <1>4, <2>2, InvBooksKept DEF CloseTrade
<1>5. ASSUME NEW s \in Strategies, SetEnabled(s) PROVE Inv'
    <2>1. disabled' \subseteq Strategies
        BY <1>5 DEF SetEnabled
    <2>2. TypeOK'
        BY <1>5, <2>1 DEF SetEnabled
    <2> QED BY <1>5, <2>2, InvBooksKept DEF SetEnabled
<1>6. CASE NextDay
    <2>1. day' \in Days
        BY <1>6, EngineAssumption DEF NextDay, Days
    <2>2. TypeOK'
        BY <1>6, <2>1 DEF NextDay
    <2> QED BY <1>6, <2>2, InvBooksKept DEF NextDay
<1> QED BY <1>1, <1>2, <1>3, <1>4, <1>5, <1>6 DEF Operator

\* A manual exit (_drain_commands) keeps the invariant.
LEMMA InvDrain ==
    ASSUME Inv, DrainCommand
    PROVE  Inv'
<1>1. queue' \in Seq(Strategies)
    BY DEF DrainCommand, Inv, TypeOK
<1>2. open' \subseteq open /\ trades' \in [Days -> DayTotals]
    <2> DEFINE s == Head(queue)
    <2>1. CASE s \in LiveRoster /\ ~Flat(s)
        <3> DEFINE pnl == NetPnl(PositionOf(s), candle.close)
        <3>1. candle.close \in Int /\ now \in Days /\ trades \in [Days -> DayTotals]
            BY DEF Inv, TypeOK
        <3>2. pnl \in Int
            BY <2>1, <3>1, ThePosition, NetType
        <3>3. open' = open \ {PositionOf(s)} /\ trades' = [trades EXCEPT ![now].manual = @ + pnl]
            BY <2>1 DEF DrainCommand
        <3> HIDE DEF pnl
        <3> QED BY <3>1, <3>2, <3>3, BookManual
    <2>2. CASE ~(s \in LiveRoster /\ ~Flat(s))
        BY <2>2 DEF DrainCommand, Inv, TypeOK
    <2> QED BY <2>1, <2>2
<1>3. UNCHANGED <<nextId, lastCandleTime, candle, day, paused, stop, disabled, pc,
                  pass, pausedAt, now, passFirst, idx, sweep, guard,
                  mech, haveCandle, fails, tripped, runs, base, consultedAt>>
    BY DEF DrainCommand, passVars, runVars
<1>4. TypeOK'
    BY <1>1, <1>2, <1>3 DEF Inv, TypeOK
<1> QED BY <1>2, <1>3, <1>4 DEF Inv, OnePositionPerStrategy, IdsFresh

\* What the risk check of one position leaves.
LEMMA RiskLeaves ==
    ASSUME Inv, NEW p \in Positions, NEW c, nextId' = nextId,
           CloseAt(p, RiskExitPrice(p, c)) \/ UNCHANGED <<open, trades, guard>>
    PROVE  /\ open' \subseteq Positions
           /\ trades' \in [Days -> DayTotals]
           /\ guard' \in GuardType
           /\ OnePositionPerStrategy' /\ IdsFresh'
<1>1. CASE CloseAt(p, RiskExitPrice(p, c))
    BY <1>1, CloseLeaves, RiskExitType
<1>2. CASE UNCHANGED <<open, trades, guard>>
    BY <1>2 DEF Inv, TypeOK, OnePositionPerStrategy, IdsFresh
<1> QED BY <1>1, <1>2

\* The stop / liquidation check of process_tick keeps the invariant.
LEMMA InvManageRisk ==
    ASSUME Inv, ManageRisk
    PROVE  Inv'
<1> DEFINE s == Roster[idx]
<1>1. UNCHANGED <<nextId, lastCandleTime, candle, day, queue, paused, stop, disabled,
                  pass, pausedAt, now, passFirst, sweep,
                  mech, haveCandle, fails, tripped, runs, base, consultedAt>>
    BY DEF ManageRisk, userVars, passVars, runVars
<1>2. /\ open' \subseteq Positions
      /\ trades' \in [Days -> DayTotals]
      /\ guard' \in GuardType
      /\ OnePositionPerStrategy' /\ IdsFresh'
    <2>1. CASE ~Flat(s) /\ Crossed(PositionOf(s), candle)
        BY <2>1, <1>1, ThePosition, RiskLeaves DEF ManageRisk
    <2>2. CASE ~(~Flat(s) /\ Crossed(PositionOf(s), candle))
        BY <2>2, <1>1 DEF ManageRisk, Inv, TypeOK, OnePositionPerStrategy, IdsFresh
    <2> QED BY <2>1, <2>2
<1>3. /\ idx' \in Nat \ {0}
      /\ pc' \in {"manage", "consult"}
    BY DEF ManageRisk, Inv, TypeOK
<1>4. TypeOK'
    BY <1>1, <1>2, <1>3 DEF Inv, TypeOK
<1> QED BY <1>2, <1>4 DEF Inv

\* The sweep of process_tick over orphans keeps the invariant.
LEMMA InvSweepOrphan ==
    ASSUME Inv, SweepOrphan
    PROVE  Inv'
<1>1. PICK p \in open :
         /\ sweep' = sweep \ {p.id}
         /\ CloseAt(p, RiskExitPrice(p, candle)) \/ UNCHANGED <<open, trades, guard>>
    BY DEF SweepOrphan
<1>2. UNCHANGED <<nextId, lastCandleTime, candle, day, queue, paused, stop, disabled, pc,
                  pass, pausedAt, now, passFirst, idx,
                  mech, haveCandle, fails, tripped, runs, base, consultedAt>>
    BY DEF SweepOrphan, userVars, passVars, runVars
<1>3. p \in Positions
    BY DEF Inv, TypeOK
<1>4. /\ open' \subseteq Positions
      /\ trades' \in [Days -> DayTotals]
      /\ guard' \in GuardType
      /\ OnePositionPerStrategy' /\ IdsFresh'
    BY <1>1, <1>2, <1>3, RiskLeaves
<1>5. TypeOK'
    BY <1>1, <1>2, <1>4 DEF Inv, TypeOK
<1> QED BY <1>4, <1>5 DEF Inv

\* A decision, whichever it is, keeps the invariant: an entry is taken only by a
\* strategy without a position, a flip closes the one it has first.
LEMMA InvConsult ==
    ASSUME Inv, Consult
    PROVE  Inv'
<1>1. PICK s \in Strategies :
         \/ ConsultRaises(s) \/ DecideHold(s) \/ DecideClose(s)
         \/ DecideEnter(s) \/ DecideReverse(s)
    BY DEF Consult
<1>2. Consulted(s)
    BY <1>1 DEF ConsultRaises, DecideHold, DecideClose, DecideEnter, DecideReverse, Answered
<1>3. UNCHANGED <<lastCandleTime, candle, day, queue, paused, stop, disabled,
                  pass, pausedAt, now, passFirst, sweep, mech, haveCandle, runs, base>>
    BY <1>2 DEF Consulted, userVars, passVars
<1>4. /\ pc' = "manage" /\ idx' \in Nat \ {0}
      /\ consultedAt' \in [Strategies -> Nat]
    BY <1>2 DEF Consulted, Inv, TypeOK
<1>5. fails' \in [Strategies -> Nat] /\ tripped' \subseteq Strategies
    <2>1. fails \in [Strategies -> Nat] /\ tripped \subseteq Strategies
        BY DEF Inv, TypeOK
    <2>2. CASE ConsultRaises(s)
        BY <2>1, <2>2 DEF ConsultRaises
    <2>3. CASE Answered(s)
        BY <2>1, <2>3 DEF Answered
    <2> QED BY <1>1, <2>2, <2>3 DEF DecideHold, DecideClose, DecideEnter, DecideReverse
<1>6. candle.close \in Int /\ now \in Days /\ now \in Nat /\ guard \in GuardType
    BY EngineAssumption DEF Inv, TypeOK, Days
<1>7. trades \in [Days -> DayTotals] /\ trades[now] \in DayTotals
    BY <1>6 DEF Inv, TypeOK
<1>8. /\ open' \subseteq Positions /\ nextId' \in Nat \ {0}
      /\ trades' \in [Days -> DayTotals]
      /\ guard' \in GuardType
      /\ OnePositionPerStrategy' /\ IdsFresh'
    <2>1. CASE ConsultRaises(s) \/ DecideHold(s)
        BY <2>1 DEF ConsultRaises, DecideHold, Inv, TypeOK, OnePositionPerStrategy, IdsFresh
    <2>2. CASE DecideClose(s)
        <3>1. nextId' = nextId /\ ~Flat(s) /\ CloseAt(PositionOf(s), candle.close)
            BY <2>2 DEF DecideClose
        <3> QED BY <3>1, <1>6, ThePosition, CloseLeaves DEF Inv, TypeOK
    <2>3. CASE DecideEnter(s)
        <3>1. PICK side \in Sides, size \in Sizes, aligned \in Alignments :
                 IF MayEnter(aligned)
                 THEN OpenOrVeto(s, side, size, guard, open)
                 ELSE UNCHANGED <<open, nextId, guard>>
            BY <2>3 DEF DecideEnter
        <3>2. /\ open' \subseteq Positions /\ nextId' \in Nat \ {0}
              /\ guard' \in GuardType
              /\ OnePositionPerStrategy' /\ IdsFresh'
              /\ Opened \in Int
            <4>1. CASE MayEnter(aligned)
                <5>1. \A p \in open : p.strategy # s
                    BY <2>3 DEF DecideEnter, Flat, OpenOf
                <5>2. OpenOrVeto(s, side, size, guard, open)
                    BY <3>1, <4>1
                <5> QED BY <5>1, <5>2, <1>6, OpenLeaves
            <4>2. CASE ~MayEnter(aligned)
                BY <3>1, <4>2 DEF Opened, Inv, TypeOK, OnePositionPerStrategy, IdsFresh
            <4> QED BY <4>1, <4>2
        <3>3. trades' = [trades EXCEPT ![now].opened = @ + Opened]
            BY <2>3 DEF DecideEnter
        <3>4. trades' \in [Days -> DayTotals]
            BY <1>6, <1>7, <3>2, <3>3, BookOpened
        <3> QED BY <3>2, <3>4
    <2>4. CASE DecideReverse(s)
        <3> DEFINE p == PositionOf(s)
                   side == IF p.side = LONG THEN SHORT ELSE LONG
                   pnl == NetPnl(p, candle.close)
                   g == RecordClose(guard, pnl, now)
        <3>1. ~Flat(s)
            BY <2>4 DEF DecideReverse
        <3>2. p \in Positions /\ OpenOf(s) = {p}
            BY <3>1, ThePosition
        <3>3. pnl \in Int /\ g \in GuardType /\ side \in Sides
            BY <1>6, <3>2, NetType, GuardTypes DEF Sides
        <3>4. PICK size \in Sizes, aligned \in Alignments :
                 /\ IF FlipEnabled /\ MayEnter(aligned)
                    THEN OpenOrVeto(s, side, size, g, open \ {p})
                    ELSE open' = open \ {p} /\ guard' = g /\ UNCHANGED nextId
                 /\ trades' = [trades EXCEPT ![now].closed = @ + pnl,
                                             ![now].opened = @ + Opened]
            BY <2>4, Zenon DEF DecideReverse
        <3>5. \A q \in open \ {p} : q.strategy # s
            BY <3>2 DEF OpenOf
        <3> HIDE DEF p, side, pnl, g
        <3>6. /\ open' \subseteq Positions /\ nextId' \in Nat \ {0}
              /\ guard' \in GuardType
              /\ OnePositionPerStrategy' /\ IdsFresh'
              /\ Opened \in Int
            <4>1. CASE FlipEnabled /\ MayEnter(aligned)
                BY <3>3, <3>4, <3>5, <4>1, OpenLeaves
            <4>2. CASE ~(FlipEnabled /\ MayEnter(aligned))
                BY <3>3, <3>4, <4>2 DEF Opened, Inv, TypeOK, OnePositionPerStrategy, IdsFresh
            <4> QED BY <4>1, <4>2
        <3>7. trades' \in [Days -> DayTotals]
            <4>1. trades' = [[trades EXCEPT ![now].closed = @ + pnl]
                                    EXCEPT ![now].opened = @ + Opened]
                BY <1>6, <1>7, <3>3, <3>4, <3>6, FlipBooks
            <4> QED BY <4>1, <1>6, <1>7, <3>3, <3>6, BookClosed, BookOpened
        <3> QED BY <3>6, <3>7
    <2> QED BY <1>1, <2>1, <2>2, <2>3, <2>4
<1>9. TypeOK'
    BY <1>3, <1>4, <1>5, <1>8 DEF Inv, TypeOK
<1> QED BY <1>8, <1>9 DEF Inv

\* TypeOK and OnePositionPerStrategy hold of every run of the engine: the newest
\* open row that get_open_position returns is the only one.
THEOREM EngineInvariant == Spec => []Inv
<1>1. Inv /\ [Next]_vars => Inv'
    <2> SUFFICES ASSUME Inv, [Next]_vars PROVE Inv'
        OBVIOUS
    <2>1. CASE Engine
        BY <2>1, InvLoop, InvPasses, InvDrain, InvManageRisk, InvConsult, InvSweepOrphan
           DEF Engine, Work
    <2>2. CASE Operator \/ NextDay
        BY <2>2, InvControls
    <2>3. CASE UNCHANGED vars
        BY <2>3 DEF vars, ledgerVars, passVars, userVars, runVars, Inv, TypeOK,
                    OnePositionPerStrategy, IdsFresh
    <2> QED BY <2>1, <2>2, <2>3 DEF Next
<1> QED BY <1>1, InvInit, PTL DEF Spec

\* Every variable keeps its type.
THEOREM EngineTypes == Spec => []TypeOK
<1>1. Inv => TypeOK
    BY DEF Inv
<1> QED BY <1>1, EngineInvariant, PTL

\* No strategy ever holds two open positions.
THEOREM OnePosition == Spec => []OnePositionPerStrategy
<1>1. Inv => OnePositionPerStrategy
    BY DEF Inv
<1> QED BY <1>1, EngineInvariant, PTL

------------------------------------------------------------------------------
(* The daily limits.  The guard agrees with the trades table because every fill
   that is booked on a day is told to a guard that has rolled to that day. *)

Books(t) == t \in [Days -> DayTotals]

\* _roll keeps a guard in agreement with the trades table, also over midnight.
LEMMA RollAgrees ==
    ASSUME Inv, NEW g \in GuardType, NEW t, Books(t), GuardAgrees(g, t)
    PROVE  /\ GuardAgrees(Roll(g, now), t)
           /\ Roll(g, now).day = now /\ Roll(g, now) \in GuardType
           /\ g.day = now => Roll(g, now) = g
<1>1. /\ now \in Days /\ now \in Nat /\ now # 0 /\ base \in [Days -> DayTotals]
      /\ MaxDailyLoss \in Nat
    BY EngineAssumption, RiskAssumption DEF Inv, TypeOK, Days
<1>2. CASE g.day = now
    BY <1>1, <1>2 DEF Roll, GuardType
<1>3. CASE g.day # now
    <2>1. Roll(g, now) = [day |-> now, traded |-> 0, realized |-> 0, halted |-> FALSE]
        BY <1>3 DEF Roll
    <2>2. /\ g.day < now /\ g.day \in Nat
          /\ t[now].closed = base[now].closed /\ t[now].opened = base[now].opened
        BY <1>1, <1>3 DEF GuardAgrees, GuardType
    <2>3. t[now] \in DayTotals /\ base[now] \in DayTotals
        BY <1>1 DEF Books
    <2>4. /\ t[now].closed - base[now].closed = 0
          /\ t[now].opened - base[now].opened = 0
        BY <2>2, <2>3 DEF DayTotals
    <2>5. \A d \in Days : d > now => d > g.day
        BY <1>1, <2>2 DEF Days
    <2> QED BY <1>1, <1>3, <2>1, <2>2, <2>4, <2>5 DEF GuardAgrees, GuardType
<1> QED BY <1>2, <1>3

\* _check_loss keeps a guard in agreement, and makes it halted when it must.
LEMMA CheckAgrees ==
    ASSUME NEW g \in GuardType, NEW t,
           g.day <= now,
           \A d \in Days : d > g.day => /\ t[d].closed = base[d].closed
                                        /\ t[d].opened = base[d].opened,
           g.day # 0 => /\ g.realized = t[g.day].closed - base[g.day].closed
                        /\ g.traded = t[g.day].opened - base[g.day].opened
    PROVE  GuardAgrees(CheckLoss(g), t)
<1>1. /\ CheckLoss(g).day = g.day
      /\ CheckLoss(g).realized = g.realized
      /\ CheckLoss(g).traded = g.traded
      /\ MaxDailyLoss > 0 /\ -g.realized >= MaxDailyLoss => CheckLoss(g).halted
    BY DEF CheckLoss, GuardType
<1> QED BY <1>1 DEF GuardAgrees

\* can_open leaves a guard of today that agrees, and is no less halted.
LEMMA AskAgrees ==
    ASSUME Inv, NEW g \in GuardType, NEW t, Books(t), GuardAgrees(g, t)
    PROVE  /\ GuardAgrees(CanOpenGuard(g, now), t)
           /\ CanOpenGuard(g, now).day = now
           /\ CanOpenGuard(g, now) \in GuardType
           /\ g.day = now /\ g.halted => CanOpenGuard(g, now).halted
<1> DEFINE r == Roll(g, now)
<1>1. /\ GuardAgrees(r, t) /\ r.day = now /\ r \in GuardType
      /\ g.day = now => r = g
    BY RollAgrees
<1> HIDE DEF r
<1>2. /\ GuardAgrees(CheckLoss(r), t)
      /\ CheckLoss(r).day = now /\ CheckLoss(r) \in GuardType
      /\ r.halted => CheckLoss(r).halted
    BY <1>1, CheckAgrees, CheckLossType DEF GuardAgrees, CheckLoss, GuardType
<1>3. CanOpenGuard(g, now) = IF TradingEnabled THEN CheckLoss(r) ELSE r
    BY DEF CanOpenGuard, r
<1> QED BY <1>1, <1>2, <1>3

\* record_close beside the CLOSE row.
LEMMA CloseAgrees ==
    ASSUME Inv, NEW g \in GuardType, NEW t, Books(t), GuardAgrees(g, t), NEW x \in Int
    PROVE  GuardAgrees(RecordClose(g, x, now), [t EXCEPT ![now].closed = @ + x])
<1> DEFINE r == Roll(g, now)
           u == [t EXCEPT ![now].closed = @ + x]
<1>1. /\ GuardAgrees(r, t) /\ r.day = now /\ r \in GuardType
    BY RollAgrees
<1>2. RecordClose(g, x, now) = CheckLoss([r EXCEPT !.realized = @ + x])
    BY DEF RecordClose
<1> HIDE DEF r
<1>3. now \in Days /\ now \in Nat /\ now # 0 /\ base \in [Days -> DayTotals]
    BY EngineAssumption DEF Inv, TypeOK, Days
<1>4. t[now] \in DayTotals /\ base[now] \in DayTotals
    BY <1>3 DEF Books
<1>5. /\ u[now].closed = t[now].closed + x /\ u[now].opened = t[now].opened
      /\ \A d \in Days : d > now => u[d] = t[d]
    BY <1>3, <1>4 DEF Books, DayTotals, Days
<1> HIDE DEF u
<1>6. /\ r.realized = t[now].closed - base[now].closed
      /\ r.traded = t[now].opened - base[now].opened
      /\ \A d \in Days : d > now => /\ t[d].closed = base[d].closed
                                    /\ t[d].opened = base[d].opened
    BY <1>1, <1>3 DEF GuardAgrees
<1> DEFINE q == [r EXCEPT !.realized = @ + x]
<1>7. q \in GuardType /\ q.day = now /\ q.traded = r.traded /\ q.realized = r.realized + x
    BY <1>1 DEF GuardType
<1> HIDE DEF q
<1>8. q.realized = u[now].closed - base[now].closed
    BY <1>4, <1>5, <1>6, <1>7 DEF DayTotals
<1>9. GuardAgrees(CheckLoss(q), u)
    BY <1>3, <1>5, <1>6, <1>7, <1>8, CheckAgrees
<1> QED BY <1>2, <1>9 DEF q, u

\* record_open beside the OPEN row.
LEMMA OpenAgrees ==
    ASSUME Inv, NEW g \in GuardType, NEW t, Books(t), GuardAgrees(g, t), NEW x \in Int
    PROVE  GuardAgrees(RecordOpen(g, x, now), [t EXCEPT ![now].opened = @ + x])
<1> DEFINE r == Roll(g, now)
           u == [t EXCEPT ![now].opened = @ + x]
<1>1. /\ GuardAgrees(r, t) /\ r.day = now /\ r \in GuardType
    BY RollAgrees
<1>2. RecordOpen(g, x, now) = [r EXCEPT !.traded = @ + x]
    BY DEF RecordOpen
<1> HIDE DEF r
<1>3. now \in Days /\ now \in Nat /\ now # 0 /\ base \in [Days -> DayTotals]
    BY EngineAssumption DEF Inv, TypeOK, Days
<1>4. t[now] \in DayTotals /\ base[now] \in DayTotals
    BY <1>3 DEF Books
<1>5. /\ u[now].opened = t[now].opened + x /\ u[now].closed = t[now].closed
      /\ \A d \in Days : d > now => u[d] = t[d]
    BY <1>3, <1>4 DEF Books, DayTotals, Days
<1> HIDE DEF u
<1>6. /\ r.realized = t[now].closed - base[now].closed
      /\ r.traded = t[now].opened - base[now].opened
      /\ \A d \in Days : d > now => /\ t[d].closed = base[d].closed
                                    /\ t[d].opened = base[d].opened
      /\ MaxDailyLoss > 0 /\ -r.realized >= MaxDailyLoss => r.halted
    BY <1>1, <1>3 DEF GuardAgrees
<1> DEFINE q == [r EXCEPT !.traded = @ + x]
<1>7. /\ q.day = now /\ q.halted = r.halted
      /\ q.realized = r.realized /\ q.traded = r.traded + x
    BY <1>1 DEF GuardType
<1> HIDE DEF q
<1>8. q.traded = u[now].opened - base[now].opened
    BY <1>1, <1>4, <1>5, <1>6, <1>7 DEF DayTotals, GuardType
<1>9. GuardAgrees(q, u)
    BY <1>3, <1>5, <1>6, <1>7, <1>8 DEF GuardAgrees
<1> QED BY <1>2, <1>9 DEF q, u

\* What run has lost and opened by the totals t.
Cap(t) == MaxTradePerDay > 0 =>
              \A d \in Days : t[d].opened - base[d].opened <= MaxTradePerDay

Loss(t) == base[now].closed - t[now].closed

\* A guard of today that has not halted stands for losses below the limit.
LEMMA LossOfHalted ==
    ASSUME Inv, NEW g \in GuardType, NEW t, Books(t), GuardAgrees(g, t),
           MaxDailyLoss > 0, ~(g.day = now /\ g.halted)
    PROVE  Loss(t) < MaxDailyLoss
<1>1. /\ now \in Days /\ now \in Nat /\ now # 0 /\ base \in [Days -> DayTotals]
      /\ MaxDailyLoss \in Nat
    BY EngineAssumption, RiskAssumption DEF Inv, TypeOK, Days
<1>2. t[now] \in DayTotals /\ base[now] \in DayTotals
    BY <1>1 DEF Books
<1>3. /\ t[now].closed \in Int /\ base[now].closed \in Int
      /\ g.day \in Nat /\ g.realized \in Int
    BY <1>2 DEF DayTotals, GuardType
<1>4. CASE g.day = now
    BY <1>1, <1>3, <1>4 DEF GuardAgrees, Loss
<1>5. CASE g.day # now
    BY <1>1, <1>3, <1>5 DEF GuardAgrees, Loss
<1> QED BY <1>4, <1>5

\* An attempt to open against totals t and a guard g that agree: whatever the guard
\* answers, the books agree afterwards and the cap holds; a position is opened only
\* when today's losses are below the limit.
LEMMA OpenObeys ==
    ASSUME Inv, NEW g \in GuardType, NEW t, Books(t), GuardAgrees(g, t), Cap(t),
           Opened \in Int,
           \/ /\ nextId' = nextId /\ Opened = 0
              /\ guard' = CanOpenGuard(g, now)
           \/ /\ nextId' = nextId + 1
              /\ CanOpen(CanOpenGuard(g, now), Opened)
              /\ guard' = RecordOpen(CanOpenGuard(g, now), Opened, now)
    PROVE  LET u == [t EXCEPT ![now].opened = @ + Opened] IN
           /\ GuardAgrees(guard', u)
           /\ Cap(u)
           /\ nextId' # nextId =>
                 /\ ~(g.day = now /\ g.halted)
                 /\ MaxDailyLoss > 0 => Loss(u) < MaxDailyLoss
<1> DEFINE asked == CanOpenGuard(g, now)
           x == Opened
           u == [t EXCEPT ![now].opened = @ + x]
<1>1. /\ GuardAgrees(asked, t) /\ asked.day = now /\ asked \in GuardType
      /\ g.day = now /\ g.halted => asked.halted
    BY AskAgrees
<1>2. /\ now \in Days /\ now \in Nat /\ now # 0 /\ base \in [Days -> DayTotals]
      /\ MaxTradePerDay \in Nat /\ nextId \in Nat
    BY EngineAssumption, RiskAssumption DEF Inv, TypeOK, Days
<1>3. t[now] \in DayTotals /\ base[now] \in DayTotals
    BY <1>2 DEF Books
<1>4. x \in Int
    OBVIOUS
<1> HIDE DEF asked, x
<1>5. /\ u[now].opened = t[now].opened + x /\ u[now].closed = t[now].closed
      /\ \A d \in Days : d # now => u[d] = t[d]
    BY <1>2, <1>3, <1>4 DEF Books, DayTotals
<1>6. CASE nextId' = nextId /\ x = 0 /\ guard' = asked
    <2>1. u = t
        BY <1>2, <1>3, <1>6 DEF Books, DayTotals
    <2> HIDE DEF u
    <2> QED BY <1>1, <1>6, <2>1 DEF x, u
<1>7. CASE nextId' = nextId + 1 /\ CanOpen(asked, x) /\ guard' = RecordOpen(asked, x, now)
    <2>1. GuardAgrees(guard', u)
        BY <1>1, <1>4, <1>7, OpenAgrees
    <2> HIDE DEF u
    <2>2. ~asked.halted /\ (MaxTradePerDay > 0 => asked.traded + x <= MaxTradePerDay)
        BY <1>7 DEF CanOpen
    <2>3. asked.traded = t[now].opened - base[now].opened
        BY <1>1, <1>2 DEF GuardAgrees
    <2>4. Cap(u)
        <3> SUFFICES ASSUME MaxTradePerDay > 0, NEW d \in Days
                     PROVE  u[d].opened - base[d].opened <= MaxTradePerDay
            BY DEF Cap
        <3>1. CASE d = now
            BY <1>1, <1>2, <1>3, <1>4, <1>5, <2>2, <2>3, <3>1 DEF DayTotals, GuardType
        <3>2. CASE d # now
            BY <1>5, <3>2 DEF Cap
        <3> QED BY <3>1, <3>2
    <2>5. MaxDailyLoss > 0 => Loss(t) < MaxDailyLoss
        BY <1>1, <2>2, LossOfHalted
    <2>6. MaxDailyLoss > 0 => Loss(u) < MaxDailyLoss
        BY <1>5, <2>5 DEF Loss
    <2> QED BY <1>1, <2>1, <2>2, <2>4, <2>6 DEF u, x
<1> QED BY <1>6, <1>7 DEF asked, x

\* A close against the books.
LEMMA CloseObeys ==
    ASSUME Inv, Cap(trades), GuardMatchesLedger, NEW x \in Int
    PROVE  LET t == [trades EXCEPT ![now].closed = @ + x]
               g == RecordClose(guard, x, now)
           IN /\ Books(t) /\ g \in GuardType /\ GuardAgrees(g, t)
              /\ Cap(t)
              /\ guard.day = now /\ guard.halted => g.day = now /\ g.halted
<1> DEFINE t == [trades EXCEPT ![now].closed = @ + x]
           g == RecordClose(guard, x, now)
           r == Roll(guard, now)
<1>1. /\ now \in Days /\ now \in Nat /\ guard \in GuardType
      /\ trades \in [Days -> DayTotals]
    BY EngineAssumption DEF Inv, TypeOK, Days
<1>2. Books(t) /\ g \in GuardType
    BY <1>1, BookClosed, GuardTypes DEF Books
<1>3. GuardAgrees(g, t)
    BY <1>1, CloseAgrees DEF Books, GuardMatchesLedger
<1>4. \A d \in Days : t[d].opened = trades[d].opened
    BY <1>1 DEF DayTotals
<1>5. Cap(t)
    <2> HIDE DEF t
    <2> QED BY <1>4 DEF Cap
<1>6. guard.day = now /\ guard.halted => g.day = now /\ g.halted
    BY <1>1 DEF RecordClose, CheckLoss, Roll, GuardType
<1> QED BY <1>2, <1>3, <1>5, <1>6

Armed == pc \in {"top", "outage", "drain", "mech"} => ~guard.halted

LimitsInv == GuardMatchesLedger /\ Cap(trades) /\ now <= day /\ Armed

\* Steps that neither fill nor consult the guard; the clock may have moved.
LEMMA LimitsSteady ==
    ASSUME Inv, LimitsInv, UNCHANGED <<guard, base>>, now' \in Days, now <= now',
           \A d \in Days : /\ trades'[d].closed = trades[d].closed
                           /\ trades'[d].opened = trades[d].opened
    PROVE  GuardMatchesLedger' /\ Cap(trades)'
<1>1. now \in Nat /\ guard \in GuardType /\ now' \in Nat
    BY EngineAssumption DEF Inv, TypeOK, Days
<1>2. guard.day <= now' /\ (guard.day # 0 => guard.day \in Days)
    <2>1. guard.day \in Nat /\ guard.day <= now
        BY <1>1 DEF LimitsInv, GuardMatchesLedger, GuardAgrees, GuardType
    <2>2. now \in 1 .. MaxDay /\ MaxDay \in Nat
        BY EngineAssumption DEF Inv, TypeOK, Days
    <2> QED BY <1>1, <2>1, <2>2 DEF Days
<1>3. GuardMatchesLedger'
    BY <1>2 DEF LimitsInv, GuardMatchesLedger, GuardAgrees
<1>4. Cap(trades)'
    BY DEF LimitsInv, Cap
<1> QED BY <1>3, <1>4

\* The steps of engine.run around a tick keep the limits; a halted guard ends it.
LEMMA LimitsLoop ==
    ASSUME Inv, LimitsInv, Inv',
           Start \/ LoopExit \/ FetchOk \/ FetchFails \/ DrainDone \/ Die
    PROVE  LimitsInv'
<1>1. now \in Days /\ day \in Days /\ now <= day /\ now <= now
    BY EngineAssumption DEF Inv, TypeOK, Days, LimitsInv
<1>2. CASE Start
    <2>1. /\ guard' = FreshGuard /\ base' = trades /\ pc' = "top"
          /\ UNCHANGED <<trades, now, day>>
        BY <1>2 DEF Start, ledgerVars, passVars
    <2>2. /\ trades \in [Days -> DayTotals] /\ MaxDailyLoss \in Nat /\ MaxTradePerDay \in Nat
          /\ now \in Nat
        BY RiskAssumption, EngineAssumption DEF Inv, TypeOK, Days
    <2>3. GuardMatchesLedger'
        BY <2>1, <2>2 DEF GuardMatchesLedger, GuardAgrees, FreshGuard
    <2>4. \A d \in Days : trades[d].opened - trades[d].opened = 0
        BY <2>2 DEF DayTotals
    <2>5. Cap(trades)'
        BY <2>1, <2>2, <2>4 DEF Cap
    <2> QED BY <1>1, <2>1, <2>3, <2>5 DEF LimitsInv, Armed, FreshGuard
<1>3. CASE LoopExit \/ DrainDone \/ Die
    <2>1. /\ UNCHANGED <<guard, base, now, day, trades>>
          /\ pc' \in {"off"} \/ pc \in {"drain", "outage"}
        BY <1>3 DEF LoopExit, DrainDone, Die, ledgerVars, passVars, runVars
    <2>2. GuardMatchesLedger' /\ Cap(trades)'
        BY <1>1, <2>1, LimitsSteady
    <2> QED BY <1>1, <2>1, <2>2 DEF LimitsInv, Armed
<1>4. CASE FetchOk \/ FetchFails
    <2>1. /\ UNCHANGED <<guard, base, day, trades>> /\ pc = "top"
          /\ now' = day \/ now' = now
        BY <1>4 DEF FetchOk, FetchFails, ledgerVars, passVars, runVars
    <2>2. GuardMatchesLedger' /\ Cap(trades)'
        BY <1>1, <2>1, LimitsSteady
    <2> QED BY <1>1, <2>1, <2>2 DEF LimitsInv, Armed, Days
<1> QED BY <1>2, <1>3, <1>4

\* The steps of run_tick between the passes keep the limits.
LEMMA LimitsPasses ==
    ASSUME Inv, LimitsInv, Inv',
           MechPass \/ AiPass \/ ListOrphans \/ EndPass \/ AfterTick
    PROVE  LimitsInv'
<1>1. now \in Days /\ day \in Days /\ now <= day /\ now <= now
    BY EngineAssumption DEF Inv, TypeOK, Days, LimitsInv
<1>2. /\ UNCHANGED <<guard, base, day, trades>>
      /\ now' = day \/ now' = now
    BY DEF MechPass, AiPass, ListOrphans, EndPass, AfterTick, BeginPass,
           ledgerVars, passVars, runVars
<1>3. pc' \in {"top", "outage", "drain", "mech"} => ~guard.halted
    BY DEF MechPass, AiPass, ListOrphans, EndPass, AfterTick, BeginPass
<1>4. GuardMatchesLedger' /\ Cap(trades)'
    BY <1>1, <1>2, LimitsSteady
<1> QED BY <1>1, <1>2, <1>3, <1>4 DEF LimitsInv, Armed, Days

\* The Controller and the clock keep the limits.
LEMMA LimitsControls ==
    ASSUME Inv, LimitsInv, Inv', Operator \/ NextDay
    PROVE  LimitsInv'
<1>1. now \in Days /\ day \in Days /\ now <= day /\ now <= now
    BY EngineAssumption DEF Inv, TypeOK, Days, LimitsInv
<1>2. /\ UNCHANGED <<guard, base, trades, now, pc>>
      /\ day' = day \/ day' = day + 1
    BY DEF Operator, NextDay, Pause, Resume, Stop, CloseTrade, SetEnabled,
           engineVars, ledgerVars, passVars, runVars
<1>3. GuardMatchesLedger' /\ Cap(trades)'
    BY <1>1, <1>2, LimitsSteady
<1> QED BY <1>1, <1>2, <1>3 DEF LimitsInv, Armed, Days

\* A manual exit is booked in a column of its own: the guard is not told.
LEMMA LimitsDrain ==
    ASSUME Inv, LimitsInv, Inv', DrainCommand
    PROVE  LimitsInv'
<1>1. now \in Days /\ now <= day /\ now <= now /\ trades \in [Days -> DayTotals]
    BY EngineAssumption DEF Inv, TypeOK, Days, LimitsInv
<1>2. UNCHANGED <<guard, base, now, day, pc>>
    BY DEF DrainCommand, passVars, runVars
<1>3. \A d \in Days : /\ trades'[d].closed = trades[d].closed
                      /\ trades'[d].opened = trades[d].opened
    <2> DEFINE x == NetPnl(PositionOf(Head(queue)), candle.close)
    <2>1. trades' = trades \/ trades' = [trades EXCEPT ![now].manual = @ + x]
        BY DEF DrainCommand
    <2> HIDE DEF x
    <2> QED BY <1>1, <2>1 DEF DayTotals
<1>4. GuardMatchesLedger' /\ Cap(trades)'
    BY <1>1, <1>2, <1>3, LimitsSteady
<1> QED BY <1>1, <1>2, <1>4 DEF LimitsInv, Armed

\* PositionManager.close with the guard keeps the limits.
LEMMA LimitsClose ==
    ASSUME Inv, LimitsInv, NEW p \in Positions, NEW price \in Int,
           CloseAt(p, price), UNCHANGED <<now, base>>
    PROVE  GuardMatchesLedger' /\ Cap(trades)'
<1> DEFINE x == NetPnl(p, price)
<1>1. /\ x \in Int
      /\ trades' = [trades EXCEPT ![now].closed = @ + x]
      /\ guard' = RecordClose(guard, x, now)
    BY NetType DEF CloseAt
<1> HIDE DEF x
<1>2. GuardAgrees(guard', trades') /\ Cap(trades')
    BY <1>1, CloseObeys DEF LimitsInv
<1> QED BY <1>2 DEF GuardMatchesLedger, GuardAgrees, Cap

\* The risk check of one position keeps the limits.
LEMMA LimitsRisk ==
    ASSUME Inv, LimitsInv, Inv', ManageRisk \/ SweepOrphan
    PROVE  LimitsInv'
<1>1. /\ UNCHANGED <<now, day, base>> /\ now \in Days /\ now <= now
      /\ pc' \notin {"top", "outage", "drain", "mech"}
    BY EngineAssumption DEF ManageRisk, SweepOrphan, passVars, runVars, Inv, TypeOK, Days
<1>2. \/ \E p \in Positions : CloseAt(p, RiskExitPrice(p, candle))
      \/ UNCHANGED <<trades, guard>>
    <2>1. CASE ManageRisk
        BY <2>1, ThePosition DEF ManageRisk
    <2>2. CASE SweepOrphan
        BY <2>2 DEF SweepOrphan, Inv, TypeOK
    <2> QED BY <2>1, <2>2
<1>3. GuardMatchesLedger' /\ Cap(trades)'
    BY <1>1, <1>2, RiskExitType, LimitsClose, LimitsSteady
<1> QED BY <1>1, <1>3 DEF LimitsInv, Armed

\* A consult: the limits hold after it, and an entry it makes was within them.
LEMMA LimitsConsult ==
    ASSUME Inv, LimitsInv, Inv', Consult
    PROVE  /\ LimitsInv'
           /\ nextId' # nextId /\ MaxDailyLoss > 0 =>
                 RunLoss(now) < MaxDailyLoss /\ RunLoss(now)' < MaxDailyLoss
<1>1. PICK s \in Strategies :
         \/ ConsultRaises(s) \/ DecideHold(s) \/ DecideClose(s)
         \/ DecideEnter(s) \/ DecideReverse(s)
    BY DEF Consult
<1>2. /\ UNCHANGED <<now, day, base>> /\ pc' = "manage"
      /\ now \in Days /\ now <= now /\ guard \in GuardType /\ now \in Nat
      /\ trades \in [Days -> DayTotals] /\ candle.close \in Int
    <2>1. Consulted(s)
        BY <1>1 DEF ConsultRaises, DecideHold, DecideClose, DecideEnter, DecideReverse, Answered
    <2>2. UNCHANGED <<now, day, base>> /\ pc' = "manage"
        BY <2>1 DEF Consulted, passVars
    <2> QED BY <2>2, EngineAssumption DEF Inv, TypeOK, Days
<1>3. LimitsInv' <=> GuardAgrees(guard', trades') /\ Cap(trades')
    BY <1>2 DEF LimitsInv, Armed, GuardMatchesLedger, GuardAgrees, Cap
<1>4. /\ RunLoss(now) = Loss(trades)
      /\ RunLoss(now)' = base[now].closed - trades'[now].closed
    BY <1>2 DEF RunLoss, Loss
<1>5. MaxDailyLoss > 0 /\ ~(guard.day = now /\ guard.halted) => Loss(trades) < MaxDailyLoss
    BY <1>2, LossOfHalted DEF LimitsInv, GuardMatchesLedger, Books
<1>6. CASE ConsultRaises(s) \/ DecideHold(s)
    <2>1. UNCHANGED <<nextId, trades, guard>>
        BY <1>6 DEF ConsultRaises, DecideHold
    <2>2. GuardMatchesLedger' /\ Cap(trades)'
        BY <1>2, <2>1, LimitsSteady
    <2> QED BY <1>2, <2>1, <2>2 DEF LimitsInv, Armed
<1>7. CASE DecideClose(s)
    <2>1. nextId' = nextId /\ ~Flat(s) /\ CloseAt(PositionOf(s), candle.close)
        BY <1>7 DEF DecideClose
    <2>2. GuardMatchesLedger' /\ Cap(trades)'
        BY <1>2, <2>1, ThePosition, LimitsClose
    <2> QED BY <1>2, <2>1, <2>2 DEF LimitsInv, Armed
<1>8. CASE DecideEnter(s)
    <2>1. PICK side \in Sides, size \in Sizes, aligned \in Alignments :
             IF MayEnter(aligned)
             THEN OpenOrVeto(s, side, size, guard, open)
             ELSE UNCHANGED <<open, nextId, guard>>
        BY <1>8 DEF DecideEnter
    <2>2. trades' = [trades EXCEPT ![now].opened = @ + Opened]
        BY <1>8 DEF DecideEnter
    <2>3. CASE MayEnter(aligned)
        <3>1. \A p \in open : p.strategy # s
            BY <1>8 DEF DecideEnter, Flat, OpenOf
        <3>2. OpenOrVeto(s, side, size, guard, open)
            BY <2>1, <2>3
        <3>3. /\ Opened \in Int
              /\ \/ /\ nextId' = nextId /\ Opened = 0
                    /\ guard' = CanOpenGuard(guard, now)
                 \/ /\ nextId' = nextId + 1
                    /\ CanOpen(CanOpenGuard(guard, now), Opened)
                    /\ guard' = RecordOpen(CanOpenGuard(guard, now), Opened, now)
            BY <3>1, <3>2, <1>2, OpenLeaves
        <3>4. /\ GuardAgrees(guard', trades') /\ Cap(trades')
              /\ nextId' # nextId => /\ ~(guard.day = now /\ guard.halted)
                                     /\ MaxDailyLoss > 0 => Loss(trades') < MaxDailyLoss
            BY <3>3, <2>2, <1>2, OpenObeys DEF LimitsInv, GuardMatchesLedger, Books
        <3> QED BY <3>4, <1>2, <1>3, <1>4, <1>5 DEF Loss
    <2>4. CASE ~MayEnter(aligned)
        <3>1. UNCHANGED <<open, nextId, guard>> /\ Opened = 0
            BY <2>1, <2>4 DEF Opened
        <3>2. trades' = trades
            BY <3>1, <2>2, <1>2 DEF DayTotals
        <3>3. GuardMatchesLedger' /\ Cap(trades)'
            BY <1>2, <3>1, <3>2, LimitsSteady
        <3> QED BY <1>2, <3>1, <3>3 DEF LimitsInv, Armed
    <2> QED BY <2>3, <2>4
<1>9. CASE DecideReverse(s)
    <2> DEFINE p == PositionOf(s)
               side == IF p.side = LONG THEN SHORT ELSE LONG
               pnl == NetPnl(p, candle.close)
               g == RecordClose(guard, pnl, now)
               t == [trades EXCEPT ![now].closed = @ + pnl]
    <2>1. p \in Positions /\ OpenOf(s) = {p}
        BY <1>9, ThePosition DEF DecideReverse
    <2>2. pnl \in Int /\ side \in Sides
        BY <1>2, <2>1, NetType DEF Sides
    <2>3. PICK size \in Sizes, aligned \in Alignments :
             /\ IF FlipEnabled /\ MayEnter(aligned)
                THEN OpenOrVeto(s, side, size, g, open \ {p})
                ELSE open' = open \ {p} /\ guard' = g /\ UNCHANGED nextId
             /\ trades' = [trades EXCEPT ![now].closed = @ + pnl,
                                         ![now].opened = @ + Opened]
        BY <1>9, Zenon DEF DecideReverse
    <2>4. \A q \in open \ {p} : q.strategy # s
        BY <2>1 DEF OpenOf
    <2>5. /\ Books(t) /\ g \in GuardType /\ GuardAgrees(g, t) /\ Cap(t)
          /\ guard.day = now /\ guard.halted => g.day = now /\ g.halted
        BY <2>2, CloseObeys DEF LimitsInv
    <2> HIDE DEF p, side, pnl, g
    <2>6. CASE FlipEnabled /\ MayEnter(aligned)
        <3>1. OpenOrVeto(s, side, size, g, open \ {p})
            BY <2>3, <2>6
        <3>2. /\ Opened \in Int
              /\ \/ /\ nextId' = nextId /\ Opened = 0
                    /\ guard' = CanOpenGuard(g, now)
                 \/ /\ nextId' = nextId + 1
                    /\ CanOpen(CanOpenGuard(g, now), Opened)
                    /\ guard' = RecordOpen(CanOpenGuard(g, now), Opened, now)
            BY <2>2, <2>4, <2>5, <3>1, OpenLeaves
        <3>3. trades' = [t EXCEPT ![now].opened = @ + Opened]
            BY <1>2, <2>2, <2>3, <3>2, FlipBooks
        <3> HIDE DEF t
        <3>4. /\ GuardAgrees(guard', trades') /\ Cap(trades')
              /\ nextId' # nextId => /\ ~(g.day = now /\ g.halted)
                                     /\ MaxDailyLoss > 0 => Loss(trades') < MaxDailyLoss
            BY <2>5, <3>2, <3>3, OpenObeys
        <3> QED BY <2>5, <3>4, <1>2, <1>3, <1>4, <1>5 DEF Loss
    <2>7. CASE ~(FlipEnabled /\ MayEnter(aligned))
        <3>1. guard' = g /\ nextId' = nextId /\ Opened = 0
            BY <2>3, <2>7 DEF Opened
        <3>2. trades' = [t EXCEPT ![now].opened = @ + 0]
            BY <1>2, <2>2, <2>3, <3>1, FlipBooks
        <3> HIDE DEF t
        <3>3. trades' = t
            <4>1. t[now] \in DayTotals
                BY <1>2, <2>5 DEF Books
            <4>2. [t[now] EXCEPT !.opened = @ + 0] = t[now]
                BY <4>1 DEF DayTotals
            <4> QED BY <1>2, <2>5, <3>2, <4>2 DEF Books
        <3> QED BY <2>5, <3>1, <3>3, <1>3
    <2> QED BY <2>6, <2>7
<1> QED BY <1>1, <1>6, <1>7, <1>8, <1>9

\* A fresh guard agrees with an empty ledger.
LEMMA LimitsInit == Init => LimitsInv
<1> SUFFICES ASSUME Init PROVE LimitsInv
    OBVIOUS
<1>1. MaxDailyLoss \in Nat /\ MaxTradePerDay \in Nat
    BY RiskAssumption
<1> QED BY <1>1 DEF Init, LimitsInv, Armed, GuardMatchesLedger, GuardAgrees, FreshGuard, Cap

\* Every step keeps the limits, and opens only within them.
LEMMA LimitsNext ==
    ASSUME Inv, LimitsInv, Inv', [Next]_vars
    PROVE  /\ LimitsInv'
           /\ nextId' # nextId /\ MaxDailyLoss > 0 =>
                 RunLoss(now) < MaxDailyLoss /\ RunLoss(now)' < MaxDailyLoss
<1>1. CASE Consult
    BY <1>1, LimitsConsult
<1>2. CASE Start \/ LoopExit \/ FetchOk \/ FetchFails \/ DrainDone \/ Die
    BY <1>2, LimitsLoop DEF Start, LoopExit, FetchOk, FetchFails, DrainDone, Die, ledgerVars
<1>3. CASE MechPass \/ AiPass \/ ListOrphans \/ EndPass \/ AfterTick
    BY <1>3, LimitsPasses DEF MechPass, AiPass, ListOrphans, EndPass, AfterTick, ledgerVars
<1>4. CASE DrainCommand
    BY <1>4, LimitsDrain DEF DrainCommand
<1>5. CASE ManageRisk \/ SweepOrphan
    BY <1>5, LimitsRisk DEF ManageRisk, SweepOrphan
<1>6. CASE Operator \/ NextDay
    BY <1>6, LimitsControls DEF Operator, NextDay, Pause, Resume, Stop, CloseTrade,
       SetEnabled, engineVars, ledgerVars
<1>7. CASE UNCHANGED vars
    <2>1. /\ UNCHANGED <<guard, base, trades, now, day, pc, nextId>>
          /\ now \in Days /\ now <= now
        BY <1>7, EngineAssumption DEF vars, ledgerVars, passVars, runVars, Inv, TypeOK, Days
    <2>2. GuardMatchesLedger' /\ Cap(trades)'
        BY <2>1, LimitsSteady
    <2> QED BY <2>1, <2>2 DEF LimitsInv, Armed
<1> QED BY <1>1, <1>2, <1>3, <1>4, <1>5, <1>6, <1>7 DEF Next, Engine, Work

\* The guard, in memory and told of every fill, never disagrees with the trades
\* table about what this run has lost and opened.
THEOREM GuardNeverDrifts == Spec => []GuardMatchesLedger
<1>1. Inv /\ LimitsInv /\ Inv' /\ [Next]_vars => LimitsInv'
    BY LimitsNext
<1>2. LimitsInv => GuardMatchesLedger
    BY DEF LimitsInv
<1> QED BY <1>1, <1>2, LimitsInit, EngineInvariant, PTL DEF Spec

\* The daily cap holds of every run, over passes, flips and midnights.
THEOREM CapHolds == Spec => []DailyCapRespected
<1>1. Inv /\ LimitsInv /\ Inv' /\ [Next]_vars => LimitsInv'
    BY LimitsNext
<1>2. LimitsInv => DailyCapRespected
    BY DEF LimitsInv, Cap, DailyCapRespected, RunOpened
<1> QED BY <1>1, <1>2, LimitsInit, EngineInvariant, PTL DEF Spec

\* The kill switch: no step of any run opens a position on a day whose recorded
\* losses have reached the limit, before or after the step.
THEOREM KillSwitch == Spec => NoEntryAfterDailyLoss
<1>1. Inv /\ LimitsInv /\ Inv' /\ [Next]_vars => LimitsInv'
    BY LimitsNext
<1>2. Inv /\ LimitsInv /\ Inv' /\ [Next]_vars =>
          [nextId' # nextId /\ MaxDailyLoss > 0 =>
              RunLoss(now) < MaxDailyLoss /\ RunLoss(now)' < MaxDailyLoss]_vars
    BY LimitsNext
<1> QED BY <1>1, <1>2, LimitsInit, EngineInvariant, PTL DEF Spec, NoEntryAfterDailyLoss

\* ... and a run whose losses of the day have reached it never ticks again.
THEOREM LossEndsRun == Spec => []DailyLossEndsRun
<1>1. Inv /\ LimitsInv /\ Inv' /\ [Next]_vars => LimitsInv'
    BY LimitsNext
<1>2. Inv /\ LimitsInv => DailyLossEndsRun
    <2> SUFFICES ASSUME Inv, LimitsInv, pc = "top", MaxDailyLoss > 0
                 PROVE  RunLoss(now) < MaxDailyLoss
        BY DEF DailyLossEndsRun
    <2>1. ~guard.halted /\ guard \in GuardType /\ Books(trades)
        BY DEF LimitsInv, Armed, Inv, TypeOK, Books
    <2>2. Loss(trades) < MaxDailyLoss
        BY <2>1, LossOfHalted DEF LimitsInv, GuardMatchesLedger
    <2> QED BY <2>2 DEF Loss, RunLoss
<1> QED BY <1>1, <1>2, LimitsInit, EngineInvariant, PTL DEF Spec

\* Together: a run keeps its daily limits.
THEOREM LimitsKept == Spec => []DailyLimitsHold
<1>1. DailyCapRespected /\ DailyLossEndsRun => DailyLimitsHold
    BY DEF DailyLimitsHold
<1> QED BY <1>1, CapHolds, LossEndsRun, PTL

------------------------------------------------------------------------------
(* The stops.  A pass of process_tick looks at the position of each skill before it
   consults the skill, so that of the positions the pass has found only those of
   skills it has not come to yet may have their stop inside the candle. *)

Passing == pc \in {"manage", "consult", "orphans"}

\* The skills whose position this pass has looked at.
LookedAt(i) == i < idx \/ (i = idx /\ pc = "consult")

\* What the pass under way has opened, it opened at this candle, and unpaused only.
Opening ==
    /\ passFirst <= nextId
    /\ pausedAt => nextId = passFirst
    /\ \A p \in open : p.id >= passFirst => p.opened = candle.time

Enforced ==
    /\ \A i \in 1 .. Len(Roster) : LookedAt(i) =>
           \A p \in open : p.strategy = Roster[i] /\ p.id < passFirst => ~Crossed(p, candle)
    /\ pc = "orphans" => idx > Len(Roster)
    /\ pc = "orphans" /\ Enumerates =>
           \A p \in open : p.strategy \notin Elements(Roster) =>
                               p.id \in sweep \/ ~Crossed(p, candle)

\* The switches were looked at just before the consult; only a consult trips a breaker.
Admitted == pc = "consult" => idx \in 1 .. Len(Roster) /\ Roster[idx] \notin tripped

StopsInv == (Passing => Opening /\ Enforced) /\ Admitted /\ AiStopsEveryTick

\* Outside of a pass there is nothing to keep.
LEMMA StopsOutside ==
    ASSUME pc' \notin {"manage", "consult", "orphans", "tail"}
    PROVE  StopsInv'
BY DEF StopsInv, Passing, Admitted, AiStopsEveryTick

\* The Controller and the clock touch nothing a pass relies on.
LEMMA StopsControls ==
    ASSUME StopsInv, Operator \/ NextDay \/ UNCHANGED vars
    PROVE  StopsInv'
<1>1. UNCHANGED <<open, nextId, candle, pc, pass, pausedAt, passFirst, idx, sweep, mech,
                  tripped>>
    BY DEF Operator, NextDay, Pause, Resume, Stop, CloseTrade, SetEnabled, vars,
           engineVars, ledgerVars, passVars, runVars
<1> QED BY <1>1 DEF StopsInv, Passing, Opening, Enforced, LookedAt, Admitted, Roster,
                    Elements, AiStopsEveryTick, Crossed, HitStop, HitLiquidation,
                    StopPrice, LiquidationPrice

\* A pass begins with nothing opened and nothing looked at.
LEMMA StopsBegin ==
    ASSUME Inv, Inv', BeginPass("mech") \/ BeginPass("ai"), UNCHANGED <<open, nextId>>
    PROVE  StopsInv'
<1>1. passFirst' = nextId' /\ idx' = 1 /\ pc' = "manage"
    BY DEF BeginPass
<1>2. nextId' \in Nat /\ \A p \in open' : p.id \in Nat /\ p.id < nextId'
    BY DEF Inv, TypeOK, IdsFresh, Positions
<1>3. Opening'
    BY <1>1, <1>2 DEF Opening
<1>4. \A i \in 1 .. Len(Roster)' : ~LookedAt(i)'
    BY <1>1 DEF LookedAt
<1>5. Enforced'
    BY <1>1, <1>4 DEF Enforced
<1> QED BY <1>1, <1>3, <1>5 DEF StopsInv, Admitted, AiStopsEveryTick

\* Closing positions at the candle of the pass keeps what a pass relies on.
LEMMA StopsShrink ==
    ASSUME Inv, StopsInv, Passing, open' \subseteq open,
           UNCHANGED <<nextId, candle, pass, pausedAt, passFirst, mech>>
    PROVE  /\ Opening' /\ Roster' = Roster
           /\ \A p \in open' : Crossed(p, candle)' = Crossed(p, candle)
           /\ \A i \in 1 .. Len(Roster) : LookedAt(i) =>
                  \A p \in open' : p.strategy = Roster[i] /\ p.id < passFirst
                                       => ~Crossed(p, candle)
BY DEF StopsInv, Opening, Enforced, Roster, Crossed, HitStop, HitLiquidation,
       StopPrice, LiquidationPrice

\* manage_risk: what it leaves of the skill's position is not crossed.
LEMMA StopsManage ==
    ASSUME Inv, StopsInv, ManageRisk
    PROVE  StopsInv'
<1> DEFINE s == Roster[idx]
<1>1. /\ pc = "manage" /\ idx \in 1 .. Len(Roster) /\ Passing /\ Len(Roster) \in Nat
      /\ UNCHANGED <<nextId, candle, pass, pausedAt, passFirst, sweep, mech, tripped>>
    BY EngineAssumption DEF ManageRisk, passVars, runVars, Passing, Inv, TypeOK, Roster
<1>2. open' \subseteq open /\ \A p \in open' : p.strategy = s => ~Crossed(p, candle)
    <2>1. CASE ~Flat(s) /\ Crossed(PositionOf(s), candle)
        BY <2>1, ThePosition DEF ManageRisk, CloseAt, OpenOf
    <2>2. CASE ~(~Flat(s) /\ Crossed(PositionOf(s), candle))
        <3>1. open' = open
            BY <2>2 DEF ManageRisk
        <3>2. ASSUME NEW p \in open, p.strategy = s PROVE ~Crossed(p, candle)
            <4>1. ~Flat(s) /\ p = PositionOf(s)
                BY <3>2, ThePosition DEF OpenOf, Flat
            <4> QED BY <2>2, <4>1
        <3> QED BY <3>1, <3>2
    <2> QED BY <2>1, <2>2
<1>3. /\ Opening' /\ Roster' = Roster
      /\ \A p \in open' : Crossed(p, candle)' = Crossed(p, candle)
      /\ \A i \in 1 .. Len(Roster) : LookedAt(i) =>
             \A p \in open' : p.strategy = Roster[i] /\ p.id < passFirst => ~Crossed(p, candle)
    BY <1>1, <1>2, StopsShrink
<1>4. \/ s \in tripped \cup disabled /\ idx' = idx + 1 /\ pc' = "manage"
      \/ s \notin tripped /\ idx' = idx /\ pc' = "consult"
    BY <1>1 DEF ManageRisk, Skipped
<1>5. \A i \in 1 .. Len(Roster) : LookedAt(i)' => LookedAt(i) \/ i = idx
    BY <1>1, <1>4 DEF LookedAt
<1>6. Enforced'
    BY <1>1, <1>2, <1>3, <1>4, <1>5 DEF Enforced
<1>7. Admitted'
    BY <1>1, <1>3, <1>4 DEF Admitted
<1> QED BY <1>3, <1>4, <1>6, <1>7 DEF StopsInv, AiStopsEveryTick

\* PositionManager.open adds one row, of the strategy it is called for, or none.
LEMMA OneRowAdded ==
    ASSUME NEW s, NEW side, NEW size, NEW g, NEW kept \in SUBSET open,
           OpenOrVeto(s, side, size, g, kept)
    PROVE  /\ \A p \in open' \ open : /\ p.id = nextId /\ p.opened = candle.time
                                      /\ p.strategy = s
           /\ nextId' \in {nextId, nextId + 1}
<1> DEFINE fill == FillPrice(candle.close, side, TRUE)
           new == [id |-> nextId, strategy |-> s, side |-> side, entry |-> fill,
                   size |-> size, opened |-> candle.time]
<1>1. \/ open' = kept \cup {new} /\ nextId' = nextId + 1
      \/ open' = kept /\ nextId' = nextId
    BY Zenon DEF OpenOrVeto
<1>2. new.id = nextId /\ new.opened = candle.time /\ new.strategy = s
    OBVIOUS
<1> HIDE DEF new
<1> QED BY <1>1, <1>2

\* What a consult does to the positions: it closes, and opens one at most, of the
\* strategy it consulted, unless the pass began paused.
LEMMA ConsultOpens ==
    ASSUME Inv, Consult
    PROVE  /\ pc = "consult" /\ pc' = "manage" /\ idx' = idx + 1
           /\ UNCHANGED <<lastCandleTime, candle, pass, pausedAt, passFirst, sweep, mech>>
           /\ \A p \in open' \ open : /\ p.id = nextId /\ p.opened = candle.time
                                      /\ p.strategy = Roster[idx]
           /\ nextId' \in {nextId, nextId + 1}
           /\ pausedAt => nextId' = nextId /\ open' \subseteq open
<1>1. PICK s \in Strategies :
         \/ ConsultRaises(s) \/ DecideHold(s) \/ DecideClose(s)
         \/ DecideEnter(s) \/ DecideReverse(s)
    BY DEF Consult
<1>2. Consulted(s)
    BY <1>1 DEF ConsultRaises, DecideHold, DecideClose, DecideEnter, DecideReverse, Answered
<1>3. /\ pc = "consult" /\ pc' = "manage" /\ idx' = idx + 1 /\ s = Roster[idx]
      /\ UNCHANGED <<lastCandleTime, candle, pass, pausedAt, passFirst, sweep, mech>>
    BY <1>2 DEF Consulted, passVars
<1>4. /\ \A p \in open' \ open : /\ p.id = nextId /\ p.opened = candle.time
                                 /\ p.strategy = s
      /\ nextId' \in {nextId, nextId + 1}
      /\ pausedAt => nextId' = nextId /\ open' \subseteq open
    <2>1. CASE ConsultRaises(s) \/ DecideHold(s) \/ DecideClose(s)
        BY <2>1 DEF ConsultRaises, DecideHold, DecideClose, CloseAt
    <2>2. CASE DecideEnter(s)
        <3>1. PICK side \in Sides, size \in Sizes, aligned \in Alignments :
                 IF MayEnter(aligned)
                 THEN OpenOrVeto(s, side, size, guard, open)
                 ELSE UNCHANGED <<open, nextId, guard>>
            BY <2>2 DEF DecideEnter
        <3>2. CASE MayEnter(aligned)
            BY <3>1, <3>2, OneRowAdded DEF MayEnter
        <3>3. CASE ~MayEnter(aligned)
            BY <3>1, <3>3
        <3> QED BY <3>2, <3>3
    <2>3. CASE DecideReverse(s)
        <3> DEFINE p == PositionOf(s)
                   side == IF p.side = LONG THEN SHORT ELSE LONG
                   g == RecordClose(guard, NetPnl(p, candle.close), now)
        <3>1. PICK size \in Sizes, aligned \in Alignments :
                 IF FlipEnabled /\ MayEnter(aligned)
                 THEN OpenOrVeto(s, side, size, g, open \ {p})
                 ELSE open' = open \ {p} /\ guard' = g /\ UNCHANGED nextId
            BY <2>3, Zenon DEF DecideReverse
        <3> HIDE DEF p, side, g
        <3>2. CASE FlipEnabled /\ MayEnter(aligned)
            BY <3>1, <3>2, OneRowAdded DEF MayEnter
        <3>3. CASE ~(FlipEnabled /\ MayEnter(aligned))
            BY <3>1, <3>3
        <3> QED BY <3>2, <3>3
    <2> QED BY <1>1, <2>1, <2>2, <2>3
<1> QED BY <1>3, <1>4

\* A row of positions is added by a consult and by nothing else.
LEMMA RowsAddedByConsult ==
    ASSUME [Next]_vars, ~Consult
    PROVE  open' \subseteq open
<1>1. CASE Start \/ LoopExit \/ FetchOk \/ FetchFails \/ DrainDone \/ Die
    BY <1>1 DEF Start, LoopExit, FetchOk, FetchFails, DrainDone, Die, ledgerVars
<1>2. CASE MechPass \/ AiPass \/ ListOrphans \/ EndPass \/ AfterTick
    BY <1>2 DEF MechPass, AiPass, ListOrphans, EndPass, AfterTick, ledgerVars
<1>3. CASE DrainCommand \/ ManageRisk \/ SweepOrphan
    BY <1>3 DEF DrainCommand, ManageRisk, SweepOrphan, CloseAt
<1>4. CASE Operator \/ NextDay \/ UNCHANGED vars
    BY <1>4 DEF Operator, NextDay, Pause, Resume, Stop, CloseTrade, SetEnabled,
                engineVars, ledgerVars, vars
<1> QED BY <1>1, <1>2, <1>3, <1>4 DEF Next, Engine, Work

\* AUTOINCREMENT: an id names one open row.
IdsUnique == \A p, q \in open : p.id = q.id => p = q

\* Only a consult adds a row, under an id of its own.
LEMMA IdsNext ==
    ASSUME Inv, Inv', IdsUnique, [Next]_vars
    PROVE  IdsUnique'
<1>1. CASE Consult
    <2>1. \A p \in open' \ open : p.id = nextId /\ p.strategy = Roster[idx]
        BY <1>1, ConsultOpens
    <2>2. \A p \in open : p.id < nextId /\ p.id \in Nat /\ nextId \in Nat
        BY DEF Inv, IdsFresh, TypeOK, Positions
    <2>3. ASSUME NEW p \in open', NEW q \in open', p.id = q.id PROVE p = q
        <3>1. CASE p \in open /\ q \in open
            BY <3>1, <2>3 DEF IdsUnique
        <3>2. CASE p \notin open /\ q \notin open
            BY <3>2, <2>1 DEF Inv, OnePositionPerStrategy
        <3>3. p \in open <=> q \in open
            BY <2>1, <2>2, <2>3
        <3> QED BY <3>1, <3>2, <3>3
    <2> QED BY <2>3 DEF IdsUnique
<1>2. CASE ~Consult
    <2>1. open' \subseteq open
        BY <1>2, RowsAddedByConsult
    <2> QED BY <2>1 DEF IdsUnique
<1> QED BY <1>1, <1>2

\* A consult opens nothing among the positions the pass is answerable for.
LEMMA StopsConsult ==
    ASSUME Inv, StopsInv, Consult
    PROVE  StopsInv'
<1>1. /\ pc = "consult" /\ pc' = "manage" /\ idx' = idx + 1 /\ Passing
      /\ UNCHANGED <<candle, pass, pausedAt, passFirst, sweep, mech>>
      /\ \A p \in open' \ open : p.id = nextId /\ p.opened = candle.time
      /\ nextId' \in {nextId, nextId + 1} /\ nextId \in Nat /\ passFirst \in Nat
      /\ pausedAt => nextId' = nextId /\ open' \subseteq open
      /\ idx \in Nat
    BY ConsultOpens DEF Passing, Inv, TypeOK
<1>2. Opening'
    BY <1>1 DEF StopsInv, Opening
<1>3. Roster' = Roster /\ \A p : Crossed(p, candle)' = Crossed(p, candle)
    BY <1>1 DEF Roster, Crossed, HitStop, HitLiquidation, StopPrice, LiquidationPrice
<1>4. \A i \in 1 .. Len(Roster) : LookedAt(i)' => LookedAt(i)
    BY <1>1 DEF LookedAt, StopsInv, Admitted
<1>5. passFirst <= nextId
    BY <1>1 DEF StopsInv, Opening
<1>6. ASSUME NEW i \in 1 .. Len(Roster), LookedAt(i)',
             NEW p \in open', p.strategy = Roster[i], p.id < passFirst
      PROVE  ~Crossed(p, candle)
    BY <1>1, <1>4, <1>5, <1>6 DEF StopsInv, Enforced
<1>7. Enforced'
    BY <1>1, <1>3, <1>6 DEF Enforced
<1> QED BY <1>1, <1>2, <1>7 DEF StopsInv, Admitted, AiStopsEveryTick

\* Listing the orphans and closing one after the other leaves none crossed that is
\* not on the list, if the ledger can list them.
LEMMA StopsSweep ==
    ASSUME Inv, IdsUnique, StopsInv, ListOrphans \/ SweepOrphan
    PROVE  StopsInv'
<1>1. /\ Passing /\ idx > Len(Roster) /\ idx' = idx /\ pc' = "orphans"
      /\ UNCHANGED <<nextId, candle, pass, pausedAt, passFirst, mech>>
    BY DEF ListOrphans, SweepOrphan, ledgerVars, passVars, runVars, Passing, StopsInv, Enforced
<1>2. open' \subseteq open
    BY DEF ListOrphans, SweepOrphan, CloseAt, ledgerVars
<1>3. /\ Opening' /\ Roster' = Roster
      /\ \A p \in open' : Crossed(p, candle)' = Crossed(p, candle)
      /\ \A i \in 1 .. Len(Roster) : LookedAt(i) =>
             \A p \in open' : p.strategy = Roster[i] /\ p.id < passFirst => ~Crossed(p, candle)
    BY <1>1, <1>2, StopsShrink
<1>4. idx \in Nat /\ Len(Roster) \in Nat
    BY EngineAssumption DEF Inv, TypeOK, Roster
<1>5. \A i \in 1 .. Len(Roster) : LookedAt(i)
    BY <1>1, <1>4 DEF LookedAt
<1>6. Enumerates => \A p \in open' : p.strategy \notin Elements(Roster) =>
                                         p.id \in sweep' \/ ~Crossed(p, candle)
    <2>1. CASE ListOrphans
        BY <2>1 DEF ListOrphans, Orphans, ledgerVars
    <2>2. CASE SweepOrphan
        <3>1. PICK q \in open :
                 /\ sweep' = sweep \ {q.id}
                 /\ IF Crossed(q, candle) THEN CloseAt(q, RiskExitPrice(q, candle))
                                          ELSE UNCHANGED <<open, trades, guard>>
            BY <2>2 DEF SweepOrphan
        <3>2. ASSUME NEW p \in open', Crossed(p, candle) PROVE p # q
            BY <3>1, <3>2 DEF CloseAt
        <3>3. \A p \in open' : p.id = q.id => p = q
            BY <1>2 DEF IdsUnique
        <3> QED BY <2>2, <3>1, <3>2, <3>3, <1>2 DEF SweepOrphan, StopsInv, Passing, Enforced
    <2> QED BY <2>1, <2>2
<1>7. Enforced'
    BY <1>1, <1>3, <1>5, <1>6 DEF Enforced, Elements
<1> QED BY <1>1, <1>3, <1>7 DEF StopsInv, Admitted, AiStopsEveryTick

\* Every step keeps the stops.
LEMMA StopsNext ==
    ASSUME Inv, Inv', IdsUnique, StopsInv, [Next]_vars
    PROVE  StopsInv'
<1>1. CASE Start \/ LoopExit \/ FetchOk \/ FetchFails \/ DrainDone \/ Die \/ DrainCommand
    <2>1. pc' \notin {"manage", "consult", "orphans", "tail"}
        BY <1>1 DEF Start, LoopExit, FetchOk, FetchFails, DrainDone, Die, DrainCommand
    <2> QED BY <2>1, StopsOutside
<1>2. CASE MechPass
    <2>1. BeginPass("mech") \/ pc' = "ai"
        BY <1>2 DEF MechPass
    <2> QED BY <1>2, <2>1, StopsBegin, StopsOutside DEF MechPass, ledgerVars
<1>3. CASE AiPass
    <2>1. CASE AiRoster # <<>>
        BY <1>3, <2>1, StopsBegin DEF AiPass, ledgerVars
    <2>2. CASE AiRoster = <<>>
        <3>1. pc' = "tail" /\ Elements(AiRoster) = {}
            BY <1>3, <2>2 DEF AiPass, Elements
        <3> QED BY <3>1 DEF StopsInv, Passing, Admitted, AiStopsEveryTick
    <2> QED BY <2>1, <2>2
<1>4. CASE ManageRisk
    BY <1>4, StopsManage
<1>5. CASE Consult
    BY <1>5, StopsConsult
<1>6. CASE ListOrphans \/ SweepOrphan
    BY <1>6, StopsSweep
<1>7. CASE EndPass
    <2>1. CASE pass = "mech"
        BY <1>7, <2>1, StopsOutside DEF EndPass
    <2>2. CASE pass # "mech"
        <3>1. /\ pc = "orphans" /\ Passing /\ pc' = "tail"
              /\ UNCHANGED <<open, candle>> /\ Roster = AiRoster
              /\ idx \in Nat /\ Len(Roster) \in Nat
            BY <1>7, <2>2, EngineAssumption DEF EndPass, Roster, Passing, Inv, TypeOK
        <3>2. ASSUME NEW p \in open, p.strategy \in Elements(AiRoster), p.opened < candle.time
              PROVE  ~Crossed(p, candle)
            <4>1. /\ p.opened \in Nat /\ candle.time \in Nat
                  /\ p.id \in Nat /\ passFirst \in Nat
                BY DEF Inv, TypeOK, Positions
            <4>2. p.id < passFirst
                BY <3>1, <3>2, <4>1 DEF StopsInv, Opening
            <4>3. PICK i \in 1 .. Len(Roster) : p.strategy = Roster[i]
                BY <3>1, <3>2 DEF Elements
            <4>4. LookedAt(i)
                BY <3>1 DEF StopsInv, Enforced, LookedAt
            <4> QED BY <3>1, <4>2, <4>3, <4>4 DEF StopsInv, Enforced
        <3>3. AiStopsEveryTick'
            BY <3>1, <3>2 DEF AiStopsEveryTick, Crossed, HitStop, HitLiquidation,
                              StopPrice, LiquidationPrice
        <3> QED BY <3>1, <3>3 DEF StopsInv, Passing, Admitted
    <2> QED BY <2>1, <2>2
<1>8. CASE AfterTick
    <2>1. pc' \in {"off", "top"}
        BY <1>8 DEF AfterTick
    <2> QED BY <2>1, StopsOutside
<1>9. CASE Operator \/ NextDay \/ UNCHANGED vars
    BY <1>9, StopsControls
<1> QED BY <1>1, <1>2, <1>3, <1>4, <1>5, <1>6, <1>7, <1>8, <1>9 DEF Next, Engine, Work

\* Before the first run no pass is under way.
LEMMA StopsInit == Init => IdsUnique /\ StopsInv
BY DEF Init, IdsUnique, StopsInv, Passing, Admitted, AiStopsEveryTick

\* The parts of a pass's account hold at every moment of every run.
THEOREM StopsInvariant == Spec => [](Inv /\ IdsUnique /\ StopsInv)
<1>1. Inv /\ Inv' /\ IdsUnique /\ StopsInv /\ [Next]_vars => (IdsUnique /\ StopsInv)'
    BY IdsNext, StopsNext
<1> QED BY <1>1, StopsInit, EngineInvariant, PTL DEF Spec

\* A pass that is over has left no position it found, of any skill of its roster, with
\* its stop or liquidation price inside the candle: none switched off, none tripped.
THEOREM StopsEnforced == Spec => []PassEnforcesStops
<1>1. Inv /\ StopsInv => PassEnforcesStops
    <2> SUFFICES ASSUME Inv, StopsInv, pc = "orphans", NEW p \in open, p.id < passFirst,
                        p.strategy \in Elements(Roster)
                 PROVE  ~Crossed(p, candle)
        BY DEF PassEnforcesStops
    <2>1. Passing /\ idx \in Nat /\ Len(Roster) \in Nat
        BY EngineAssumption DEF Passing, Inv, TypeOK, Roster
    <2>2. PICK i \in 1 .. Len(Roster) : p.strategy = Roster[i]
        BY DEF Elements
    <2>3. LookedAt(i)
        BY <2>1 DEF StopsInv, Enforced, LookedAt
    <2> QED BY <2>1, <2>2, <2>3 DEF StopsInv, Enforced
<1> QED BY <1>1, StopsInvariant, PTL

\* No tick ends with an AI trader's position, brought into the candle, beyond its stop.
THEOREM AiStopsEnforced == Spec => []AiStopsEveryTick
<1>1. StopsInv => AiStopsEveryTick
    BY DEF StopsInv
<1> QED BY <1>1, StopsInvariant, PTL

\* A pass that began paused opens nothing, whatever the operator does in the middle.
THEOREM PausedOpensNothing == Spec => []PausedPassOpensNothing
<1>1. StopsInv => PausedPassOpensNothing
    BY DEF StopsInv, Passing, Opening, PausedPassOpensNothing
<1> QED BY <1>1, StopsInvariant, PTL

\* With a ledger that can list its open positions (a Database; not the Repository that
\* engine.run opens, see the run orphan_unmanaged) no orphan survives a pass with its
\* stop inside the candle.
THEOREM OrphansManaged ==
    ASSUME Enumerates
    PROVE  Spec => []OrphansEnforced
<1>1. StopsInv => OrphansEnforced
    BY DEF StopsInv, Passing, Enforced, OrphansEnforced, LiveRoster, Roster
<1> QED BY <1>1, StopsInvariant, PTL

\* A strategy whose breaker has tripped opens nothing in this run, not even in the
\* pass that tripped it.
THEOREM BreakerHolds == Spec => TrippedOpensNothing
<1>1. Inv /\ StopsInv /\ [Next]_vars => [\A p \in open' \ open : p.strategy \notin tripped]_vars
    <2> SUFFICES ASSUME Inv, StopsInv, Next, NEW p \in open' \ open
                 PROVE  p.strategy \notin tripped
        OBVIOUS
    <2>1. CASE Consult
        BY <2>1, ConsultOpens DEF StopsInv, Admitted
    <2>2. CASE ~Consult
        BY <2>2, RowsAddedByConsult
    <2> QED BY <2>1, <2>2
<1> QED BY <1>1, StopsInvariant, PTL DEF Spec, TrippedOpensNothing

------------------------------------------------------------------------------
(* Once per candle.  It holds of a config that names no skill twice (build_skills
   does not look) and of runs that do not die in the middle of the mechanical pass
   (last_candle_time is written after it). *)

NoRepeats(r) == \A i, j \in 1 .. Len(r) : r[i] = r[j] => i = j
Orderly == "die" \notin Controls /\ \A r \in MechRosters : NoRepeats(r)

MechUnderWay == Passing /\ pass = "mech"
Fresh(s) == consultedAt[s] # candle.time

\* The skills still to come have not seen the candle; when no mechanical pass is under
\* way, none has, unless the ledger knows its time.
OnceInv ==
    /\ NoRepeats(mech)
    /\ \A s \in Strategies : consultedAt[s] <= candle.time
    /\ IF MechUnderWay
       THEN pc # "orphans" => \A i \in idx .. Len(mech) : Fresh(mech[i])
       ELSE lastCandleTime # candle.time => \A s \in Strategies : Fresh(s)

\* The skills of a roster are strategies.
LEMMA MechStrategies ==
    ASSUME Inv
    PROVE  Len(mech) \in Nat /\ \A i \in 1 .. Len(mech) : mech[i] \in Strategies
BY DEF Inv, TypeOK

\* The steps of engine.run around a tick: a candle can only get younger.
LEMMA OnceLoop ==
    ASSUME Inv, Orderly, OnceInv,
           Start \/ LoopExit \/ FetchOk \/ FetchFails \/ DrainDone \/ DrainCommand
    PROVE  OnceInv'
<1>0. ~MechUnderWay /\ ~MechUnderWay'
    BY DEF Start, LoopExit, FetchOk, FetchFails, DrainDone, DrainCommand, MechUnderWay, Passing
<1>1. CASE FetchOk
    <2>1. candle'.time \in {candle.time, candle.time + 1}
        <3>1. PICK c \in Quotes : candle' = c
            BY <1>1 DEF FetchOk
        <3> QED BY <3>1 DEF Quotes
    <2>2. /\ candle.time \in Nat
          /\ consultedAt \in [Strategies -> Nat]
          /\ UNCHANGED <<consultedAt, lastCandleTime, mech>>
        BY <1>1 DEF FetchOk, ledgerVars, Inv, TypeOK
    <2>3. lastCandleTime # candle'.time => \A s \in Strategies : consultedAt[s] # candle'.time
        BY <1>0, <2>1, <2>2 DEF OnceInv, Fresh
    <2>4. \A s \in Strategies : consultedAt[s] <= candle'.time
        BY <2>1, <2>2 DEF OnceInv
    <2> QED BY <1>0, <2>2, <2>3, <2>4 DEF OnceInv, NoRepeats, Fresh
<1>2. CASE Start
    BY <1>0, <1>2 DEF Start, Orderly, OnceInv, NoRepeats, Fresh, ledgerVars
<1>3. CASE LoopExit \/ FetchFails \/ DrainDone \/ DrainCommand
    <2>1. UNCHANGED <<candle, consultedAt, lastCandleTime, mech, idx>> /\ pc # "orphans"
        BY <1>3 DEF LoopExit, FetchFails, DrainDone, DrainCommand, ledgerVars, runVars
    <2> QED BY <1>0, <2>1 DEF OnceInv, NoRepeats, Fresh
<1> QED BY <1>1, <1>2, <1>3

\* The mechanical pass begins on a candle the ledger does not know, and makes it known.
LEMMA OncePasses ==
    ASSUME Inv, OnceInv,
           MechPass \/ AiPass \/ ListOrphans \/ SweepOrphan \/ EndPass \/ AfterTick
    PROVE  OnceInv'
<1>1. UNCHANGED <<candle, consultedAt, mech>>
    BY DEF MechPass, AiPass, ListOrphans, SweepOrphan, EndPass, AfterTick, runVars
<1>2. CASE MechPass
    <2>1. UNCHANGED lastCandleTime /\ ~MechUnderWay
        BY <1>2 DEF MechPass, ledgerVars, MechUnderWay, Passing
    <2>2. CASE mech # <<>> /\ NewCandle
        <3>1. idx' = 1 /\ lastCandleTime # candle.time
            BY <1>2, <2>2 DEF MechPass, BeginPass, NewCandle
        <3> QED BY <1>1, <2>1, <3>1, MechStrategies DEF OnceInv, NoRepeats, Fresh
    <2>3. CASE ~(mech # <<>> /\ NewCandle)
        <3>1. ~MechUnderWay'
            BY <1>2, <2>3 DEF MechPass, MechUnderWay, Passing
        <3> QED BY <1>1, <2>1, <3>1 DEF OnceInv, NoRepeats, Fresh
    <2> QED BY <2>2, <2>3
<1>3. CASE AiPass
    <2>1. UNCHANGED lastCandleTime /\ ~MechUnderWay /\ ~MechUnderWay'
        BY <1>3 DEF AiPass, BeginPass, ledgerVars, MechUnderWay, Passing
    <2> QED BY <1>1, <2>1 DEF OnceInv, NoRepeats, Fresh
<1>4. CASE ListOrphans \/ SweepOrphan
    <2>1. /\ UNCHANGED lastCandleTime /\ (MechUnderWay' <=> MechUnderWay)
          /\ pc' = "orphans"
        BY <1>4 DEF ListOrphans, SweepOrphan, ledgerVars, passVars, MechUnderWay, Passing
    <2> QED BY <1>1, <2>1 DEF OnceInv, NoRepeats, Fresh
<1>5. CASE EndPass
    <2>1. /\ ~MechUnderWay'
          /\ \/ pass = "mech" /\ lastCandleTime' = candle'.time
             \/ ~MechUnderWay /\ lastCandleTime' = lastCandleTime
        BY <1>1, <1>5 DEF EndPass, MechUnderWay, Passing
    <2> QED BY <1>1, <2>1 DEF OnceInv, NoRepeats, Fresh
<1>6. CASE AfterTick
    <2>1. UNCHANGED lastCandleTime /\ ~MechUnderWay /\ ~MechUnderWay'
        BY <1>6 DEF AfterTick, ledgerVars, MechUnderWay, Passing
    <2> QED BY <1>1, <2>1 DEF OnceInv, NoRepeats, Fresh
<1> QED BY <1>2, <1>3, <1>4, <1>5, <1>6

\* A decision is remembered, and the pass goes on to a skill that is another one.
LEMMA OnceConsult ==
    ASSUME Inv, StopsInv, OnceInv, Consult
    PROVE  OnceInv' /\ (pass = "mech" => Fresh(Roster[idx]))
<1>1. /\ pc = "consult" /\ pc' = "manage" /\ idx' = idx + 1 /\ idx \in Nat \ {0}
      /\ UNCHANGED <<lastCandleTime, candle, pass, mech>>
      /\ (MechUnderWay' <=> MechUnderWay) /\ Passing
    BY ConsultOpens DEF MechUnderWay, Passing, Inv, TypeOK
<1>2. /\ consultedAt' = IF pass = "mech"
                        THEN [consultedAt EXCEPT ![Roster[idx]] = candle.time] ELSE consultedAt
    BY DEF Consult, ConsultRaises, DecideHold, DecideClose, DecideEnter, DecideReverse,
           Answered, Consulted
<1>3. consultedAt \in [Strategies -> Nat] /\ candle.time \in Nat
    BY DEF Inv, TypeOK
<1>4. CASE pass = "mech"
    <2>1. Roster = mech /\ idx \in 1 .. Len(mech) /\ MechUnderWay
        BY <1>1, <1>4 DEF Roster, StopsInv, Admitted, MechUnderWay
    <2>2. Fresh(mech[idx])
        BY <1>1, <2>1 DEF OnceInv
    <2>3. \A i \in idx + 1 .. Len(mech) : mech[i] # mech[idx] /\ Fresh(mech[i]) /\ mech[i] \in Strategies
        BY <1>1, <2>1, MechStrategies DEF OnceInv, NoRepeats
    <2>4. \A i \in idx + 1 .. Len(mech) : Fresh(mech[i])'
        BY <1>1, <1>2, <1>3, <1>4, <2>1, <2>3 DEF Fresh
    <2>5. \A s \in Strategies : consultedAt'[s] <= candle.time
        BY <1>2, <1>3, <1>4 DEF OnceInv
    <2> QED BY <1>1, <2>1, <2>2, <2>4, <2>5 DEF OnceInv, NoRepeats
<1>5. CASE pass # "mech"
    <2>1. ~MechUnderWay
        BY <1>5 DEF MechUnderWay
    <2> QED BY <1>1, <1>2, <1>5, <2>1 DEF OnceInv, NoRepeats, Fresh
<1> QED BY <1>4, <1>5

\* Every step of an orderly engine keeps it.
LEMMA OnceNext ==
    ASSUME Inv, StopsInv, Orderly, OnceInv, [Next]_vars
    PROVE  OnceInv'
<1>1. CASE Start \/ LoopExit \/ FetchOk \/ FetchFails \/ DrainDone \/ DrainCommand
    BY <1>1, OnceLoop
<1>2. CASE MechPass \/ AiPass \/ ListOrphans \/ SweepOrphan \/ EndPass \/ AfterTick
    BY <1>2, OncePasses
<1>3. CASE Consult
    BY <1>3, OnceConsult
<1>4. CASE ManageRisk
    <2>1. /\ UNCHANGED <<candle, consultedAt, lastCandleTime, mech, pass>>
          /\ pc = "manage" /\ pc' \in {"manage", "consult"}
          /\ idx' \in {idx, idx + 1} /\ idx \in Nat /\ Len(mech) \in Nat
        BY <1>4, MechStrategies DEF ManageRisk, passVars, runVars, Inv, TypeOK
    <2>2. MechUnderWay' <=> MechUnderWay
        BY <2>1 DEF MechUnderWay, Passing
    <2>3. \A i \in idx' .. Len(mech) : i \in idx .. Len(mech)
        BY <2>1
    <2> QED BY <2>1, <2>2, <2>3 DEF OnceInv, NoRepeats, Fresh
<1>5. CASE Die
    BY <1>5 DEF Die, Orderly
<1>6. CASE Operator \/ NextDay \/ UNCHANGED vars
    <2>1. UNCHANGED <<candle, consultedAt, lastCandleTime, mech, idx, pc, pass>>
        BY <1>6 DEF Operator, NextDay, Pause, Resume, Stop, CloseTrade, SetEnabled, vars,
                    engineVars, ledgerVars, passVars, runVars
    <2>2. MechUnderWay' = MechUnderWay
        BY <2>1 DEF MechUnderWay, Passing
    <2> QED BY <2>1, <2>2 DEF OnceInv, NoRepeats, Fresh
<1> QED BY <1>1, <1>2, <1>3, <1>4, <1>5, <1>6 DEF Next, Engine, Work

\* A mechanical skill decides on a candle at most once, over stops, restarts and
\* rosters that change in between.
THEOREM DecidesOnce ==
    ASSUME Orderly
    PROVE  Spec => OncePerCandle
<1>1. Init => OnceInv
    BY DEF Init, OnceInv, NoRepeats, MechUnderWay, Passing, Fresh
<1>2. Inv /\ StopsInv /\ OnceInv /\ [Next]_vars => OnceInv'
    BY OnceNext
<1>3. Inv /\ StopsInv /\ OnceInv /\ [Next]_vars =>
          [pc = "consult" /\ pc' = "manage" /\ pass = "mech" =>
              consultedAt[Roster[idx]] # candle.time]_vars
    <2> SUFFICES ASSUME Inv, StopsInv, OnceInv, Next, pc = "consult", pc' = "manage",
                        pass = "mech"
                 PROVE  Fresh(Roster[idx])
        BY DEF Fresh
    <2>1. idx \in 1 .. Len(mech) /\ Roster = mech /\ MechUnderWay /\ idx \in Nat /\ Len(mech) \in Nat
        BY MechStrategies DEF StopsInv, Admitted, Roster, MechUnderWay, Passing, Inv, TypeOK
    <2> QED BY <2>1 DEF OnceInv
<1> QED BY <1>1, <1>2, <1>3, StopsInvariant, PTL DEF Spec, OncePerCandle
==============================================================================
