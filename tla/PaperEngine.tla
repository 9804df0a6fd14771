----------------------------- MODULE PaperEngine -----------------------------
(***************************************************************************)
(* The trading engine: engine.run driving SkillRunner.run_tick, which      *)
(* drains the manual commands, runs process_tick over the mechanical       *)
(* skills (once per new candle) and over the AI traders (every tick), and  *)
(* stops the loop once the daily risk guard has halted.  The operator's    *)
(* controls (web.Controller) and the wall clock move between any two of    *)
(* its steps; a strategy consult is where most of a tick's time goes.      *)
(*                                                                         *)
(* Wallets and the single commits of the ledger are the subject of         *)
(* LedgerCommits; here opening and closing a position are one step each,   *)
(* and the trades table is kept as per-day totals of what it records.      *)
(***************************************************************************)
EXTENDS Sequences, FiniteSets, DailyRisk, PaperBroker

CONSTANTS
    Strategies,     \* every strategy name the ledger can hold
    MechRosters,    \* the enabled_skills lists the config may name, in order
    AiRoster,       \* the AI traders, in order
    Shapes,         \* candle shapes: records [low, close, high]
    Sizes,          \* position sizes the Advisor may plan
    Threshold,      \* error_boundary_threshold
    FlipEnabled,    \* reversal_flip_enabled
    Alignments,     \* outcomes of the regime gate: {TRUE} when it is off
    Enumerates,     \* hasattr(ledger, "get_open_positions"): TRUE of Database, FALSE of
                    \* the Repository that engine.run opens
    Controls,       \* which operator controls are used; "die" if runs may break off
    MaxTime, MaxDay, MaxOpens, MaxQueue, MaxRuns   \* bounds

ASSUME EngineAssumption ==
    /\ MechRosters \subseteq Seq(Strategies)
    /\ AiRoster \in Seq(Strategies)
    /\ Shapes \subseteq [low : Nat, close : Nat, high : Nat]
    /\ \A c \in Shapes : c.low <= c.close /\ c.close <= c.high
    /\ Sizes \subseteq Nat \ {0}
    /\ Threshold \in Nat \ {0}
    /\ FlipEnabled \in BOOLEAN
    /\ Alignments \subseteq BOOLEAN
    /\ Enumerates \in BOOLEAN
    /\ Controls \subseteq {"pause", "stop", "close", "toggle", "die"}
    /\ MaxTime \in Nat /\ MaxDay \in Nat \ {0} /\ MaxOpens \in Nat
    /\ MaxQueue \in Nat /\ MaxRuns \in Nat

VARIABLES
    \* the ledger (SQLite), which outlives a run of the engine
    open,            \* rows of positions with status 'open'
    nextId,          \* the next positions.id (AUTOINCREMENT)
    lastCandleTime,  \* state['last_candle_time'], 0 when absent
    trades,          \* trades by day: CLOSE pnl, manual CLOSE pnl, OPEN notional
    \* the market: the newest candle the feed has shown (its last may be forming)
    candle,
    day,             \* the wall-clock day
    \* the operator's side (Controller)
    queue,           \* queued close commands
    paused, stop, disabled,
    \* one run of the engine
    pc, mech, haveCandle, pass, idx, pausedAt, now, sweep,
    guard, fails, tripped, runs,
    \* history: what the properties compare with
    base,            \* trades as this run found them
    passFirst,       \* nextId when the current pass started
    consultedAt      \* time of the candle a mechanical skill last decided on

ledgerVars == <<open, nextId, lastCandleTime, trades>>
passVars   == <<pass, pausedAt, now, passFirst>>
userVars   == <<queue, paused, stop, disabled>>
runVars    == <<mech, haveCandle, fails, tripped, runs, base>>
vars == <<ledgerVars, candle, day, userVars, pc, passVars, idx, sweep, guard,
          runVars, consultedAt>>

Days == 1 .. MaxDay
Elements(s) == {s[i] : i \in 1 .. Len(s)}
LiveRoster == Elements(mech) \cup Elements(AiRoster)     \* runner.skills
Roster == IF pass = "mech" THEN mech ELSE AiRoster       \* this pass's skills
OpenOf(s) == {p \in open : p.strategy = s}
FlatThisCandle(s) == \A p \in OpenOf(s) : p.opened # candle.time      \* mutant
Flat(s) == OpenOf(s) = {}
\* get_open_position: the newest open row of the strategy
PositionOf(s) == CHOOSE p \in OpenOf(s) : \A q \in OpenOf(s) : q.id <= p.id

Init ==
    /\ open = {} /\ nextId = 1 /\ lastCandleTime = 0
    /\ trades = [d \in Days |-> [closed |-> 0, manual |-> 0, opened |-> 0]]
    /\ candle = [time |-> 0, low |-> 0, close |-> 0, high |-> 0]
    /\ day = 1
    /\ queue = <<>> /\ paused = FALSE /\ stop = FALSE /\ disabled = {}
    /\ pc = "off" /\ mech = <<>> /\ haveCandle = FALSE
    /\ pass = "mech" /\ idx = 1 /\ pausedAt = FALSE /\ now = 1 /\ sweep = {}
    /\ guard = FreshGuard
    /\ fails = [s \in Strategies |-> 0] /\ tripped = {}
    /\ runs = 0 /\ base = trades
    /\ passFirst = 1
    /\ consultedAt = [s \in Strategies |-> 0]

------------------------------------------------------------------------------
(* PositionManager *)

\* close(): book the exit and tell the guard, when the caller has one.
CloseAt(p, price) ==
    /\ open' = open \ {p}
    /\ trades' = [trades EXCEPT ![now].closed = @ + NetPnl(p, price)]
    /\ guard' = RecordClose(guard, NetPnl(p, price), now)

\* open(): the guard decides first; a veto leaves the ledger alone.
OpenOrVeto(s, side, size, g, kept) ==
    LET fill == FillPrice(candle.close, side, TRUE)
        notional == size * fill
        asked == CanOpenGuard(g, now)
    IN IF CanOpen(asked, notional)
       THEN /\ nextId <= MaxOpens
            /\ open' = kept \cup {[id |-> nextId, strategy |-> s, side |-> side,
                                   entry |-> fill, size |-> size,
                                   opened |-> candle.time]}
            /\ nextId' = nextId + 1
            /\ guard' = RecordOpen(asked, notional, now)
       ELSE /\ open' = kept
            /\ guard' = asked
            /\ UNCHANGED nextId

\* The OPEN row's notional, zero when nothing was opened.
Opened == IF nextId' # nextId
          THEN LET p == CHOOSE q \in open' : q.id = nextId IN p.size * p.entry
          ELSE 0

------------------------------------------------------------------------------
(* engine.run: the loop *)

\* A new run: fresh guard, breaker and roster; Controller.start clears the flags.
Start ==
    /\ pc = "off" /\ runs < MaxRuns
    /\ \E r \in MechRosters : mech' = r
    /\ pc' = "top" /\ runs' = runs + 1
    /\ stop' = FALSE /\ paused' = FALSE /\ haveCandle' = FALSE
    /\ guard' = FreshGuard
    /\ fails' = [s \in Strategies |-> 0] /\ tripped' = {}
    /\ base' = trades
    /\ UNCHANGED <<ledgerVars, candle, day, queue, disabled, passVars, idx, sweep,
                   consultedAt>>

\* should_stop is looked at once, at the head of the loop.
LoopExit ==
    /\ pc = "top" /\ stop
    /\ pc' = "off"
    /\ UNCHANGED <<ledgerVars, candle, day, userVars, passVars, idx, sweep, guard,
                   runVars, consultedAt>>

\* What the next fetch may show: a new candle, or the newest one, which is still
\* forming, with its range grown.
Quotes ==
    {[time |-> t, low |-> c.low, close |-> c.close, high |-> c.high] :
        t \in {candle.time, candle.time + 1} \cap (1 .. MaxTime), c \in Shapes}

Forming(c) == c.low <= candle.low /\ candle.high <= c.high

FetchOk ==
    /\ pc = "top" /\ ~stop
    /\ \E c \in Quotes : /\ c.time = candle.time => Forming(c)
                         /\ candle' = c
    /\ haveCandle' = TRUE /\ now' = day
    /\ pc' = "drain"
    /\ UNCHANGED <<ledgerVars, day, userVars, pass, pausedAt, passFirst, idx, sweep,
                   guard, mech, fails, tripped, runs, base, consultedAt>>

\* mutant: a failed fetch skips the whole tick, commands included
FetchFailsSkipsAll ==
    /\ pc = "top" /\ ~stop
    /\ UNCHANGED vars

\* The feed is down: commands still run at the last candle this run has seen.
FetchFails ==
    /\ pc = "top" /\ ~stop
    /\ pc' = IF haveCandle THEN "outage" ELSE "top"
    /\ now' = IF haveCandle THEN day ELSE now
    /\ UNCHANGED <<ledgerVars, candle, day, userVars, pass, pausedAt, passFirst, idx,
                   sweep, guard, runVars, consultedAt>>

\* _drain_commands: a PositionManager without guard closes the position the
\* strategy has now, if the strategy is in this run's roster.
DrainCommand ==
    /\ pc \in {"drain", "outage"} /\ queue # <<>>
    /\ queue' = Tail(queue)
    /\ LET s == Head(queue) IN
       IF s \in LiveRoster /\ ~Flat(s)
       THEN LET p == PositionOf(s) IN
            /\ open' = open \ {p}
            /\ trades' = [trades EXCEPT ![now].manual = @ + NetPnl(p, candle.close)]
       ELSE UNCHANGED <<open, trades>>
    /\ UNCHANGED <<nextId, lastCandleTime, candle, day, paused, stop, disabled, pc,
                   passVars, idx, sweep, guard, runVars, consultedAt>>

DrainDone ==
    /\ pc \in {"drain", "outage"} /\ queue = <<>>
    /\ pc' = IF pc = "drain" THEN "mech" ELSE "top"
    /\ UNCHANGED <<ledgerVars, candle, day, userVars, passVars, idx, sweep, guard,
                   runVars, consultedAt>>

\* Enter process_tick: the wall clock and the pause flag are read here, once.
BeginPass(kind) ==
    /\ pass' = kind /\ idx' = 1 /\ pc' = "manage"
    /\ now' = day /\ pausedAt' = paused /\ passFirst' = nextId

AnyCandle == candle.time > 0      \* mutant: no de-duplication
\* Mechanical skills act only when the ledger does not know the candle's time yet.
NewCandle == lastCandleTime # candle.time

MechPass ==
    /\ pc = "mech"
    /\ IF mech # <<>> /\ NewCandle
       THEN BeginPass("mech")
       ELSE pc' = "ai" /\ UNCHANGED <<passVars, idx>>
    /\ UNCHANGED <<ledgerVars, candle, day, userVars, sweep, guard, runVars, consultedAt>>

\* mutant: the AI traders only on a new candle
AiPassOncePerCandle ==
    /\ pc = "ai"
    /\ IF AiRoster # <<>> /\ NewCandle
       THEN BeginPass("ai")
       ELSE pc' = "tail" /\ UNCHANGED <<passVars, idx>>
    /\ UNCHANGED <<ledgerVars, candle, day, userVars, sweep, guard, runVars, consultedAt>>

AiPass ==
    /\ pc = "ai"
    /\ IF AiRoster # <<>>
       THEN BeginPass("ai")
       ELSE pc' = "tail" /\ UNCHANGED <<passVars, idx>>
    /\ UNCHANGED <<ledgerVars, candle, day, userVars, sweep, guard, runVars, consultedAt>>

------------------------------------------------------------------------------
(* process_tick *)

SkippedByToggle(s) == s \in disabled      \* mutant: forgets the breaker
\* No decision is taken for a strategy whose breaker tripped or that is switched off.
Skipped(s) == s \in tripped \/ s \in disabled

\* mutant: the switches come before the risk check
ManageRiskIfEnabled ==
    /\ pc = "manage" /\ idx <= Len(Roster)
    /\ LET s == Roster[idx] IN
       IF Skipped(s)
       THEN idx' = idx + 1 /\ UNCHANGED <<pc, open, trades, guard>>
       ELSE /\ pc' = "consult" /\ UNCHANGED idx
            /\ IF ~Flat(s) /\ Crossed(PositionOf(s), candle)
               THEN CloseAt(PositionOf(s), RiskExitPrice(PositionOf(s), candle))
               ELSE UNCHANGED <<open, trades, guard>>
    /\ UNCHANGED <<nextId, lastCandleTime, candle, day, userVars, passVars, sweep,
                   runVars, consultedAt>>

\* Before the consult: the stop / liquidation check, then the two switches that
\* make the pass skip this strategy.
ManageRisk ==
    /\ pc = "manage" /\ idx <= Len(Roster)
    /\ LET s == Roster[idx] IN
       /\ IF ~Flat(s) /\ Crossed(PositionOf(s), candle)
          THEN CloseAt(PositionOf(s), RiskExitPrice(PositionOf(s), candle))
          ELSE UNCHANGED <<open, trades, guard>>
       /\ IF Skipped(s)
          THEN idx' = idx + 1 /\ UNCHANGED pc
          ELSE pc' = "consult" /\ UNCHANGED idx
    /\ UNCHANGED <<nextId, lastCandleTime, candle, day, userVars, passVars, sweep,
                   runVars, consultedAt>>

\* Common to every consult: the pass moves on and the decision is remembered.
Consulted(s) ==
    /\ pc = "consult" /\ s = Roster[idx]
    /\ pc' = "manage" /\ idx' = idx + 1
    /\ consultedAt' = IF pass = "mech" THEN [consultedAt EXCEPT ![s] = candle.time]
                                       ELSE consultedAt
    /\ UNCHANGED <<lastCandleTime, candle, day, userVars, passVars, sweep, mech,
                   haveCandle, runs, base>>

\* on_candle raised: count it, trip at the threshold.
ConsultRaises(s) ==
    /\ Consulted(s)
    /\ IF fails[s] + 1 >= Threshold
       THEN tripped' = tripped \cup {s} /\ fails' = [fails EXCEPT ![s] = 0]
       ELSE fails' = [fails EXCEPT ![s] = @ + 1] /\ UNCHANGED tripped
    /\ UNCHANGED <<open, nextId, trades, guard>>

\* on_candle answered: a clean run clears the failure streak.
Answered(s) ==
    /\ Consulted(s)
    /\ fails' = [fails EXCEPT ![s] = 0]
    /\ UNCHANGED tripped

\* HOLD, CLOSE without a position, or the side already held.
DecideHold(s) ==
    /\ Answered(s)
    /\ UNCHANGED <<open, nextId, trades, guard>>

\* CLOSE with a position.
DecideClose(s) ==
    /\ Answered(s)
    /\ ~Flat(s)
    /\ CloseAt(PositionOf(s), candle.close)
    /\ UNCHANGED nextId

MayEnterAligned(aligned) == aligned      \* mutant: forgets the pause
\* Entries, flips included, need a pass begun unpaused and a side the regime admits.
MayEnter(aligned) == ~pausedAt /\ aligned

\* LONG / SHORT without a position.
DecideEnter(s) ==
    /\ Answered(s)
    /\ Flat(s)
    /\ \E side \in Sides, size \in Sizes, aligned \in Alignments :
         IF MayEnter(aligned)
         THEN OpenOrVeto(s, side, size, guard, open)
         ELSE UNCHANGED <<open, nextId, guard>>
    /\ trades' = [trades EXCEPT ![now].opened = @ + Opened]

\* LONG / SHORT against the side held: always close, then perhaps flip.
DecideReverse(s) ==
    /\ Answered(s)
    /\ ~Flat(s)
    /\ \E size \in Sizes, aligned \in Alignments :
         LET p == PositionOf(s)
             side == IF p.side = LONG THEN SHORT ELSE LONG
             pnl == NetPnl(p, candle.close)
             g == RecordClose(guard, pnl, now)
         IN /\ IF FlipEnabled /\ MayEnter(aligned)
               THEN OpenOrVeto(s, side, size, g, open \ {p})
               ELSE open' = open \ {p} /\ guard' = g /\ UNCHANGED nextId
            /\ trades' = [trades EXCEPT ![now].closed = @ + pnl,
                                        ![now].opened = @ + Opened]

Consult ==
    \E s \in Strategies :
        \/ ConsultRaises(s)
        \/ DecideHold(s)
        \/ DecideClose(s)
        \/ DecideEnter(s)
        \/ DecideReverse(s)

OrphansSwitchedOff == {p \in open : p.strategy \in disabled}      \* mutant
\* The open positions that no skill of this pass owns, if the ledger can list them.
Orphans == IF Enumerates THEN {p \in open : p.strategy \notin Elements(Roster)} ELSE {}

\* After the roster: list them.
ListOrphans ==
    /\ pc = "manage" /\ idx > Len(Roster)
    /\ sweep' = {p.id : p \in Orphans}
    /\ pc' = "orphans"
    /\ UNCHANGED <<ledgerVars, candle, day, userVars, passVars, idx, guard, runVars,
                   consultedAt>>

\* Risk-manage them in id order.
SweepOrphan ==
    /\ pc = "orphans"
    /\ \E p \in open :
         /\ p.id \in sweep
         /\ \A i \in sweep : p.id <= i
         /\ sweep' = sweep \ {p.id}
         /\ IF Crossed(p, candle) THEN CloseAt(p, RiskExitPrice(p, candle))
                                  ELSE UNCHANGED <<open, trades, guard>>
    /\ UNCHANGED <<nextId, lastCandleTime, candle, day, userVars, pc, passVars, idx,
                   runVars, consultedAt>>

\* Back in run_tick: the mechanical pass marks its candle as done.
EndPass ==
    /\ pc = "orphans" /\ sweep = {}
    /\ IF pass = "mech"
       THEN lastCandleTime' = candle.time /\ pc' = "ai"
       ELSE pc' = "tail" /\ UNCHANGED lastCandleTime
    /\ UNCHANGED <<open, nextId, trades, candle, day, userVars, passVars, idx, sweep,
                   guard, runVars, consultedAt>>

\* After run_tick: a halted guard ends the run.
AfterTick ==
    /\ pc = "tail"
    /\ pc' = IF guard.halted THEN "off" ELSE "top"
    /\ UNCHANGED <<ledgerVars, candle, day, userVars, passVars, idx, sweep, guard,
                   runVars, consultedAt>>

\* The run breaks off where it stands.  An exception out of the tick ends the thread
\* and leaves the Controller; a kill takes its queue and switches along.
Die ==
    /\ "die" \in Controls /\ pc # "off"
    /\ pc' = "off" /\ sweep' = {}
    /\ \/ UNCHANGED <<queue, disabled>>
       \/ queue' = <<>> /\ disabled' = {}
    /\ UNCHANGED <<ledgerVars, candle, day, paused, stop, passVars, idx, guard, runVars,
                   consultedAt>>

------------------------------------------------------------------------------
(* Controller and the clock, at any moment *)

engineVars == <<ledgerVars, candle, pc, passVars, idx, sweep, guard, runVars,
                consultedAt>>

Pause == /\ "pause" \in Controls /\ ~paused /\ paused' = TRUE
         /\ UNCHANGED <<engineVars, day, queue, stop, disabled>>

Resume == /\ "pause" \in Controls /\ paused /\ paused' = FALSE
          /\ UNCHANGED <<engineVars, day, queue, stop, disabled>>

Stop == /\ "stop" \in Controls /\ ~stop /\ pc # "off" /\ stop' = TRUE
        /\ UNCHANGED <<engineVars, day, queue, paused, disabled>>

CloseTrade(s) == /\ "close" \in Controls /\ Len(queue) < MaxQueue
                 /\ queue' = Append(queue, s)
                 /\ UNCHANGED <<engineVars, day, paused, stop, disabled>>

SetEnabled(s) == /\ "toggle" \in Controls
                 /\ disabled' = IF s \in disabled THEN disabled \ {s}
                                                  ELSE disabled \cup {s}
                 /\ UNCHANGED <<engineVars, day, queue, paused, stop>>

NextDay == /\ day < MaxDay /\ day' = day + 1
           /\ UNCHANGED <<engineVars, userVars>>

------------------------------------------------------------------------------
\* The steps of the engine's thread between two fetches.
Work ==
    \/ DrainCommand \/ DrainDone
    \/ MechPass \/ AiPass
    \/ ManageRisk \/ Consult
    \/ ListOrphans \/ SweepOrphan \/ EndPass
    \/ AfterTick

Engine == Start \/ LoopExit \/ FetchOk \/ FetchFails \/ Work \/ Die

Operator ==
    \/ Pause \/ Resume \/ Stop
    \/ \E s \in Strategies : CloseTrade(s) \/ SetEnabled(s)

Next == Engine \/ Operator \/ NextDay

\* The engine's thread keeps running (a fetch may fail for ever); nothing obliges
\* the operator to act, the feed to answer, or anyone to start a new run.
Fairness == WF_vars(LoopExit) /\ WF_vars(FetchFails) /\ WF_vars(Work)

Spec == Init /\ [][Next]_vars /\ Fairness

------------------------------------------------------------------------------
(* Properties *)

Positions == [id : Nat, strategy : Strategies, side : Sides, entry : Int, size : Nat,
              opened : Nat]

GuardType == [day : Nat, traded : Int, realized : Int, halted : BOOLEAN]

DayTotals == [closed : Int, manual : Int, opened : Int]

\* Every variable has the type its comment says.
TypeOK ==
    /\ open \subseteq Positions /\ nextId \in Nat \ {0} /\ lastCandleTime \in Nat
    /\ trades \in [Days -> DayTotals] /\ base \in [Days -> DayTotals]
    /\ candle \in [time : Nat, low : Nat, close : Nat, high : Nat]
    /\ day \in Days /\ now \in Days
    /\ queue \in Seq(Strategies) /\ disabled \subseteq Strategies
    /\ paused \in BOOLEAN /\ stop \in BOOLEAN /\ pausedAt \in BOOLEAN
    /\ haveCandle \in BOOLEAN
    /\ pc \in {"off", "top", "drain", "outage", "mech", "ai", "manage", "consult",
               "orphans", "tail"}
    /\ mech \in Seq(Strategies) /\ pass \in {"mech", "ai"} /\ idx \in Nat \ {0}
    /\ sweep \subseteq Nat /\ passFirst \in Nat \ {0}
    /\ guard \in GuardType
    /\ fails \in [Strategies -> Nat] /\ tripped \subseteq Strategies
    /\ runs \in Nat /\ consultedAt \in [Strategies -> Nat]

\* A strategy never holds two open positions, so the newest open row that
\* get_open_position returns is the only one: no older row hides behind it.
OnePositionPerStrategy ==
    \A p, q \in open : p.strategy = q.strategy => p = q

\* When a pass of process_tick ends, no position its skills held when it began has
\* its stop or liquidation price inside the candle of the pass: not that of a
\* strategy that is switched off or tripped, nor one the pass decided to keep.
PassEnforcesStops ==
    pc = "orphans" /\ sweep = {} =>
        \A p \in open : p.id < passFirst /\ p.strategy \in Elements(Roster)
                           => ~Crossed(p, candle)

\* After every tick no position an AI trader brought into the newest candle has its
\* stop or liquidation price inside it, however often the candle grew.
AiStopsEveryTick ==
    pc = "tail" =>
        \A p \in open : p.strategy \in Elements(AiRoster) /\ p.opened < candle.time
                           => ~Crossed(p, candle)

\* engine.py:223: a position "whose strategy is no longer in the roster" has its
\* stop enforced by every pass, "so it can never ride unmanaged".  It holds of a
\* Database (what the tests pass to process_tick), not of a Repository.
OrphansEnforced ==
    pc = "orphans" /\ sweep = {} =>
        \A p \in open : p.strategy \notin LiveRoster => ~Crossed(p, candle)

\* What this run has lost on day d by closes the guard was told of.
RunLoss(d) == base[d].closed - trades[d].closed

\* What this run has opened on day d.
RunOpened(d) == trades[d].opened - base[d].opened

\* Totals g of a guard against totals t of the trades table: nothing was recorded
\* after g's day, g's day is recorded as g has it, and g has halted when it must.
GuardAgrees(g, t) ==
    /\ g.day <= now
    /\ \A d \in Days : d > g.day => /\ t[d].closed = base[d].closed
                                   /\ t[d].opened = base[d].opened
    /\ g.day # 0 => /\ g.realized = t[g.day].closed - base[g.day].closed
                    /\ g.traded = t[g.day].opened - base[g.day].opened
    /\ MaxDailyLoss > 0 /\ -g.realized >= MaxDailyLoss => g.halted

\* The guard lives in memory and is told of each fill; through reversals, vetoes and
\* midnights it says what the trades table says of this run.
GuardMatchesLedger == GuardAgrees(guard, trades)

\* The kill switch: no step opens a position on a day whose recorded losses of
\* this run have reached max_daily_loss, a flip's own losing close included.
NoEntryAfterDailyLoss ==
    [][nextId' # nextId /\ MaxDailyLoss > 0 =>
          RunLoss(now) < MaxDailyLoss /\ RunLoss(now)' < MaxDailyLoss]_vars

\* ... and the loop is never back at its head, to trade on, once they have.
DailyLossEndsRun ==
    pc = "top" /\ MaxDailyLoss > 0 => RunLoss(now) < MaxDailyLoss

\* The notional opened in a day by one run stays within max_trade_amount_per_day,
\* over mechanical and AI passes, flips and midnights.
DailyCapRespected ==
    MaxTradePerDay > 0 => \A d \in Days : RunOpened(d) <= MaxTradePerDay

\* A run keeps its daily limits: the cap on what it opens, and the loss that ends it.
DailyLimitsHold == DailyCapRespected /\ DailyLossEndsRun

\* A mechanical skill decides on a candle at most once, also across a stop and a
\* new start: last_candle_time is in the ledger.  (Not when a run dies in the middle
\* of the pass: it is written after it.)
OncePerCandle ==
    [][pc = "consult" /\ pc' = "manage" /\ pass = "mech" =>
          consultedAt[Roster[idx]] # candle.time]_vars

\* A strategy the ErrorBoundary tripped opens nothing for the rest of the run.
TrippedOpensNothing ==
    [][\A p \in open' \ open : p.strategy \notin tripped]_vars

\* A pass that begins paused opens nothing to its end: no entry and no second half
\* of a flip, even when the operator resumes in the middle of it.
PausedPassOpensNothing ==
    pausedAt /\ pc \in {"manage", "consult", "orphans"} => nextId = passFirst

InQueue(s) == \E i \in 1 .. Len(queue) : queue[i] = s

\* A queued exit of a strategy in the roster is carried out, even when the feed
\* stays down from now on, provided this run has seen one candle.
ExitHonoured ==
    \A s \in Strategies :
        (InQueue(s) /\ s \in LiveRoster /\ haveCandle /\ pc # "off")
            ~> (Flat(s) \/ pc = "off")
==============================================================================
