------------------------------- MODULE AlwaysOn -------------------------------
(***************************************************************************)
(* The always-on service: the operating system keeps the daemon's process  *)
(* running, the daemon restarts the engine when it raises, and every run   *)
(* of the engine opens the ledger (SchemaMigrations), saves candles        *)
(* (CandleHistory), trades and alerts.  Beside it a backtest tool opens    *)
(* the same ledger and extends the candle history.  Signals, exceptions    *)
(* and kills come between any two steps.                                   *)
(***************************************************************************)
EXTENDS SchemaMigrations, CandleHistory

CONSTANTS
    engine, tool,       \* the two openers
    MaxTrades, MaxDeaths    \* bounds

ASSUME AlwaysOnAssumption ==
    /\ Openers = {engine, tool} /\ engine # tool
    /\ MaxTrades \in Nat /\ MaxDeaths \in Nat

VARIABLES
    wanted,     \* the service is enabled
    daemon,     \* where run_daemon is, "down" without a process
    stop,       \* its stop_event
    status,     \* the state in the status file
    pc,         \* where engine.run is
    trades,     \* rows of trades: the newest id
    lastAlert,  \* SkillRunner.last_alert_id, in memory
    alerts,     \* by trade: how often it was alerted
    lost,       \* history: trades an engine had not alerted when it died
    task,       \* the tool: "off", "open" or "extend"
    job,        \* spans it has left
    deaths

service == <<wanted, daemon, stop, status, deaths>>
alerting == <<trades, lastAlert, alerts, lost>>
vars == <<schema, candles, service, pc, alerting, task, job>>

Trades == 1 .. MaxTrades

Init ==
    /\ SchemaInit /\ CandleInit
    /\ wanted = TRUE /\ daemon = "down" /\ stop = FALSE /\ status = "none" /\ deaths = 0
    /\ pc = "off"
    /\ trades = 0 /\ lastAlert = 0 /\ alerts = [t \in Trades |-> 0] /\ lost = {}
    /\ task = "off" /\ job = <<>>

\* A commit of the engine's: it needs the write lock, and makes open transactions stale.
Commits ==
    /\ ~Locked
    /\ CommitAndGoto(engine, conn[engine])
    /\ UNCHANGED <<objects, version, raced>>

------------------------------------------------------------------------------
(* The operating system and its user *)

\* mutant: restarted unless it stopped by itself
BootAfterCrash ==
    /\ wanted /\ daemon = "down" /\ status # "stopped"
    /\ daemon' = "loop" /\ stop' = FALSE /\ status' = "running"
    /\ UNCHANGED <<schema, candles, wanted, deaths, pc, alerting, task, job>>
\* mutant: the status file is left to the first crash
BootQuietly ==
    /\ wanted /\ daemon = "down"
    /\ daemon' = "loop" /\ stop' = FALSE
    /\ UNCHANGED <<schema, candles, wanted, status, deaths, pc, alerting, task, job>>
\* KeepAlive, Restart=always: whenever there is no process, however it ended.
Boot ==
    /\ wanted /\ daemon = "down"
    /\ daemon' = "loop" /\ stop' = FALSE /\ status' = "running"
    /\ UNCHANGED <<schema, candles, wanted, deaths, pc, alerting, task, job>>

\* SIGTERM, from whoever sends it or because the service is being disabled.
Terminate ==
    /\ daemon # "down" /\ ~stop
    /\ stop' = TRUE /\ wanted' \in {wanted, FALSE}
    /\ UNCHANGED <<schema, candles, daemon, status, deaths, pc, alerting, task, job>>

Enable ==
    /\ ~wanted
    /\ wanted' = TRUE
    /\ UNCHANGED <<schema, candles, daemon, stop, status, deaths, pc, alerting, task, job>>

Dies ==
    /\ deaths < MaxDeaths
    /\ deaths' = deaths + 1
    /\ pc' = "off"
    /\ lost' = lost \cup {t \in Trades : lastAlert < t /\ t <= trades /\ pc # "open"}
    /\ Close(engine)
    /\ UNCHANGED <<candles, wanted, stop, trades, lastAlert, alerts, task, job>>

\* The process is killed; the status file says what it said.
Kill ==
    /\ daemon # "down"
    /\ Dies
    /\ daemon' = "down"
    /\ UNCHANGED status

------------------------------------------------------------------------------
(* run_daemon *)

LoopTop ==
    /\ daemon = "loop"
    /\ IF stop
       THEN daemon' = "end" /\ UNCHANGED <<pc, schema>>
       ELSE daemon' = "engine" /\ pc' = "open" /\ Open(engine)
    /\ UNCHANGED <<candles, wanted, stop, status, deaths, alerting, task, job>>

\* The run returned, by a stop or by the kill switch.
Returns ==
    /\ pc' = "off" /\ daemon' = "end"
    /\ Close(engine)

\* It raised: the restart is announced in the status file, and the backoff begins.
Restarting == daemon' = "backoff" /\ status' = "restarting"
EngineRaises ==
    /\ pc \in {"save", "act", "alert"}
    /\ Dies /\ Restarting
OpenRaises ==
    /\ pc = "open" /\ conn[engine].at = "failed"
    /\ pc' = "off" /\ Restarting
    /\ Close(engine)
    /\ UNCHANGED <<candles, wanted, stop, deaths, alerting, task, job>>

\* stop_event.wait: by the clock or by the signal.
Backoff ==
    /\ daemon = "backoff"
    /\ daemon' = "loop"
    /\ UNCHANGED <<schema, candles, wanted, stop, status, deaths, pc, alerting, task, job>>

End ==
    /\ daemon = "end"
    /\ status' = "stopped" /\ daemon' = "down"
    /\ UNCHANGED <<schema, candles, wanted, stop, deaths, pc, alerting, task, job>>

------------------------------------------------------------------------------
(* engine.run *)

EngineOpens ==
    /\ pc = "open" /\ Migrate(engine)
    /\ UNCHANGED <<candles, service, pc, alerting, task, job>>

\* mutant: every trade of the ledger is news to a new run
StartRunFromZero ==
    /\ pc = "open" /\ conn[engine].at = "ready"
    /\ pc' = "top" /\ lastAlert' = 0
    /\ UNCHANGED <<schema, candles, service, trades, alerts, lost, task, job>>
\* SkillRunner.__init__: only trades from now on are alerted.
StartRun ==
    /\ pc = "open" /\ conn[engine].at = "ready"
    /\ pc' = "top" /\ lastAlert' = trades
    /\ UNCHANGED <<schema, candles, service, trades, alerts, lost, task, job>>

\* mutant: the stop event is not looked at
TopGoesOn ==
    /\ pc = "top"
    /\ pc' = "fetch"
    /\ UNCHANGED <<schema, candles, service, alerting, task, job>>
Top ==
    /\ pc = "top"
    /\ IF stop THEN Returns ELSE pc' = "fetch" /\ UNCHANGED <<schema, daemon>>
    /\ UNCHANGED <<candles, wanted, stop, status, deaths, alerting, task, job>>

Fetch ==
    /\ pc = "fetch"
    /\ pc' \in {"save", "sleep"}
    /\ UNCHANGED <<schema, candles, service, alerting, task, job>>

Save ==
    /\ pc = "save"
    /\ Commits /\ SaveLive(job)
    /\ pc' = "act"
    /\ UNCHANGED <<service, alerting, task, job>>

\* run_tick trades, or not ...
Act ==
    /\ pc = "act"
    /\ Commits
    /\ \E k \in 0 .. 2 : trades + k <= MaxTrades /\ trades' = trades + k
    /\ pc' = "alert"
    /\ UNCHANGED <<candles, service, lastAlert, alerts, lost, task, job>>

\* ... and _emit_trade_alerts goes through the new trades; then the tick is over, or, on
\* the kill switch, the run.
Alert ==
    /\ pc = "alert"
    /\ IF lastAlert < trades
       THEN /\ alerts' = [alerts EXCEPT ![lastAlert + 1] = @ + 1]
            /\ lastAlert' = lastAlert + 1
            /\ UNCHANGED <<schema, daemon, pc>>
       ELSE /\ Returns \/ (pc' = "sleep" /\ UNCHANGED <<schema, daemon>>)
            /\ UNCHANGED <<alerts, lastAlert>>
    /\ UNCHANGED <<candles, wanted, stop, status, deaths, trades, lost, task, job>>

Sleep ==
    /\ pc = "sleep"
    /\ pc' = "top"
    /\ UNCHANGED <<schema, candles, service, alerting, task, job>>

------------------------------------------------------------------------------
(* The tool: one call of ensure_history *)

ToolOpens ==
    /\ \/ task = "off" /\ Open(tool) /\ task' = "open"
       \/ task = "open" /\ Migrate(tool) /\ UNCHANGED task
    /\ UNCHANGED <<candles, service, pc, alerting, job>>

ToolPlans ==
    /\ task = "open" /\ conn[tool].at = "ready"
    /\ task' = "extend" /\ job' = Spans
    /\ UNCHANGED <<schema, candles, service, pc, alerting>>

ToolFetches ==
    /\ task = "extend" /\ job # <<>>
    /\ \/ /\ NoneServed(job) /\ UNCHANGED schema
          /\ job' = Rest(job, job[1].from + Probe)
       \/ /\ ~Locked /\ SaveChunk(job)
          /\ CommitAndGoto(tool, conn[tool]) /\ UNCHANGED <<objects, version, raced>>
          /\ job' = Rest(job, ChunkEnd(job[1]) + 1)
       \/ /\ CutShort /\ UNCHANGED schema
          /\ job' = Tail(job)
    /\ UNCHANGED <<service, pc, alerting, task>>

ToolEnds ==
    /\ \/ task = "open" /\ conn[tool].at = "failed"
       \/ task = "extend" /\ job = <<>>
    /\ task' = "off"
    /\ Close(tool)
    /\ UNCHANGED <<candles, service, pc, alerting, job>>

\* Killed: a span under way is cut short.
ToolDies ==
    /\ task # "off" /\ deaths < MaxDeaths
    /\ deaths' = deaths + 1
    /\ task' = "off" /\ job' = <<>>
    /\ Close(tool)
    /\ IF job = <<>> THEN UNCHANGED candles ELSE CutShort
    /\ UNCHANGED <<wanted, daemon, stop, status, pc, alerting>>

------------------------------------------------------------------------------
Clock == Passes /\ UNCHANGED <<schema, service, pc, alerting, task, job>>

Daemon == LoopTop \/ EngineRaises \/ OpenRaises \/ Backoff \/ End
Engine == EngineOpens \/ StartRun \/ Top \/ Fetch \/ Save \/ Act \/ Alert \/ Sleep
Tool == ToolOpens \/ ToolPlans \/ ToolFetches \/ ToolEnds

Next ==
    \/ Boot \/ Terminate \/ Enable \/ Kill \/ Daemon
    \/ Engine \/ Tool \/ ToolDies \/ Clock

\* Processes run on, and the operating system restarts what ended.
Fairness ==
    /\ WF_vars(Boot)
    /\ WF_vars(LoopTop) /\ WF_vars(OpenRaises) /\ WF_vars(Backoff) /\ WF_vars(End)
    /\ WF_vars(Engine)
    /\ WF_vars(task # "off" /\ Tool)

Spec == Init /\ [][Next]_vars /\ Fairness

------------------------------------------------------------------------------
(* Properties *)

\* No trade is alerted twice, whatever restarts in between, and the only trades passed
\* over are those an engine had recorded and not yet alerted when it died.
AlertedOnce ==
    \A t \in Trades :
        /\ alerts[t] <= 1
        /\ t <= lastAlert => (alerts[t] = 0) = (t \in lost)

\* A status file that says "stopped" is right: no engine runs, and nothing but a boot of
\* the service starts one.
StoppedMeansStopped == status = "stopped" => daemon = "down"

\* The candle store beside the tool: complete and final between its bounds.
CandlesComplete == StoreComplete(task = "extend")

\* The service keeps ticking: however its engine and its process ended, it comes back to a
\* tick, unless it is disabled or signalled again (or two openers have raced and broken
\* the schema).
KeepsTicking == wanted /\ ~stop ~> (pc = "fetch" \/ ~wanted \/ stop \/ raced)

\* A signal ends the process from wherever it is: opening the ledger, in a tick, asleep
\* or in the backoff.
StopIsHeard == stop ~> daemon = "down"

\* The daemon does what the service needs of it: it comes back, it stops when told to, and
\* what it says of itself holds.
ServiceHolds == KeepsTicking /\ StopIsHeard /\ []StoppedMeansStopped
==============================================================================
