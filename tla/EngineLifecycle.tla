--------------------------- MODULE EngineLifecycle ---------------------------
(***************************************************************************)
(* The web UI's Controller: it owns the engine's thread and starts, stops, *)
(* pauses and resets it from the threads of a ThreadingHTTPServer, with no *)
(* lock.  The threads share two events (stop, wake), a queue of manual     *)
(* exits and the ledger; stop() waits 30 seconds for the engine and then   *)
(* forgets it.  A tick is kept to what the life cycle can spoil: looking   *)
(* for the strategy's open position and acting on what was seen.           *)
(***************************************************************************)
EXTENDS Integers, Sequences, FiniteSets

CONSTANTS
    Handlers,                               \* threads of the web server
    MaxThreads, MaxRequests, MaxPositions   \* bounds

ASSUME LifecycleAssumption ==
    /\ MaxThreads \in Nat /\ MaxRequests \in Nat /\ MaxPositions \in Nat
    /\ MaxRequests < MaxThreads     \* no start lacks a thread

Threads == 1 .. MaxThreads
NoThread == 0

VARIABLES
    engine,     \* by thread: where it is in engine.run; "none" before it is made
    saw,        \* by thread: the open position its tick found, 0 for none
    seen,       \* by thread: this run has had a candle (last_candle)
    ref,        \* Controller._thread
    stop, paused, wake,                     \* its events
    commands,   \* queued exits: the positions open when each was asked for
    task,       \* by handler: the rest of the request it serves
    wallet,     \* the ledger has the strategy's wallet
    open,       \* ids of the strategy's open positions
    nextId,
    requests,   \* served so far
    raced, timedOut,    \* history: requests overlapped; stop() gave up on a thread
    wrongExit   \* history: an idle-time exit closed a position it was not asked for

events == <<stop, paused, wake>>
run == <<engine, saw, seen>>
ledger == <<wallet, open, nextId>>
history == <<raced, timedOut, wrongExit>>
vars == <<run, ref, events, commands, task, ledger, requests, history>>

Alive == {t \in Threads : engine[t] \notin {"none", "dead"}}
Idle == [step |-> "idle"]

\* main() starts the engine before it serves the first request.
Init ==
    /\ engine = [t \in Threads |-> IF t = 1 THEN "boot" ELSE "none"]
    /\ saw = [t \in Threads |-> 0] /\ seen = [t \in Threads |-> FALSE]
    /\ ref = 1
    /\ stop = FALSE /\ paused = FALSE /\ wake = FALSE
    /\ commands = <<>>
    /\ task = [h \in Handlers |-> Idle]
    /\ wallet = FALSE /\ open = {} /\ nextId = 1
    /\ requests = 0
    /\ raced = FALSE /\ timedOut = FALSE /\ wrongExit = FALSE

------------------------------------------------------------------------------
(* Requests: one step per statement another thread can come between *)

Step(h, s) == task' = [task EXCEPT ![h] = s]
Lifecycle(s) == s.step \in {"clear", "launch", "wakeUp", "join", "joining", "forget", "wipe"}
Begin(h) ==
    /\ task[h] = Idle /\ requests < MaxRequests
    /\ requests' = requests + 1
Race == raced' = (raced \/ \E h \in Handlers : Lifecycle(task[h]))

\* mutant: no is_alive check
StartAny(h) ==
    /\ Begin(h) /\ Race
    /\ Step(h, [step |-> "clear"])
    /\ UNCHANGED <<run, ref, events, commands, ledger, timedOut, wrongExit>>
\* start: nothing to do while the thread is alive ...
Start(h) ==
    /\ Begin(h) /\ Race
    /\ Step(h, IF ref \in Alive THEN Idle ELSE [step |-> "clear"])
    /\ UNCHANGED <<run, ref, events, commands, ledger, timedOut, wrongExit>>
\* ... else the flags are cleared ...
StartClears(h) ==
    /\ task[h].step = "clear"
    /\ stop' = FALSE /\ paused' = FALSE
    /\ Step(h, [step |-> "launch"])
    /\ UNCHANGED <<run, ref, wake, commands, ledger, requests, history>>
\* ... and a thread is made and started.
StartLaunches(h) ==
    /\ task[h].step = "launch"
    /\ \E t \in Threads :
          /\ engine[t] = "none" /\ \A u \in Threads : u < t => engine[u] # "none"
          /\ engine' = [engine EXCEPT ![t] = "boot"] /\ ref' = t
    /\ Step(h, Idle)
    /\ UNCHANGED <<saw, seen, events, commands, ledger, requests, history>>

\* stop, which reset also begins with: the flag, the wake-up, the join.
StopSets(h, then) ==
    /\ Begin(h) /\ Race
    /\ stop' = TRUE
    /\ Step(h, [step |-> "wakeUp", then |-> then])
    /\ UNCHANGED <<run, ref, paused, wake, commands, ledger, timedOut, wrongExit>>
StopWakes(h) ==
    /\ task[h].step = "wakeUp"
    /\ wake' = TRUE
    /\ Step(h, [task[h] EXCEPT !.step = "join"])
    /\ UNCHANGED <<run, ref, stop, paused, commands, ledger, requests, history>>
StopJoins(h) ==
    /\ task[h].step = "join"
    /\ Step(h, IF ref # NoThread
               THEN [step |-> "joining", then |-> task[h].then, thread |-> ref]
               ELSE task[h].then)
    /\ UNCHANGED <<run, ref, events, commands, ledger, requests, history>>
\* join returns, because the thread has ended or because 30 seconds have passed ...
StopJoined(h) ==
    /\ task[h].step = "joining"
    /\ Step(h, [step |-> "forget", then |-> task[h].then])
    /\ timedOut' = (timedOut \/ task[h].thread \in Alive)
    /\ UNCHANGED <<run, ref, events, commands, ledger, requests, raced, wrongExit>>
\* ... and either way the thread is forgotten.
StopForgets(h) ==
    /\ task[h].step = "forget"
    /\ ref' = NoThread
    /\ Step(h, task[h].then)
    /\ UNCHANGED <<run, events, commands, ledger, requests, history>>

\* mutant: keeps the positions
WipeWallets(h) ==
    /\ task[h].step = "wipe"
    /\ wallet' = FALSE
    /\ Step(h, Idle)
    /\ UNCHANGED <<run, ref, events, commands, open, nextId, requests, history>>
\* reset_paper_ledger, one commit.
Wipe(h) ==
    /\ task[h].step = "wipe"
    /\ wallet' = FALSE /\ open' = {}
    /\ Step(h, Idle)
    /\ UNCHANGED <<run, ref, events, commands, nextId, requests, history>>

\* What a queued exit is meant to close, and whether it was asked while nothing ran.
Asked == [wants |-> open, idle |-> Alive = {}]

\* mutant: wakes the loop before the command is there
CloseTradeLate(h) ==
    \/ /\ Begin(h) /\ wake' = TRUE /\ Step(h, [step |-> "put"])
       /\ UNCHANGED <<run, ref, stop, paused, commands, ledger, history>>
    \/ /\ task[h].step = "put" /\ commands' = Append(commands, Asked) /\ Step(h, Idle)
       /\ UNCHANGED <<run, ref, events, ledger, requests, history>>
\* close_trade: queue the command, then wake the loop.
CloseTrade(h) ==
    /\ Begin(h)
    /\ commands' = Append(commands, Asked)
    /\ Step(h, [step |-> "nudge"])
    /\ UNCHANGED <<run, ref, events, ledger, history>>
Nudge(h) ==
    /\ task[h].step = "nudge"
    /\ wake' = TRUE
    /\ Step(h, Idle)
    /\ UNCHANGED <<run, ref, stop, paused, commands, ledger, requests, history>>

PauseResume(h) ==
    /\ Begin(h)
    /\ paused' = ~paused
    /\ UNCHANGED <<run, ref, stop, wake, commands, task, ledger, history>>

Request(h) ==
    \/ Start(h)
    \/ StopSets(h, Idle)
    \/ StopSets(h, [step |-> "wipe"])
    \/ CloseTrade(h)
    \/ PauseResume(h)
Serve(h) ==
    \/ StartClears(h) \/ StartLaunches(h)
    \/ StopWakes(h) \/ StopJoins(h) \/ StopJoined(h) \/ StopForgets(h)
    \/ Wipe(h) \/ Nudge(h)

------------------------------------------------------------------------------
(* engine.run in one of the threads *)

Goto(t, pc) == engine' = [engine EXCEPT ![t] = pc]

\* SkillRunner.__init__: ensure_strategy.
Boot(t) ==
    /\ engine[t] = "boot"
    /\ wallet' = TRUE
    /\ Goto(t, "top")
    /\ UNCHANGED <<saw, seen, ref, events, commands, task, open, nextId, requests, history>>

\* mutant: a paused engine does not look at the stop flag
TopUnlessPaused(t) ==
    /\ engine[t] = "top"
    /\ Goto(t, IF stop /\ ~paused THEN "dead" ELSE "fetch")
    /\ UNCHANGED <<saw, seen, ref, events, commands, task, ledger, requests, history>>
Top(t) ==
    /\ engine[t] = "top"
    /\ Goto(t, IF stop THEN "dead" ELSE "fetch")
    /\ UNCHANGED <<saw, seen, ref, events, commands, task, ledger, requests, history>>

\* mutant: commands wait for the run's second tick
FetchThenDrain(t) ==
    /\ engine[t] = "fetch"
    /\ \/ Goto(t, IF seen[t] THEN "drain" ELSE "look") /\ seen' = [seen EXCEPT ![t] = TRUE]
       \/ Goto(t, IF seen[t] THEN "outage" ELSE "sleep") /\ UNCHANGED seen
    /\ UNCHANGED <<saw, ref, events, commands, task, ledger, requests, history>>
\* A feed that is down: commands are executed all the same, once a candle was seen.
Fetch(t) ==
    /\ engine[t] = "fetch"
    /\ \/ Goto(t, "drain") /\ seen' = [seen EXCEPT ![t] = TRUE]
       \/ Goto(t, IF seen[t] THEN "outage" ELSE "sleep") /\ UNCHANGED seen
    /\ UNCHANGED <<saw, ref, events, commands, task, ledger, requests, history>>

\* get_open_position: the newest open row.
Newest == IF open = {} THEN 0 ELSE CHOOSE p \in open : \A q \in open : q <= p

Drain(t) ==
    /\ engine[t] \in {"drain", "outage"}
    /\ IF commands = <<>>
       THEN /\ Goto(t, IF engine[t] = "drain" THEN "look" ELSE "sleep")
            /\ UNCHANGED <<commands, open, wrongExit>>
       ELSE /\ commands' = Tail(commands)
            /\ open' = open \ {Newest}
            /\ wrongExit' = (wrongExit \/ /\ Head(commands).idle /\ open # {}
                                          /\ Newest \notin Head(commands).wants)
            /\ UNCHANGED engine
    /\ UNCHANGED <<saw, seen, ref, events, task, wallet, nextId, requests, raced, timedOut>>

\* process_tick reads the position ...
Look(t) ==
    /\ engine[t] = "look"
    /\ saw' = [saw EXCEPT ![t] = Newest]
    /\ Goto(t, "act")
    /\ UNCHANGED <<seen, ref, events, commands, task, ledger, requests, history>>
\* ... consults, and keeps, closes, flips or opens.
Act(t) ==
    /\ engine[t] = "act"
    /\ \/ UNCHANGED <<open, nextId>>
       \/ saw[t] # 0 /\ open' = open \ {saw[t]} /\ UNCHANGED nextId
       \/ /\ nextId <= MaxPositions /\ ~paused
          /\ open' = (open \ {saw[t]}) \cup {nextId}
          /\ nextId' = nextId + 1
    /\ saw' = [saw EXCEPT ![t] = 0]
    /\ engine' \in {[engine EXCEPT ![t] = pc] : pc \in {"sleep", "dead"}}  \* dead: a halt
    /\ UNCHANGED <<seen, ref, events, commands, task, wallet, requests, history>>

\* _interruptible_sleep: the wait ends by the event or by the clock ...
Awake(t) ==
    /\ engine[t] = "sleep"
    /\ Goto(t, "clear")
    /\ UNCHANGED <<saw, seen, ref, events, commands, task, ledger, requests, history>>
\* ... and the event is cleared.
ClearWake(t) ==
    /\ engine[t] = "clear"
    /\ wake' = FALSE
    /\ Goto(t, "top")
    /\ UNCHANGED <<saw, seen, ref, stop, paused, commands, task, ledger, requests, history>>

\* An exception out of the run ends its thread; _run shows it.
Die(t) ==
    /\ engine[t] \in {"boot", "drain", "outage", "look", "act"}
    /\ Goto(t, "dead")
    /\ saw' = [saw EXCEPT ![t] = 0]
    /\ UNCHANGED <<seen, ref, events, commands, task, ledger, requests, history>>

Engine(t) ==
    \/ Boot(t) \/ Top(t) \/ Fetch(t) \/ Drain(t) \/ Look(t) \/ Act(t)
    \/ Awake(t) \/ ClearWake(t)

Next ==
    \/ \E h \in Handlers : Request(h) \/ Serve(h)
    \/ \E t \in Threads : Engine(t) \/ Die(t)

\* Threads keep running; people make requests or not.
Fairness ==
    /\ \A h \in Handlers : WF_vars(Serve(h))
    /\ \A t \in Threads : WF_vars(Engine(t))

Spec == Init /\ [][Next]_vars /\ Fairness

------------------------------------------------------------------------------
(* Properties *)

\* No two of start, stop and reset overlapped and no stop() gave up on its thread.
Orderly == ~raced /\ ~timedOut

\* As long as requests came one after the other and every join succeeded, the engine
\* the Controller refers to is the only one that runs: status() "stopped" is true, and
\* a start never makes a second engine beside a forgotten one.  So the look and the act of a
\* tick are one engine's, and a strategy has one position (which PaperEngine, with its one
\* thread, takes for granted).
OnlyRefRuns == Orderly => Alive \subseteq {ref} /\ Cardinality(open) <= 1

\* A reset is clean: no position outlives its wallet or is opened without one.
NoPositionWithoutWallet == Orderly /\ open # {} => wallet

\* An exit asked while nothing ran closes what was open then, never a position of a run
\* that executes it: commands are drained before a run's first decisions.  This holds
\* however the requests overlapped.
ExitHitsIntended == ~wrongExit

\* As long as requests keep their order, an engine never sleeps on one it could carry out:
\* the wake-up is set or about to be, so stops and exits take effect within a tick and not a poll later.
NoLostWake ==
    \A t \in Alive : Orderly /\ engine[t] = "sleep" /\ ~wake =>
        /\ commands # <<>> /\ seen[t] => \E h \in Handlers : task[h].step = "nudge"
        /\ stop => \E h \in Handlers : task[h].step = "wakeUp"

\* A stop reaches every engine there is, forgotten ones too, paused or not, unless a
\* start takes it back.
StopEndsEveryEngine == stop ~> (Alive = {} \/ ~stop)
==============================================================================
