------------------------- MODULE EngineLifecycleProofs -------------------------
(* Theorems about EngineLifecycle, for any number of web threads, engine threads,
   requests and positions. *)
EXTENDS EngineLifecycle, FiniteSetTheorems, WellFoundedInduction, TLAPS

------------------------------------------------------------------------------
(* The inductive invariant.  Most of it is about orderly histories: once two requests
   have overlapped or a join has given up, it holds no more. *)

Wiping == [step |-> "wipe"]
Thens == {Idle, Wiping}
Tasks ==
    {Idle} \cup [step : {"clear", "launch", "wipe", "nudge"}]
    \cup [step : {"wakeUp", "join", "forget"}, then : Thens]
    \cup [step : {"joining"}, then : Thens, thread : Threads]

TypeOK ==
    /\ engine \in [Threads -> {"none", "boot", "top", "fetch", "drain", "outage", "look",
                               "act", "sleep", "clear", "dead"}]
    /\ saw \in [Threads -> Nat] /\ seen \in [Threads -> BOOLEAN]
    /\ ref \in Threads \cup {NoThread}
    /\ stop \in BOOLEAN /\ paused \in BOOLEAN /\ wake \in BOOLEAN
    /\ commands \in Seq([wants : SUBSET Nat, idle : BOOLEAN])
    /\ task \in [Handlers -> Tasks]
    /\ wallet \in BOOLEAN /\ nextId \in Nat \ {0} /\ open \subseteq 1 .. nextId - 1
    /\ requests \in Nat
    /\ raced \in BOOLEAN /\ timedOut \in BOOLEAN /\ wrongExit \in BOOLEAN

\* One start, stop or reset at a time.
OneAtATime == \A g, h \in Handlers : Lifecycle(task[g]) /\ Lifecycle(task[h]) => g = h

RefRuns == Alive \subseteq {ref}

\* Once a start has found no engine, or a join has ended, none runs until the launch.
Quiet == \A h \in Handlers : task[h].step \in {"clear", "launch", "forget", "wipe"} => Alive = {}

JoinsRef == \A h \in Handlers : task[h].step = "joining" => task[h].thread = ref

Controls == OneAtATime /\ RefRuns /\ Quiet /\ JoinsRef

\* A run past its boot has its wallet, a position has one, and what a tick has seen is
\* what there is.
Books ==
    /\ \A t \in Alive : engine[t] # "boot" => wallet
    /\ open # {} => wallet
    /\ \A p, q \in open : p = q
    /\ \A t \in Threads : engine[t] = "act" => open \subseteq {saw[t]}

\* An exit that was asked for in an idle hour is gone before a run's first decision.
Exits ==
    /\ \A i \in DOMAIN commands :
          commands[i].idle => /\ \A t \in Threads : engine[t] \notin {"look", "act"}
                              /\ open \subseteq commands[i].wants
    /\ ~wrongExit

Nudging == \E h \in Handlers : task[h].step = "nudge"
Waking == \E h \in Handlers : task[h].step = "wakeUp"

\* Whoever has passed the check of the flag, or of the queue, is told of the next one.
Wakes ==
    \A t \in Threads :
        /\ engine[t] \in {"drain", "outage", "look", "act"} => seen[t]
        /\ engine[t] \in {"look", "act", "sleep"} /\ seen[t] /\ commands # <<>> => wake \/ Nudging
        /\ engine[t] \in {"fetch", "drain", "outage", "look", "act", "sleep"} /\ stop
           => wake \/ Waking

Inv == TypeOK /\ Exits /\ (Orderly => Controls /\ Books /\ Wakes)

------------------------------------------------------------------------------
(* Types *)

\* A handler's step changes its own task and no other.
LEMMA OtherTasks ==
    ASSUME TypeOK, NEW h \in Handlers, NEW s, Step(h, s)
    PROVE  /\ task'[h] = s
           /\ \A g \in Handlers \ {h} : task'[g] = task[g]
           /\ s \in Tasks => task' \in [Handlers -> Tasks]
BY DEF TypeOK, Step

\* What a handler may go on to.
LEMMA TaskKinds ==
    ASSUME TypeOK, NEW h \in Handlers
    PROVE  /\ Idle \in Tasks /\ Wiping \in Tasks
           /\ \A x \in {"clear", "launch", "wipe", "nudge"} : [step |-> x] \in Tasks
           /\ \A then \in Thens : [step |-> "wakeUp", then |-> then] \in Tasks
           /\ task[h].step \in {"wakeUp", "join", "forget", "joining"} =>
                 /\ task[h].then \in Thens
                 /\ [step |-> "forget", then |-> task[h].then] \in Tasks
                 /\ \A t \in Threads :
                       [step |-> "joining", then |-> task[h].then, thread |-> t] \in Tasks
           /\ task[h].step = "wakeUp" =>
                 /\ [task[h] EXCEPT !.step = "join"] \in Tasks
                 /\ [task[h] EXCEPT !.step = "join"].step = "join"
           /\ task[h].step = "joining" => task[h].thread \in Threads
           /\ task[h] = Idle => task[h].step = "idle"
<1>1. task[h] \in Tasks
    BY DEF TypeOK
<1>2. Idle \in Tasks /\ Wiping \in Tasks /\ (task[h] = Idle => task[h].step = "idle")
    BY DEF Tasks, Idle, Wiping
<1>3. /\ \A x \in {"clear", "launch", "wipe", "nudge"} : [step |-> x] \in Tasks
      /\ \A then \in Thens : /\ [step |-> "wakeUp", then |-> then] \in Tasks
                            /\ [step |-> "forget", then |-> then] \in Tasks
                            /\ [step |-> "join", then |-> then] \in Tasks
                            /\ \A t \in Threads :
                                  [step |-> "joining", then |-> then, thread |-> t] \in Tasks
    BY DEF Tasks
<1>4. task[h].step \in {"wakeUp", "join", "forget", "joining"} => task[h].then \in Thens
    BY <1>1 DEF Tasks, Idle
<1>5. task[h].step = "joining" => task[h].thread \in Threads
    BY <1>1 DEF Tasks, Idle
<1>6. task[h].step = "wakeUp" => task[h] \in [step : {"wakeUp", "join", "forget"}, then : Thens]
    BY <1>1 DEF Tasks, Idle
<1>7. ASSUME task[h].step = "wakeUp"
      PROVE  [task[h] EXCEPT !.step = "join"] = [step |-> "join", then |-> task[h].then]
    BY <1>6, <1>7
<1> HIDE DEF Tasks
<1> QED BY <1>2, <1>3, <1>4, <1>5, <1>7

\* The first step of a request keeps the types.
LEMMA TypeRequest ==
    ASSUME TypeOK, NEW h \in Handlers, Request(h)
    PROVE  TypeOK'
<1>1. CASE Start(h)
    <2>1. task' \in [Handlers -> Tasks]
        BY <1>1, OtherTasks, TaskKinds DEF Start
    <2> QED BY <1>1, <2>1 DEF Start, Begin, Race, TypeOK, run, events, ledger
<1>2. ASSUME NEW then \in Thens, StopSets(h, then) PROVE TypeOK'
    <2>1. task' \in [Handlers -> Tasks]
        BY <1>2, OtherTasks, TaskKinds DEF StopSets
    <2> QED BY <1>2, <2>1 DEF StopSets, Begin, Race, TypeOK, run, events, ledger
<1>3. CASE CloseTrade(h)
    <2>1. task' \in [Handlers -> Tasks]
        BY <1>3, OtherTasks, TaskKinds DEF CloseTrade
    <2>2. Asked \in [wants : SUBSET Nat, idle : BOOLEAN]
        BY DEF Asked, TypeOK
    <2>3. commands' \in Seq([wants : SUBSET Nat, idle : BOOLEAN])
        BY <1>3, <2>2 DEF CloseTrade, TypeOK
    <2> QED BY <1>3, <2>1, <2>3 DEF CloseTrade, Begin, TypeOK, run, events, ledger, history
<1>4. CASE PauseResume(h)
    BY <1>4 DEF PauseResume, Begin, TypeOK, run, events, ledger, history
<1> QED BY <1>1, <1>2, <1>3, <1>4 DEF Request, Thens, Wiping

\* The rest of a request keeps the types.
LEMMA TypeServe ==
    ASSUME TypeOK, NEW h \in Handlers, Serve(h)
    PROVE  TypeOK'
<1> USE DEF run, events, ledger, history
<1>1. CASE StartClears(h)
    <2>1. task' \in [Handlers -> Tasks]
        BY <1>1, OtherTasks, TaskKinds DEF StartClears
    <2> QED BY <1>1, <2>1 DEF StartClears, TypeOK
<1>2. CASE StartLaunches(h)
    <2>1. task' \in [Handlers -> Tasks]
        BY <1>2, OtherTasks, TaskKinds DEF StartLaunches
    <2> QED BY <1>2, <2>1 DEF StartLaunches, TypeOK
<1>3. CASE StopWakes(h)
    <2>1. task' \in [Handlers -> Tasks]
        BY <1>3, OtherTasks, TaskKinds DEF StopWakes
    <2> QED BY <1>3, <2>1 DEF StopWakes, TypeOK
<1>4. CASE StopJoins(h)
    <2>1. task' \in [Handlers -> Tasks]
        <3>1. ref # NoThread => ref \in Threads
            BY DEF TypeOK
        <3>2. task[h].then \in Tasks
            BY <1>4, TaskKinds DEF StopJoins, Thens
        <3>3. ref # NoThread =>
                 [step |-> "joining", then |-> task[h].then, thread |-> ref] \in Tasks
            BY <1>4, <3>1, TaskKinds DEF StopJoins
        <3> QED BY <1>4, <3>2, <3>3, OtherTasks DEF StopJoins
    <2> QED BY <1>4, <2>1 DEF StopJoins, TypeOK
<1>5. CASE StopJoined(h)
    <2>1. task' \in [Handlers -> Tasks]
        <3>1. [step |-> "forget", then |-> task[h].then] \in Tasks
            BY <1>5, TaskKinds DEF StopJoined
        <3> QED BY <1>5, <3>1, OtherTasks DEF StopJoined
    <2> QED BY <1>5, <2>1 DEF StopJoined, TypeOK
<1>6. CASE StopForgets(h)
    <2>1. task[h].then \in Tasks
        BY <1>6, TaskKinds DEF StopForgets, Thens
    <2>2. task' \in [Handlers -> Tasks]
        BY <1>6, <2>1, OtherTasks DEF StopForgets
    <2> QED BY <1>6, <2>2 DEF StopForgets, TypeOK
<1>7. CASE Wipe(h)
    <2>1. task' \in [Handlers -> Tasks]
        BY <1>7, OtherTasks, TaskKinds DEF Wipe
    <2> QED BY <1>7, <2>1 DEF Wipe, TypeOK
<1>8. CASE Nudge(h)
    <2>1. task' \in [Handlers -> Tasks]
        BY <1>8, OtherTasks, TaskKinds DEF Nudge
    <2> QED BY <1>8, <2>1 DEF Nudge, TypeOK
<1> QED BY <1>1, <1>2, <1>3, <1>4, <1>5, <1>6, <1>7, <1>8 DEF Serve

\* The newest of some positions is one of them: a set of ids below a bound has a greatest.
LEMMA NewestIsOpen ==
    ASSUME TypeOK, open # {}
    PROVE  Newest \in open
<1> DEFINE T == {nextId - i : i \in open}
<1>1. \A i \in open : i \in Int /\ nextId - i \in Nat
    BY DEF TypeOK
<1>2. T \subseteq Nat /\ T # {}
    BY <1>1
<1>3. PICK m \in T : \A y \in T : <<y, m>> \notin OpToRel(<, Nat)
    <2> HIDE DEF T
    <2> QED BY <1>2, NatLessThanWellFounded, WFMin
<1>4. PICK i \in open : m = nextId - i
    OBVIOUS
<1>5. ASSUME NEW j \in open PROVE j <= i
    <2>1. <<nextId - j, m>> \notin OpToRel(<, Nat) /\ nextId - j \in Nat /\ m \in Nat
        BY <1>1, <1>2, <1>3
    <2>2. ~(nextId - j < m)
        BY <2>1, Zenon DEF OpToRel
    <2>3. nextId \in Int
        BY DEF TypeOK
    <2> QED BY <1>1, <1>4, <2>2, <2>3
<1> QED BY <1>5 DEF Newest

\* ... and with nothing open, it is no position.
LEMMA NewestId ==
    ASSUME TypeOK
    PROVE  Newest \in Nat
<1>1. CASE open = {}
    BY <1>1 DEF Newest
<1>2. CASE open # {}
    <2>1. Newest \in open /\ open \subseteq 1 .. nextId - 1 /\ nextId \in Nat
        BY <1>2, NewestIsOpen DEF TypeOK
    <2> HIDE DEF Newest
    <2> QED BY <2>1
<1> QED BY <1>1, <1>2

\* A tick keeps the types.
LEMMA TypeEngine ==
    ASSUME TypeOK, NEW t \in Threads, Engine(t) \/ Die(t)
    PROVE  TypeOK'
<1> USE DEF run, events, ledger, history, Goto
<1>1. CASE Boot(t) \/ Top(t) \/ Awake(t) \/ ClearWake(t)
    BY <1>1 DEF Boot, Top, Awake, ClearWake, TypeOK
<1>6. CASE Die(t)
    BY <1>6 DEF Die, TypeOK
<1>2. CASE Fetch(t)
    BY <1>2 DEF Fetch, TypeOK
<1>3. CASE Drain(t)
    <2>1. CASE commands = <<>>
        BY <1>3, <2>1 DEF Drain, TypeOK
    <2>2. CASE commands # <<>>
        <3>1. commands' \in Seq([wants : SUBSET Nat, idle : BOOLEAN])
            <4>1. commands' = Tail(commands)
                BY <1>3, <2>2 DEF Drain
            <4>2. commands \in Seq([wants : SUBSET Nat, idle : BOOLEAN])
                BY DEF TypeOK
            <4> QED BY <4>1, <4>2, <2>2
        <3>2. wrongExit' \in BOOLEAN
            BY <1>3, <2>2 DEF Drain, TypeOK
        <3> QED BY <1>3, <2>2, <3>1, <3>2 DEF Drain, TypeOK
    <2> QED BY <2>1, <2>2
<1>4. CASE Look(t)
    BY <1>4, NewestId DEF Look, TypeOK
<1>5. CASE Act(t)
    <2>1. engine' \in [Threads -> {"none", "boot", "top", "fetch", "drain", "outage", "look",
                                   "act", "sleep", "clear", "dead"}]
        BY <1>5 DEF Act, TypeOK
    <2>2. nextId \in Nat \ {0} /\ \A p \in open : p \in Nat /\ 1 <= p /\ p <= nextId - 1
        BY DEF TypeOK
    <2>3. /\ nextId' \in {nextId, nextId + 1}
          /\ \A p \in open' : p \in open \/ (p = nextId /\ nextId' = nextId + 1)
        BY <1>5 DEF Act
    <2>4. nextId' \in Nat \ {0} /\ \A p \in open' : p \in 1 .. nextId' - 1
        BY <2>2, <2>3
    <2> QED BY <1>5, <2>1, <2>4 DEF Act, TypeOK
<1> QED BY <1>1, <1>2, <1>3, <1>4, <1>5, <1>6 DEF Engine

\* Every step keeps the types.
LEMMA TypeNext ==
    ASSUME TypeOK, [Next]_vars
    PROVE  TypeOK'
<1>1. CASE UNCHANGED vars
    BY <1>1 DEF TypeOK, vars, run, events, ledger, history
<1> QED BY <1>1, TypeRequest, TypeServe, TypeEngine DEF Next
------------------------------------------------------------------------------
(* One engine.  A lifecycle request that begins in an orderly history finds no other,
   so what it has found out about the engine stays true until it acts on it. *)

\* A history that is orderly after a step was so before.
LEMMA OrderlyBefore ==
    ASSUME TypeOK, [Next]_vars, Orderly'
    PROVE  Orderly
<1> USE DEF history, Orderly, TypeOK
<1>1. ASSUME NEW h \in Handlers, Request(h) PROVE Orderly
    BY <1>1 DEF Request, Start, StopSets, Race, CloseTrade, PauseResume
<1>2. ASSUME NEW h \in Handlers, Serve(h) PROVE Orderly
    BY <1>2 DEF Serve, StartClears, StartLaunches, StopWakes, StopJoins, StopJoined,
                StopForgets, Wipe, Nudge
<1>3. ASSUME NEW t \in Threads, Engine(t) \/ Die(t) PROVE Orderly
    BY <1>3 DEF Engine, Boot, Top, Fetch, Drain, Look, Act, Awake, ClearWake, Die
<1>4. CASE UNCHANGED vars
    BY <1>4 DEF vars
<1> QED BY <1>1, <1>2, <1>3, <1>4 DEF Next

\* Steps of the engines' threads: an engine may end, none begins.
LEMMA AliveShrinks ==
    ASSUME TypeOK, NEW t \in Threads, Engine(t) \/ Die(t)
    PROVE  /\ t \in Alive /\ Alive' \subseteq Alive
           /\ UNCHANGED <<ref, task, requests>>
<1>1. t \in Alive
    BY DEF Engine, Boot, Top, Fetch, Drain, Look, Act, Awake, ClearWake, Die, Alive
<1>2. \A u \in Threads : u # t => engine'[u] = engine[u]
    BY DEF Engine, Boot, Top, Fetch, Drain, Look, Act, Awake, ClearWake, Die, Goto, TypeOK
<1>3. UNCHANGED <<ref, task, requests>>
    BY DEF Engine, Boot, Top, Fetch, Drain, Look, Act, Awake, ClearWake, Die, events, ledger,
           history
<1> QED BY <1>1, <1>2, <1>3 DEF Alive

\* The first step of a request.
LEMMA ControlsRequest ==
    ASSUME TypeOK, Controls, Orderly', NEW h \in Handlers, Request(h)
    PROVE  Controls'
<1> USE DEF Controls, OneAtATime, RefRuns, Quiet, JoinsRef
<1>1. UNCHANGED <<engine, ref>> /\ Alive' = Alive /\ task[h].step = "idle"
    BY TaskKinds DEF Request, Start, StopSets, CloseTrade, PauseResume, Begin, run, Alive
<1>2. CASE Start(h) \/ \E then \in Thens : StopSets(h, then)
    <2>1. \A g \in Handlers : ~Lifecycle(task[g])
        BY <1>2 DEF Start, StopSets, Race, Orderly, TypeOK
    <2>2. \A g \in Handlers \ {h} : task'[g] = task[g]
        BY <1>2, OtherTasks DEF Start, StopSets
    <2>3. \/ task'[h].step = "idle"
          \/ task'[h].step = "clear" /\ Alive = {}
          \/ task'[h].step = "wakeUp"
        <3>1. CASE Start(h)
            <4>1. task'[h] = IF ref \in Alive THEN Idle ELSE [step |-> "clear"]
                BY <3>1, OtherTasks DEF Start
            <4> QED BY <4>1 DEF Idle
        <3>2. ASSUME NEW then \in Thens, StopSets(h, then) PROVE task'[h].step = "wakeUp"
            BY <3>2, OtherTasks DEF StopSets
        <3> QED BY <1>2, <3>1, <3>2
    <2> QED BY <1>1, <2>1, <2>2, <2>3 DEF Lifecycle
<1>3. CASE CloseTrade(h) \/ PauseResume(h)
    <2>1. \A g \in Handlers : \/ task'[g] = task[g]
                              \/ task'[g].step = "nudge"
        BY <1>3, OtherTasks DEF CloseTrade, PauseResume
    <2> QED BY <1>1, <2>1 DEF Lifecycle
<1> QED BY <1>2, <1>3 DEF Request, Thens, Wiping

\* A start that goes on: the launched engine is the one referred to.
LEMMA ControlsLaunch ==
    ASSUME TypeOK, Controls, NEW h \in Handlers, StartLaunches(h)
    PROVE  Controls' /\ Alive' = {ref'} /\ engine'[ref'] = "boot" /\ ref' \in Threads
<1> USE DEF Controls, OneAtATime, RefRuns, Quiet, JoinsRef
<1>1. PICK t \in Threads : /\ engine[t] = "none"
                           /\ engine' = [engine EXCEPT ![t] = "boot"] /\ ref' = t
    BY DEF StartLaunches
<1>2. Alive = {} /\ task[h].step = "launch"
    BY DEF StartLaunches
<1>3. Alive' = {ref'} /\ engine'[ref'] = "boot"
    BY <1>1, <1>2 DEF Alive, TypeOK
<1>4. task'[h].step = "idle" /\ \A g \in Handlers \ {h} : task'[g] = task[g] /\ ~Lifecycle(task[g])
    BY <1>2, OtherTasks DEF StartLaunches, Idle, Lifecycle
<1> QED BY <1>1, <1>3, <1>4 DEF Lifecycle

\* The rest of a stop or reset, and of a start before its launch.
LEMMA ControlsServe ==
    ASSUME TypeOK, Controls, Orderly', NEW h \in Handlers, Serve(h), ~StartLaunches(h)
    PROVE  Controls'
<1> USE DEF Controls, OneAtATime, RefRuns, Quiet, JoinsRef
<1>1. UNCHANGED engine /\ Alive' = Alive
    BY DEF Serve, StartClears, StopWakes, StopJoins, StopJoined, StopForgets, Wipe, Nudge,
           run, Alive
<1>2. \A g \in Handlers \ {h} : task'[g] = task[g]
    BY OtherTasks DEF Serve, StartClears, StopWakes, StopJoins, StopJoined, StopForgets, Wipe, Nudge
<1>3. CASE Nudge(h)
    <2>1. task'[h].step = "idle" /\ UNCHANGED ref
        BY <1>3, OtherTasks DEF Nudge, Idle
    <2> QED BY <1>1, <1>2, <2>1 DEF Lifecycle
<1>4. ASSUME ~Nudge(h) PROVE Lifecycle(task[h]) /\ \A g \in Handlers \ {h} : ~Lifecycle(task'[g])
    <2>1. Lifecycle(task[h])
        BY <1>4 DEF Serve, StartClears, StopWakes, StopJoins, StopJoined, StopForgets, Wipe,
                    Lifecycle
    <2> QED BY <1>2, <2>1
<1>5. CASE StartClears(h)
    <2>1. task'[h].step = "launch" /\ UNCHANGED ref /\ Alive = {} /\ ~Nudge(h)
        BY <1>5, OtherTasks DEF StartClears, Nudge
    <2> QED BY <1>1, <1>4, <2>1 DEF Lifecycle
<1>6. CASE StopWakes(h)
    <2>1. task'[h].step = "join" /\ UNCHANGED ref /\ ~Nudge(h)
        BY <1>6, OtherTasks, TaskKinds DEF StopWakes, Nudge
    <2> QED BY <1>1, <1>4, <2>1 DEF Lifecycle
<1>7. CASE StopJoins(h)
    <2>1. UNCHANGED ref /\ ~Nudge(h) /\ task[h].then \in Thens
        BY <1>7, TaskKinds DEF StopJoins, Nudge
    <2>2. CASE ref # NoThread
        <3>1. task'[h].step = "joining" /\ task'[h].thread = ref
            BY <1>7, <2>2, OtherTasks DEF StopJoins
        <3> QED BY <1>1, <1>4, <2>1, <3>1 DEF Lifecycle
    <2>3. CASE ref = NoThread
        <3>1. task'[h] \in Thens
            BY <1>7, <2>1, <2>3, OtherTasks DEF StopJoins
        <3>2. task'[h].step \in {"idle", "wipe"}
            BY <3>1 DEF Thens, Idle, Wiping
        <3>3. Alive = {}
            BY <2>3 DEF NoThread, Threads, Alive
        <3> QED BY <1>1, <1>4, <2>1, <3>2, <3>3 DEF Lifecycle
    <2> QED BY <2>2, <2>3
<1>8. CASE StopJoined(h)
    <2>1. task'[h].step = "forget" /\ UNCHANGED ref /\ ~Nudge(h)
        BY <1>8, OtherTasks DEF StopJoined, Nudge
    <2>2. ref \notin Alive
        BY <1>8 DEF StopJoined, Orderly, TypeOK
    <2>3. Alive = {}
        BY <2>2
    <2> QED BY <1>1, <1>4, <2>1, <2>3 DEF Lifecycle
<1>9. CASE StopForgets(h)
    <2>1. task'[h] \in Thens /\ Alive = {} /\ ~Nudge(h)
        <3>1. /\ task[h].step = "forget" /\ task[h].then \in Thens
              /\ Step(h, task[h].then)
            BY <1>9, TaskKinds DEF StopForgets
        <3>2. task'[h] = task[h].then
            BY <3>1, OtherTasks
        <3> QED BY <3>1, <3>2 DEF Nudge
    <2>2. task'[h].step \in {"idle", "wipe"}
        BY <2>1 DEF Thens, Idle, Wiping
    <2> QED BY <1>1, <1>4, <2>1, <2>2 DEF Lifecycle
<1>10. CASE Wipe(h)
    <2>1. task'[h].step = "idle" /\ UNCHANGED ref /\ ~Nudge(h)
        BY <1>10, OtherTasks DEF Wipe, Idle, Nudge
    <2> QED BY <1>1, <1>4, <2>1 DEF Lifecycle
<1> QED BY <1>3, <1>5, <1>6, <1>7, <1>8, <1>9, <1>10 DEF Serve

\* Every step of an orderly history keeps the engine the only one.
LEMMA ControlsNext ==
    ASSUME TypeOK, Controls, [Next]_vars, Orderly'
    PROVE  Controls'
<1>1. ASSUME NEW t \in Threads, Engine(t) \/ Die(t) PROVE Controls'
    BY <1>1, AliveShrinks DEF Controls, OneAtATime, RefRuns, Quiet, JoinsRef
<1>2. CASE UNCHANGED vars
    BY <1>2 DEF vars, run, Controls, OneAtATime, RefRuns, Quiet, JoinsRef, Alive
<1> QED BY <1>1, <1>2, ControlsRequest, ControlsLaunch, ControlsServe DEF Next
------------------------------------------------------------------------------
(* The ledger under the one engine *)

\* Requests leave the ledger alone, but for the reset's wipe; that and a launch find no
\* engine.
LEMMA BooksServe ==
    ASSUME TypeOK, Controls, Books, NEW h \in Handlers, Request(h) \/ Serve(h)
    PROVE  Books'
<1> USE DEF Books
<1>1. CASE Wipe(h)
    <2>1. Alive = {} /\ open' = {} /\ UNCHANGED <<engine, saw>>
        BY <1>1 DEF Wipe, Controls, Quiet, run
    <2> QED BY <2>1 DEF Alive
<1>2. CASE StartLaunches(h)
    <2>1. Alive' = {ref'} /\ engine'[ref'] = "boot" /\ UNCHANGED <<open, wallet, saw>>
        BY <1>2, ControlsLaunch DEF StartLaunches, ledger
    <2>2. \A t \in Threads : engine'[t] # "act"
        BY <2>1 DEF Alive
    <2> QED BY <2>1, <2>2
<1>3. CASE ~Wipe(h) /\ ~StartLaunches(h)
    <2>1. UNCHANGED <<engine, saw, open, wallet>>
        BY <1>3 DEF Request, Serve, Start, StopSets, CloseTrade, PauseResume, StartClears,
                    StopWakes, StopJoins, StopJoined, StopForgets, Nudge, run, ledger
    <2> QED BY <2>1 DEF Alive
<1> QED BY <1>1, <1>2, <1>3

\* The one engine acts on what it has seen, for nothing came in between.
LEMMA BooksEngine ==
    ASSUME TypeOK, Controls, Books, NEW t \in Threads, Engine(t) \/ Die(t)
    PROVE  Books'
<1> USE DEF Books
<1>1. \A u \in Threads \ {t} : u \notin Alive
    BY AliveShrinks DEF Controls, RefRuns
<1>2. /\ \A u \in Threads \ {t} : u \notin Alive' /\ engine'[u] # "act"
      /\ Alive' \subseteq {t}
    BY <1>1, AliveShrinks DEF Alive
<1>3. CASE Boot(t)
    <2>1. wallet' = TRUE /\ engine'[t] = "top" /\ UNCHANGED open
        BY <1>3 DEF Boot, Goto, TypeOK
    <2> QED BY <1>2, <2>1
<1>4. CASE ~Boot(t)
    <2>1. engine[t] # "boot" \/ Die(t)
        BY <1>4 DEF Engine, Top, Fetch, Drain, Look, Act, Awake, ClearWake
    <2>2. (engine'[t] # "dead" => wallet) /\ UNCHANGED wallet
        BY <1>4, AliveShrinks DEF Engine, Top, Fetch, Drain, Look, Act, Awake, ClearWake, Die,
                                  Goto, TypeOK, ledger
    <2>3. \A u \in Alive' : wallet'
        BY <1>2, <2>2 DEF Alive
    <2>4. CASE Top(t) \/ Fetch(t) \/ Awake(t) \/ ClearWake(t) \/ Die(t)
        <3>1. engine'[t] # "act" /\ UNCHANGED open
            BY <2>4 DEF Top, Fetch, Awake, ClearWake, Die, Goto, TypeOK, ledger
        <3> QED BY <1>2, <2>2, <2>3, <3>1
    <2>5. CASE Drain(t)
        <3>1. engine'[t] # "act" /\ open' \subseteq open
            BY <2>5 DEF Drain, Goto, TypeOK
        <3> QED BY <1>2, <2>2, <2>3, <3>1
    <2>6. CASE Look(t)
        <3>1. saw'[t] = Newest /\ UNCHANGED open
            BY <2>6 DEF Look, TypeOK, ledger
        <3>2. open \subseteq {Newest}
            BY NewestIsOpen
        <3> QED BY <1>2, <2>2, <2>3, <3>1, <3>2
    <2>7. CASE Act(t)
        <3>1. engine'[t] # "act" /\ engine[t] = "act"
            BY <2>7 DEF Act, TypeOK
        <3>2. \/ open' \subseteq open
              \/ open' = (open \ {saw[t]}) \cup {nextId}
            BY <2>7 DEF Act
        <3>3. open \subseteq {saw[t]} /\ (engine'[t] # "boot" => wallet)
            BY <3>1, AliveShrinks
        <3>4. wallet
            BY <3>1, AliveShrinks
        <3> QED BY <1>2, <2>2, <2>3, <3>1, <3>2, <3>3, <3>4
    <2> QED BY <1>4, <2>4, <2>5, <2>6, <2>7 DEF Engine
<1> QED BY <1>3, <1>4

------------------------------------------------------------------------------
(* The queue of exits *)

\* An exit asked in an idle hour names what is open; a launch boots and does not decide.
LEMMA ExitsServe ==
    ASSUME TypeOK, Exits, NEW h \in Handlers, Request(h) \/ Serve(h)
    PROVE  Exits'
<1> USE DEF Exits
<1>1. CASE CloseTrade(h)
    <2>1. commands' = Append(commands, Asked) /\ UNCHANGED <<engine, open, wrongExit>>
        BY <1>1 DEF CloseTrade, run, ledger, history
    <2>2. Asked.wants = open /\ (Asked.idle => \A t \in Threads : engine[t] \notin {"look", "act"})
        BY DEF Asked, Alive
    <2>3. commands \in Seq([wants : SUBSET Nat, idle : BOOLEAN])
          /\ Asked \in [wants : SUBSET Nat, idle : BOOLEAN]
        BY DEF TypeOK, Asked
    <2>4. \A i \in DOMAIN commands' : \/ i \in DOMAIN commands /\ commands'[i] = commands[i]
                                      \/ commands'[i] = Asked
        BY <2>1, <2>3
    <2> QED BY <2>1, <2>2, <2>4
<1>2. CASE ~CloseTrade(h)
    <2>1. UNCHANGED <<commands, wrongExit>>
        BY <1>2 DEF Request, Serve, Start, StopSets, PauseResume, StartClears, StartLaunches,
                    StopWakes, StopJoins, StopJoined, StopForgets, Wipe, Nudge, history
    <2>2. open' \subseteq open
        BY <1>2 DEF Request, Serve, Start, StopSets, PauseResume, StartClears, StartLaunches,
                    StopWakes, StopJoins, StopJoined, StopForgets, Wipe, Nudge, ledger
    <2>3. \A t \in Threads : engine'[t] \in {engine[t], "boot"}
        BY <1>2 DEF Request, Serve, Start, StopSets, PauseResume, StartClears, StartLaunches,
                    StopWakes, StopJoins, StopJoined, StopForgets, Wipe, Nudge, run, TypeOK
    <2> QED BY <2>1, <2>2, <2>3
<1> QED BY <1>1, <1>2

\* The queue is empty before the decision, and what was asked in an idle hour is not in it.
LEMMA ExitsEngine ==
    ASSUME TypeOK, Exits, NEW t \in Threads, Engine(t) \/ Die(t)
    PROVE  Exits'
<1> USE DEF Exits
<1>1. \A u \in Threads \ {t} : engine'[u] = engine[u]
    BY DEF Engine, Boot, Top, Fetch, Drain, Look, Act, Awake, ClearWake, Die, Goto, TypeOK
<1>2. CASE Boot(t) \/ Top(t) \/ Fetch(t) \/ Awake(t) \/ ClearWake(t) \/ Die(t)
    <2>1. engine'[t] \notin {"look", "act"} /\ UNCHANGED <<commands, open, wrongExit>>
        BY <1>2 DEF Boot, Top, Fetch, Awake, ClearWake, Die, Goto, TypeOK, ledger, history
    <2> QED BY <1>1, <2>1
<1>3. CASE Drain(t) /\ commands = <<>>
    BY <1>3 DEF Drain
<1>4. CASE Drain(t) /\ commands # <<>>
    <2>1. /\ commands' = Tail(commands) /\ open' \subseteq open /\ UNCHANGED engine
          /\ wrongExit' = (wrongExit \/ /\ Head(commands).idle /\ open # {}
                                        /\ Newest \notin Head(commands).wants)
        BY <1>4 DEF Drain
    <2>2. commands \in Seq([wants : SUBSET Nat, idle : BOOLEAN])
        BY DEF TypeOK
    <2>3. \A i \in DOMAIN commands' : i + 1 \in DOMAIN commands /\ commands'[i] = commands[i + 1]
        BY <1>4, <2>1, <2>2
    <2>4. Head(commands) = commands[1] /\ 1 \in DOMAIN commands
        BY <1>4, <2>2
    <2>5. ~wrongExit'
        BY <2>1, <2>4, NewestIsOpen
    <2> QED BY <2>1, <2>3, <2>5
<1>5. CASE Look(t)
    <2>1. engine[t] = "look" /\ UNCHANGED <<commands, open, wrongExit>>
        BY <1>5 DEF Look, ledger, history
    <2> QED BY <2>1
<1>6. CASE Act(t)
    <2>1. engine[t] = "act" /\ UNCHANGED <<commands, wrongExit>>
        BY <1>6 DEF Act, history
    <2> QED BY <2>1
<1> QED BY <1>2, <1>3, <1>4, <1>5, <1>6 DEF Engine

------------------------------------------------------------------------------
(* Wake-ups *)

\* A request that changes what an engine should do sets the event or has it to set next.
LEMMA WakesServe ==
    ASSUME TypeOK, Wakes, NEW h \in Handlers, Request(h) \/ Serve(h)
    PROVE  Wakes'
<1> USE DEF Wakes, Nudging, Waking
<1>0. \A g \in Handlers \ {h} : task'[g] = task[g]
    BY OtherTasks DEF Request, Serve, Start, StopSets, CloseTrade, StartClears, StartLaunches,
       StopWakes, StopJoins, StopJoined, StopForgets, Wipe, Nudge, PauseResume
<1>1. CASE CloseTrade(h)
    <2>1. task'[h].step = "nudge" /\ UNCHANGED <<engine, seen, stop, wake>> /\ task[h].step = "idle"
        <3>1. task'[h] = [step |-> "nudge"] /\ task[h] = Idle
            BY <1>1, OtherTasks DEF CloseTrade, Begin
        <3> QED BY <1>1, <3>1 DEF CloseTrade, run, events, Idle
    <2> QED BY <1>0, <2>1
<1>2. CASE Nudge(h) \/ StopWakes(h)
    <2>1. wake' = TRUE /\ UNCHANGED <<engine, seen, commands>>
        BY <1>2 DEF Nudge, StopWakes, run
    <2> QED BY <2>1
<1>3. CASE \E then \in Thens : StopSets(h, then)
    <2>1. task'[h].step = "wakeUp" /\ UNCHANGED <<engine, seen, commands, wake>>
          /\ task[h].step = "idle"
        <3>1. PICK then \in Thens : StopSets(h, then)
            BY <1>3
        <3>2. task'[h] = [step |-> "wakeUp", then |-> then] /\ task[h] = Idle
            BY <3>1, OtherTasks DEF StopSets, Begin
        <3> QED BY <3>1, <3>2 DEF StopSets, run, Idle
    <2> QED BY <1>0, <2>1
<1>4. CASE StartClears(h)
    <2>1. stop' = FALSE /\ UNCHANGED <<engine, seen, commands, wake>> /\ task[h].step = "clear"
        BY <1>4 DEF StartClears, run
    <2> QED BY <1>0, <2>1
<1>5. CASE StartLaunches(h)
    <2>1. UNCHANGED <<seen, commands, wake, stop>> /\ task[h].step = "launch"
        BY <1>5 DEF StartLaunches, events
    <2>2. \A t \in Threads : engine'[t] \in {engine[t], "boot"}
        BY <1>5 DEF StartLaunches, TypeOK
    <2> QED BY <1>0, <2>1, <2>2
<1>6. CASE Start(h) \/ PauseResume(h) \/ StopJoins(h) \/ StopJoined(h) \/ StopForgets(h) \/ Wipe(h)
    <2>1. /\ UNCHANGED <<engine, seen, commands, wake, stop>>
          /\ task[h].step \notin {"nudge", "wakeUp"}
        BY <1>6, TaskKinds DEF Start, PauseResume, StopJoins, StopJoined, StopForgets, Wipe,
                               Begin, run, events
    <2> QED BY <1>0, <2>1
<1> QED BY <1>1, <1>2, <1>3, <1>4, <1>5, <1>6 DEF Request, Serve, Thens, Wiping

\* Only the one engine clears the event, and it looks at the flag and the queue after it.
LEMMA WakesEngine ==
    ASSUME TypeOK, Controls, Wakes, NEW t \in Threads, Engine(t) \/ Die(t)
    PROVE  Wakes'
<1> USE DEF Wakes
<1>1. \A u \in Threads \ {t} : u \notin Alive /\ u \notin Alive'
    BY AliveShrinks DEF Controls, RefRuns
<1>2. UNCHANGED stop /\ Nudging' = Nudging /\ Waking' = Waking
    BY AliveShrinks DEF Engine, Boot, Top, Fetch, Drain, Look, Act, Awake, ClearWake, Die,
                        events, Nudging, Waking
<1> DEFINE Told(u) ==
        /\ engine'[u] \in {"drain", "outage", "look", "act"} => seen'[u]
        /\ engine'[u] \in {"look", "act", "sleep"} /\ seen'[u] /\ commands' # <<>>
           => wake' \/ Nudging
        /\ engine'[u] \in {"fetch", "drain", "outage", "look", "act", "sleep"} /\ stop
           => wake' \/ Waking
<1>3. \A u \in Threads \ {t} : Told(u)
    BY <1>1 DEF Alive
<1>4. Told(t)
    <2>1. CASE Boot(t) \/ Awake(t) \/ ClearWake(t) \/ Die(t)
        <3>1. engine'[t] \in {"top", "clear", "dead"}
            BY <2>1 DEF Boot, Awake, ClearWake, Die, Goto, TypeOK
        <3> QED BY <3>1
    <2>2. CASE Top(t)
        <3>1. engine'[t] = IF stop THEN "dead" ELSE "fetch"
            BY <2>2 DEF Top, Goto, TypeOK
        <3> QED BY <3>1
    <2>3. CASE Fetch(t)
        <3>1. /\ UNCHANGED <<commands, wake>> /\ engine[t] = "fetch"
              /\ \/ engine'[t] = "drain" /\ seen'[t] = TRUE
                 \/ engine'[t] = (IF seen[t] THEN "outage" ELSE "sleep") /\ seen'[t] = seen[t]
            BY <2>3 DEF Fetch, Goto, TypeOK, events
        <3> QED BY <3>1
    <2>4. CASE Drain(t)
        <3>1. /\ UNCHANGED wake /\ seen'[t] = seen[t] /\ engine[t] \in {"drain", "outage"}
              /\ \/ commands' = <<>> /\ engine'[t] \in {"look", "sleep"}
                 \/ engine'[t] = engine[t]
            BY <2>4 DEF Drain, Goto, TypeOK, events
        <3> QED BY <3>1
    <2>5. CASE Look(t) \/ Act(t)
        <3>1. /\ UNCHANGED <<wake, commands>> /\ seen'[t] = seen[t] /\ engine[t] \in {"look", "act"}
              /\ engine'[t] \in {"act", "sleep", "dead"}
            BY <2>5 DEF Look, Act, Goto, TypeOK, events
        <3> QED BY <3>1
    <2> QED BY <2>1, <2>2, <2>3, <2>4, <2>5 DEF Engine
<1>5. \A u \in Threads : Told(u)
    BY <1>3, <1>4
<1> QED BY <1>2, <1>5
------------------------------------------------------------------------------
(* The theorems *)

\* main() starts one engine on an empty ledger.
LEMMA InvInit == Init => Inv
<1> SUFFICES ASSUME Init PROVE Inv
    OBVIOUS
<1>1. 1 \in Threads
    BY LifecycleAssumption DEF Threads
<1>2. Alive \subseteq {1} /\ engine \in [Threads -> {"none", "boot"}]
    BY DEF Init, Alive
<1>3. task \in [Handlers -> Tasks] /\ \A h \in Handlers : task[h].step = "idle"
    BY DEF Init, Tasks, Idle
<1>4. TypeOK
    <2>1. engine \in [Threads -> {"none", "boot", "top", "fetch", "drain", "outage", "look",
                                  "act", "sleep", "clear", "dead"}]
        BY <1>2
    <2>2. commands \in Seq([wants : SUBSET Nat, idle : BOOLEAN]) /\ open \subseteq 1 .. nextId - 1
        BY DEF Init
    <2>3. saw \in [Threads -> Nat] /\ seen \in [Threads -> BOOLEAN]
        BY DEF Init
    <2>4. ref \in Threads \cup {NoThread} /\ nextId \in Nat \ {0} /\ requests \in Nat
        BY <1>1 DEF Init
    <2>5. /\ stop \in BOOLEAN /\ paused \in BOOLEAN /\ wake \in BOOLEAN /\ wallet \in BOOLEAN
          /\ raced \in BOOLEAN /\ timedOut \in BOOLEAN /\ wrongExit \in BOOLEAN
        BY Zenon DEF Init
    <2> QED BY <1>3, <2>1, <2>2, <2>3, <2>4, <2>5 DEF TypeOK
<1>5. Exits
    BY DEF Init, Exits
<1>6. Controls
    BY <1>2, <1>3 DEF Init, Controls, OneAtATime, RefRuns, Quiet, JoinsRef, Lifecycle
<1>7. Books /\ Wakes
    BY <1>2 DEF Init, Books, Wakes, Alive
<1> QED BY <1>4, <1>5, <1>6, <1>7 DEF Inv

\* Every step of the handlers and the engines keeps the invariant.
LEMMA InvNext ==
    ASSUME Inv, [Next]_vars
    PROVE  Inv'
<1>0. TypeOK /\ Exits
    BY DEF Inv
<1>1. TypeOK'
    BY <1>0, TypeNext
<1>2. Exits'
    <2>1. CASE UNCHANGED vars
        BY <1>0, <2>1 DEF vars, run, ledger, history, Exits
    <2> QED BY <1>0, <2>1, ExitsServe, ExitsEngine DEF Next
<1>3. ASSUME Orderly' PROVE Controls' /\ Books' /\ Wakes'
    <2>1. Controls /\ Books /\ Wakes
        BY <1>0, <1>3, OrderlyBefore DEF Inv
    <2>2. Controls'
        BY <1>0, <1>3, <2>1, ControlsNext
    <2>3. CASE UNCHANGED vars
        BY <2>1, <2>2, <2>3 DEF vars, run, events, ledger, Books, Wakes, Nudging, Waking, Alive
    <2>4. Books' /\ Wakes'
        BY <1>0, <2>1, <2>3, BooksServe, BooksEngine, WakesServe, WakesEngine DEF Next
    <2> QED BY <2>2, <2>4
<1> QED BY <1>1, <1>2, <1>3 DEF Inv

\* In an orderly history one engine runs, the ledger under it is sound, its queue and its
\* wake-ups are in time; the exits are so in every history.
THEOREM LifecycleInvariant == Spec => []Inv
<1>1. Inv /\ [Next]_vars => Inv'
    BY InvNext
<1> QED BY <1>1, InvInit, PTL DEF Spec

\* Only the engine the Controller refers to runs, and the strategy has one position.
THEOREM OneEngine == Spec => []OnlyRefRuns
<1>1. Inv => OnlyRefRuns
    <2> SUFFICES ASSUME Inv, Orderly PROVE Alive \subseteq {ref} /\ Cardinality(open) <= 1
        BY DEF OnlyRefRuns
    <2>1. CASE open = {}
        BY <2>1, FS_EmptySet DEF Inv, Controls, RefRuns
    <2>2. CASE open # {}
        <3>1. PICK p \in open : open = {p}
            BY <2>2 DEF Inv, Books
        <3> QED BY <3>1, FS_Singleton DEF Inv, Controls, RefRuns
    <2> QED BY <2>1, <2>2
<1> QED BY <1>1, LifecycleInvariant, PTL

\* A reset leaves no position, and none is opened without a wallet.
THEOREM WalletsOutlivePositions == Spec => []NoPositionWithoutWallet
<1>1. Inv => NoPositionWithoutWallet
    BY DEF Inv, Books, NoPositionWithoutWallet
<1> QED BY <1>1, LifecycleInvariant, PTL

\* However requests overlap, an exit closes what it was asked for.
THEOREM ExitsIntended == Spec => []ExitHitsIntended
<1>1. Inv => ExitHitsIntended
    BY DEF Inv, Exits, ExitHitsIntended
<1> QED BY <1>1, LifecycleInvariant, PTL

\* No request is slept on.
THEOREM WakesInTime == Spec => []NoLostWake
<1>1. Inv => NoLostWake
    <2> SUFFICES ASSUME Inv, Orderly, NEW t \in Alive, engine[t] = "sleep", ~wake
                 PROVE  /\ commands # <<>> /\ seen[t] => Nudging
                        /\ stop => Waking
        BY DEF NoLostWake, Nudging, Waking
    <2> QED BY DEF Inv, Wakes, Alive
<1> QED BY <1>1, LifecycleInvariant, PTL

==============================================================================
