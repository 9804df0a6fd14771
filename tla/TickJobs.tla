------------------------------- MODULE TickJobs -------------------------------
(***************************************************************************)
(* One tick of SkillRunner after another, as far as it waits for others:   *)
(* the AI traders consult in turn, each on its own cadence, and the        *)
(* backtest job runs on its own, all in the engine's one thread under one  *)
(* clock, with the process restarted in between or in the middle.          *)
(***************************************************************************)
EXTENDS AiConsult, Backtests

CONSTANTS MaxTime, MaxRestarts      \* bounds

ASSUME TickAssumption == MaxTime \in Nat /\ MaxRestarts \in Nat

VARIABLES
    turn,           \* brains this tick has still to ask; Job when it comes to the job
    started,        \* when the tick began
    restarts

Job == <<"job">>
Rest == <<"rest">>
Down == <<"down">>       \* no engine runs
tickVars == <<turn, started, restarts>>
vars == <<now, consultVars, jobVars, tickVars>>

Init ==
    /\ ConsultInit /\ JobInit /\ SelectBroker(env.arms) = "broker"
    /\ turn = Rest /\ started = 0 /\ restarts = 0

Tick ==
    /\ turn = Rest /\ turn' = Append(Roster, "job") /\ started' = now
    /\ UNCHANGED <<now, consultVars, jobVars, restarts>>

Asking == turn \notin {Job, Rest, Down}

\* Waiting for its next check: HOLD.  (Or nobody there.)
Hold ==
    /\ Asking /\ consult = NoConsult /\ (Head(turn) # NoBrain => ~Due(Head(turn)))
    /\ turn' = Tail(turn)
    /\ UNCHANGED <<now, consultVars, jobVars, started, restarts>>

Ask ==
    /\ Asking /\ Head(turn) # NoBrain
    /\ \E answers, locked \in SUBSET Sources : Prompt(Head(turn), answers, locked)
    /\ UNCHANGED <<now, jobVars, tickVars>>

Reply ==
    /\ (\E asked \in Asks : Answer(asked) \/ Malformed(asked)) \/ Unavailable
    /\ turn' = Tail(turn)
    /\ UNCHANGED <<now, jobVars, started, restarts>>

JobNotDue ==
    /\ turn = Job /\ todo = <<>> /\ ~JobDue(now) /\ turn' = Rest
    /\ UNCHANGED <<now, consultVars, jobVars, started, restarts>>

JobStarts ==
    /\ turn = Job /\ \E read \in BOOLEAN : StartJob(now, read)
    /\ turn' = IF todo' = <<>> THEN Rest ELSE Job
    /\ UNCHANGED <<now, consultVars, started, restarts>>

JobGoesOn ==
    /\ turn = Job /\ (Evaluated \/ Raised)
    /\ turn' = IF todo' = <<>> THEN Rest ELSE Job
    /\ UNCHANGED <<now, consultVars, started, restarts>>

Passes ==
    /\ now < MaxTime /\ now' = now + 1
    /\ UNCHANGED <<consultVars, jobVars, tickVars>>

Approve == Publish /\ UNCHANGED <<now, jobVars, tickVars>>

\* engine.run asks for its broker before it builds the roster; without one it raises.
StartsRosterFirst(e) ==         \* mutant
    /\ BootBrains(e) /\ restarts' = restarts + 1
    /\ turn' = IF SelectBroker(e.arms) = "broker" THEN Rest ELSE Down

Starts(e) ==
    IF SelectBroker(e.arms) = "broker"
    THEN BootBrains(e) /\ restarts' = restarts + 1 /\ turn' = Rest
    ELSE /\ env' = e /\ turn' = Down
         /\ last' = [n \in Names |-> Never] /\ gap' = last' /\ tried' = last'
         /\ UNCHANGED <<wallets, approved, restarts>>

\* The process ends anywhere and starts again, perhaps with another environment.
Restart ==
    /\ restarts < MaxRestarts
    /\ \E e \in Environments : Starts(e)
    /\ JobLost
    /\ consult' = NoConsult /\ started' = now
    /\ UNCHANGED <<now, cache, playbook, usable, shown, kept, decided>>

Next ==
    \/ Tick \/ Hold \/ Ask \/ Reply
    \/ JobNotDue \/ JobStarts \/ JobGoesOn
    \/ Passes
    \/ Approve
    \/ Restart

Spec == Init /\ [][Next]_vars

------------------------------------------------------------------------------
(* Properties *)

\* When a tick has asked its brains, each has been consulted in this tick or less than its
\* interval (or the floor, when that is longer) before it: whatever they answered, none has
\* put itself to sleep for longer, and none has waited for a slower one.  (No brain is
\* switched off or tripped here; PaperEngine has those.)
NeverSilent ==
    turn = Job => \A n \in Brains(env) :
        /\ tried[n] # Never
        /\ started - tried[n] < Greatest(1, Greatest(MinInterval, Interval(env, n)))

\* A start with real orders in mind, complete or half armed, ends before it has left a trace
\* in the ledger, and so does all that happens until the next one.
RefusedStartIsInert ==
    [][SelectBroker(env'.arms) # "broker" => UNCHANGED <<wallets, cache, decided, rows>>]_vars

\* No start mints a trader the operator did not approve, and none with real orders in mind
\* leaves a trace.
StartsAreGated == []OnlyApprovedTrade /\ RefusedStartIsInert

\* A brain sets its own pace between the floor and its interval, and not outside.
Paced == []NeverSilent /\ NeverHasty
==============================================================================
