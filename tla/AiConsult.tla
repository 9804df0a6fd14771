------------------------------ MODULE AiConsult ------------------------------
(***************************************************************************)
(* The AI traders: which of them an environment brings up, when each one   *)
(* consults its model, and what it is shown.  Every brain keeps its own    *)
(* wall-clock cadence in memory, which its answers may shorten; the        *)
(* readings of the external sources are cached in the ledger, one row for  *)
(* all brains, and the playbook is the operator's latest approved one.     *)
(*                                                                         *)
(* The steps of one consult are actions here; TickJobs puts them into the  *)
(* tick of the engine.  What the model decides is PaperEngine's subject,   *)
(* and the charts it asks to see are left out.                             *)
(***************************************************************************)
EXTENDS Arming, Sequences, FiniteSets

CONSTANTS
    Order,          \* provider names, sorted
    Builtin,        \* those with Config fields of their own
    BuiltinBackend, BuiltinPoll,    \* by built-in name
    KnownBackends,  \* llm_backends.BACKENDS
    Environments,   \* what the operator may have set when a process starts
    DefaultPoll,    \* DEFAULT_POLL_SEC
    MinInterval,    \* min_interval_sec
    Asks,           \* next_check_in_sec an answer may name
    Lag,            \* how old what a source says is when it says it
    Sources, MaxAge, \* external signals, and by source how long a reading is fresh
    MaxVersion      \* bound on the playbooks approved

Names == {Order[i] : i \in DOMAIN Order}
Unset == -1             \* no poll_sec
NoBackend == "none"
NoBrain == "none"       \* in the roster: a name without a brain

\* fields: the built-ins enabled by Config, with their poll_sec.
Environment == [fields : [Builtin -> Nat \cup {Unset}], flags : SUBSET Names,
                whitelist : SUBSET Names, backend : [Names -> STRING],
                poll : [Names -> Nat \cup {Unset}], arms : Arms]

ASSUME ConsultAssumption ==
    /\ Order \in Seq(STRING) /\ NoBrain \notin Names
    /\ Builtin \subseteq Names /\ NoBackend \notin KnownBackends
    /\ BuiltinBackend \in [Builtin -> KnownBackends] /\ BuiltinPoll \in [Builtin -> Nat]
    /\ DefaultPoll \in Nat /\ MinInterval \in Nat /\ Asks \subseteq Nat
    /\ MaxAge \in [Sources -> Nat] /\ MaxVersion \in Nat /\ Lag \in Nat
    /\ \A e \in Environments : e \in Environment

VARIABLES
    now,            \* wall clock
    env,            \* the environment of the process
    wallets,        \* strategies ensure_strategy made a wallet for
    last, gap,      \* by brain: _last_decision_ts, _next_interval_sec (in memory)
    cache,          \* by source: its signal_cache row
    playbook,       \* version of the current playbook, 0 for none (one for all brains)
    usable,         \* its rules_json parses to at least one rule
    consult,        \* the consult under way
    approved,       \* history: names some environment so far approved
    tried,          \* history, by brain: the last consult of this process, answered or not
    shown,          \* history, by source: fetched_at of the reading last shown to a brain
    kept,           \* history, by source: when it last answered, Never if its row did not take it
    decided         \* history, by brain: version claimed and rules shown, last decision

memory == <<last, gap, tried>>
store == <<wallets, cache, playbook, usable>>
consultVars == <<env, memory, store, consult, approved, shown, kept, decided>>

Never == -1
NoConsult == [brain |-> NoBrain]
NoRow == [at |-> Never, ts |-> Never]
Least(a, b) == IF a < b THEN a ELSE b
Greatest(a, b) == IF a < b THEN b ELSE a

------------------------------------------------------------------------------
(* ai_traders: from the environment to the brains *)

Approved(e) == Builtin \cup e.whitelist

Backend(e, n) ==
    IF e.backend[n] # NoBackend THEN e.backend[n]
    ELSE IF n \in Builtin THEN BuiltinBackend[n] ELSE NoBackend

DiscoveredUnasked(e) ==         \* mutant: looks at the flag alone
    {n \in e.flags : Backend(e, n) \in KnownBackends}

Discovered(e) == {n \in e.flags : n \in Approved(e) /\ Backend(e, n) \in KnownBackends}

Brains(e) == {n \in Builtin : e.fields[n] # Unset} \cup Discovered(e)

\* An explicit poll in the environment wins over the Config field, that over the default.
Interval(e, n) ==
    IF n \in Discovered(e) /\ e.poll[n] # Unset THEN e.poll[n]
    ELSE IF n \in Builtin /\ e.fields[n] # Unset THEN e.fields[n]
    ELSE IF n \in Builtin THEN BuiltinPoll[n] ELSE DefaultPoll

\* Sorted by name, with a gap where a name has no brain.
Roster == [i \in DOMAIN Order |-> IF Order[i] \in Brains(env) THEN Order[i] ELSE NoBrain]

\* SkillRunner.__init__: a wallet for every brain, and brains without a memory.
BootBrains(e) ==
    /\ env' = e /\ wallets' = wallets \cup Brains(e)
    /\ last' = [n \in Names |-> Never] /\ gap' = [n \in Names |-> Interval(e, n)]
    /\ approved' = approved \cup Approved(e)
    /\ tried' = [n \in Names |-> Never]

------------------------------------------------------------------------------
(* LlmTrader.on_candle *)

Due(n) == last[n] = Never \/ now - last[n] >= gap[n]

FreshByTs(s) ==                 \* mutant: ages a reading by its own time, not the fetch
    cache[s].at # Never /\ now - cache[s].ts < MaxAge[s]

\* cached_signal: a fresh row is served; else the source is asked, and a failure falls back
\* to the row there is.
Fresh(s) == cache[s].at # Never /\ now - cache[s].at < MaxAge[s]

ServedOrNone(s, answers) ==    \* mutant: a failed fetch overwrites the row
    IF Fresh(s) THEN cache[s]
    ELSE IF s \in answers THEN [at |-> now, ts |-> now - Lag] ELSE NoRow

Served(s, answers) ==
    IF ~Fresh(s) /\ s \in answers THEN [at |-> now, ts |-> now - Lag] ELSE cache[s]

\* The sources a consult asks at all: those without a fresh row.
Stale == {s \in Sources : ~Fresh(s)}

\* The prompt: the playbook as it is now, claimed only when a rule of it is really there,
\* and a reading of every source.  answers are the sources that answer when asked, locked
\* those whose row the ledger is too busy to take: the write raises, so the answer is lost
\* to the row and to this prompt.
Prompt(n, answers, locked) ==
    LET version == IF usable THEN playbook ELSE 0
        lost == Stale \cap answers \cap locked IN
    /\ consult = NoConsult /\ Due(n)
    /\ cache' = [s \in Sources |-> IF s \in lost THEN cache[s] ELSE Served(s, answers)]
    /\ shown' = [s \in Sources |-> IF s \in lost THEN shown[s] ELSE cache'[s].at]
    /\ kept' = [s \in Sources |-> IF s \in lost THEN Never
                                  ELSE IF s \in Stale \cap answers THEN now ELSE kept[s]]
    /\ consult' = [brain |-> n, at |-> now, version |-> version, rules |-> version,
                   asked |-> Stale]
    /\ tried' = [tried EXCEPT ![n] = now]
    /\ UNCHANGED <<env, last, gap, wallets, playbook, usable, approved, decided>>

ClampNoCap(asked, interval) == Greatest(MinInterval, asked)     \* mutant
ClampNoFloor(asked, interval) == Least(asked, interval)         \* mutant
Clamp(asked, interval) == Greatest(MinInterval, Least(asked, interval))

ClaimedLate == IF usable THEN playbook ELSE 0       \* mutant: looks the version up again

Claimed == consult.version

Stamp == consult.at     \* on_candle took its clock before the charts and the call

\* A whole answer sets the pace of the next consult.
Answer(asked) ==
    LET n == consult.brain IN
    /\ consult # NoConsult /\ consult' = NoConsult
    /\ last' = [last EXCEPT ![n] = Stamp]
    /\ gap' = [gap EXCEPT ![n] = Clamp(asked, Interval(env, n))]
    /\ decided' = [decided EXCEPT ![n] = [claimed |-> Claimed, rules |-> consult.rules]]
    /\ UNCHANGED <<env, tried, store, approved, shown, kept>>

\* JSON without an action, or with a confidence or a chart limit of the wrong type, which is
\* noticed after the pace is set: the call counts for the cadence.
Malformed(asked) ==
    /\ consult # NoConsult /\ consult' = NoConsult
    /\ last' = [last EXCEPT ![consult.brain] = Stamp]
    /\ gap' \in {gap, [gap EXCEPT ![consult.brain] = Clamp(asked, Interval(env, consult.brain))]}
    /\ UNCHANGED <<env, tried, store, approved, shown, kept, decided>>

\* No key, no SDK, a timeout, no JSON: HOLD, and due again at the next tick.
Unavailable ==
    /\ consult # NoConsult /\ consult' = NoConsult
    /\ UNCHANGED <<env, memory, store, approved, shown, kept, decided>>

\* The operator approves a playbook at any moment; its rules may be empty or malformed.
Publish ==
    /\ playbook < MaxVersion /\ playbook' = playbook + 1
    /\ usable' \in BOOLEAN
    /\ UNCHANGED <<env, memory, wallets, cache, consult, approved, shown, kept, decided>>

ConsultInit ==
    /\ now = 0 /\ env \in Environments
    /\ wallets = Brains(env) /\ approved = Approved(env)
    /\ last = [n \in Names |-> Never] /\ gap = [n \in Names |-> Interval(env, n)]
    /\ tried = last
    /\ cache = [s \in Sources |-> NoRow] /\ shown = [s \in Sources |-> Never]
    /\ kept = shown
    /\ playbook = 0 /\ usable = FALSE
    /\ consult = NoConsult
    /\ decided = [n \in Names |-> [claimed |-> 0, rules |-> 0]]

------------------------------------------------------------------------------
(* Properties *)

\* Only an approved name ever gets a wallet and a brain, whatever flags were set over the
\* restarts: a built-in, or one the operator put on the whitelist at the time.
OnlyApprovedTrade == wallets \subseteq approved

\* A decision claims the playbook whose rules its prompt held, also when a new one is
\* approved while the model thinks, and claims none when no rule was shown.
ClaimsWhatItSaw == \A n \in Names : decided[n].claimed = decided[n].rules

\* No answer hurries its brain beyond the floor, and none is asked for while the last holds.
NeverHasty ==
    [][\A n \in Names : last[n] # Never /\ last'[n] \notin {last[n], Never} =>
           last'[n] - last[n] >= Least(MinInterval, Interval(env, n))]_last

\* The brains share one row per source: a reading, once had, is never followed by an older
\* one or by none, over failing fetches, restarts and consults that went without.
NeverOlderReading == [][\A s \in Sources : shown'[s] >= shown[s]]_shown

\* However many brains ask and however often the process restarts, no source is asked
\* within max_age of its last answer.  The one exception is an answer the ledger was too busy
\* to keep: the next brain asks again, also in the same tick.
GentleOnSources ==
    [][consult = NoConsult /\ consult' # NoConsult =>
           \A s \in consult'.asked : kept[s] # Never => now - kept[s] >= MaxAge[s]]_consult

\* The cache serves both sides: the brains are never worse informed than before, the sources
\* are not pestered.
CacheServesAll == NeverOlderReading /\ GentleOnSources
==============================================================================
