---------------------------- MODULE ReflectionLoop ----------------------------
(***************************************************************************)
(* The periodic learning loop of one AI trader: once per period the engine *)
(* thread looks back over the trades realized since the last reflection,   *)
(* asks a model for a lesson and new playbook rules, and files what comes  *)
(* of it as a proposal; then two mechanical proposers look at calibration  *)
(* and at the record of the playbook in force.  Nothing is applied without *)
(* an operator, who decides between any two steps.  The cadence lives in   *)
(* memory, the watermark in the ledger.  ProposalGate models deciding and  *)
(* applying in detail; here both are one step.                             *)
(***************************************************************************)
EXTENDS Integers, Sequences, SequencesExt, FiniteSets

CONSTANTS
    PollSec, MinTrades,     \* reflection_poll_sec, reflection_min_trades
    BandMin, RollbackMin,   \* evidence asked for by the two proposers
    Bands,                  \* lower ends of the confidence bands
    PastPlaybooks, PastOutcomes,    \* what the ledger holds when the run begins
    MaxTime, MaxOutcomes, MaxCritiques, MaxCrashes      \* bounds

ASSUME ReflectionAssumption ==
    /\ PollSec \in Nat /\ MinTrades \in Nat /\ BandMin \in Nat /\ RollbackMin \in Nat
    /\ Bands \subseteq Nat
    /\ MaxTime \in Nat /\ MaxOutcomes \in Nat
    /\ MaxCritiques \in Nat /\ MaxCrashes \in Nat

Never == -1
NoVersion == [rollback |-> FALSE, at |-> Never]     \* trades on the base prompt

\* The outcomes of earlier runs, numbered.
ASSUME OutcomesAssumption ==
    /\ IsFiniteSet(PastOutcomes)
    /\ \A o \in PastOutcomes : o.id \in 1 .. Cardinality(PastOutcomes) /\ o.at \in Int /\ o.at <= 0
    /\ \A o, p \in PastOutcomes : o.id = p.id => o = p

\* The playbooks of earlier runs: each superseded the one before, a rollback with the rules
\* of an earlier one.
ASSUME PlaybooksAssumption ==
    /\ PastPlaybooks \in Seq([version : [rollback : BOOLEAN, at : Int], rules : [rollback : BOOLEAN, at : Int],
                              parent : [rollback : BOOLEAN, at : Int], retired : BOOLEAN])
    /\ \A i \in DOMAIN PastPlaybooks :
          LET b == PastPlaybooks[i] IN
          /\ b.version.at < Never /\ b.retired = (i < Len(PastPlaybooks))
          /\ b.parent = IF i = 1 THEN NoVersion ELSE PastPlaybooks[i - 1].version
          /\ \A j \in DOMAIN PastPlaybooks : b.version = PastPlaybooks[j].version => i = j
          /\ IF b.version.rollback
             THEN \E j \in 1 .. i - 1 : b.rules = PastPlaybooks[j].version
             ELSE b.rules = b.version

VARIABLES
    now,
    outcomes,       \* trade_outcomes joined with the entry decision
    reflections,    \* rows, oldest first
    proposals,      \* rows, oldest first; a param's or a playbook's payload
    playbooks,      \* rows, oldest first; rules are named by the version that wrote them
    last,           \* ReflectionRunner._last, in memory
    job,            \* where run() is, with what it has read
    consults,       \* calls of the model
    crashes,
    refused,        \* history: proposals of rules a busy ledger has refused
    abandoned       \* history: rules an operator rolled back from and has not restored since

store == <<outcomes, reflections, proposals, playbooks>>
vars == <<now, store, last, job, consults, crashes, refused, abandoned>>

Idle == [step |-> "idle"]

Init ==
    /\ now = 0
    /\ outcomes = PastOutcomes /\ playbooks = PastPlaybooks
    /\ reflections = <<[kind |-> "periodic", from |-> 0, to |-> 0,
                        trades |-> {o.id : o \in PastOutcomes}, version |-> NoVersion]>>
    /\ proposals = <<>>
    /\ last = Never /\ job = Idle
    /\ consults = 0 /\ crashes = 0 /\ refused = 0
    /\ abandoned = {}

------------------------------------------------------------------------------
(* Reading the ledger *)

RowsOf(rows, P(_)) == {i \in DOMAIN rows : P(rows[i])}
Current == LET live(b) == ~b.retired IN
           IF RowsOf(playbooks, live) = {} THEN NoVersion
           ELSE playbooks[CHOOSE i \in RowsOf(playbooks, live) :
                              \A j \in RowsOf(playbooks, live) : j <= i].version
Playbook(v) == CHOOSE b \in {playbooks[i] : i \in DOMAIN playbooks} : b.version = v
Pending == LET open(p) == p.status = "pending" IN {proposals[i] : i \in RowsOf(proposals, open)}

\* mutant: a critique of one trade is taken for the watermark
WatermarkOfAny == reflections[Len(reflections)].to
\* Where the last periodic reflection ended.
Watermark ==
    LET periodic(r) == r.kind = "periodic"
        rows == RowsOf(reflections, periodic)
    IN reflections[CHOOSE i \in rows : \A j \in rows : j <= i].to

\* The outcomes realized since, and not after now (the embargo).
Fresh == {o \in outcomes : o.at > Watermark /\ o.at <= now}

Wins(S) == Cardinality({o \in S : o.win})

------------------------------------------------------------------------------
(* The engine's tick: a trade may be realized, then the job is due or not *)

\* A trade's version is the one its entry was decided under: the one in force, or still
\* the one before.
EntryVersions ==
    {playbooks[i].version : i \in {j \in DOMAIN playbooks : j >= Len(playbooks) - 1}}

\* A position closes or not; then run_tick calls the runner.
Tick ==
    /\ job = Idle /\ now < MaxTime
    /\ now' = now + 1
    /\ \/ UNCHANGED outcomes
       \/ /\ Cardinality(outcomes) < MaxOutcomes
          /\ \E v \in EntryVersions, win \in BOOLEAN, band \in Bands :
                outcomes' = outcomes \cup
                    {[id |-> Cardinality(outcomes) + 1, at |-> now + 1,
                      version |-> v, win |-> win, band |-> band]}
    /\ job' = [step |-> "run"]
    /\ UNCHANGED <<reflections, proposals, playbooks, last, consults, crashes, refused, abandoned>>

DueAlways == TRUE           \* mutant: no cadence
Due == last = Never \/ now - last >= PollSec

\* run: stamp first, then run_once, which first looks for enough fresh evidence.
Run ==
    /\ job.step = "run"
    /\ IF ~Due
       THEN job' = Idle /\ UNCHANGED last
       ELSE /\ last' = now
            /\ job' = IF Cardinality(Fresh) < MinTrades
                      THEN [step |-> "calibrate"]
                      ELSE [step |-> "consult", since |-> Watermark,
                            batch |-> {o.id : o \in Fresh}, current |-> Current]
    /\ UNCHANGED <<now, store, consults, crashes, refused, abandoned>>

\* The model errs, or answers nothing that parses, or the ledger is busy when the lesson is
\* to be recorded: no reflection, same watermark.
ConsultFails ==
    /\ job.step = "consult"
    /\ consults' = consults + 1
    /\ job' = [step |-> "calibrate"]
    /\ UNCHANGED <<now, store, last, crashes, refused, abandoned>>

\* A lesson is recorded, with the version its rules would get, if it has any ...
Consult ==
    /\ job.step = "consult"
    /\ consults' = consults + 1
    /\ \E v \in {NoVersion, [rollback |-> FALSE, at |-> now]} :
          /\ reflections' = Append(reflections,
                [kind |-> "periodic", from |-> job.since, to |-> now,
                 trades |-> job.batch, version |-> v])
          /\ job' = IF v = NoVersion THEN [step |-> "calibrate"]
                    ELSE [step |-> "file", version |-> v, parent |-> job.current]
    /\ UNCHANGED <<now, outcomes, proposals, playbooks, last, crashes, refused, abandoned>>

Proposal(payload) == [payload |-> payload, status |-> "pending"]
File(payload) == proposals' = Append(proposals, Proposal(payload))

\* mutant: a reflection with rules is not followed up
FileSometimes ==
    /\ job.step = "file"
    /\ job' = [step |-> "calibrate"]
    /\ IF Pending = {}
       THEN File([kind |-> "playbook", version |-> job.version, rules |-> job.version,
                  parent |-> job.parent, rollbackTo |-> NoVersion])
       ELSE UNCHANGED proposals
    /\ UNCHANGED <<now, outcomes, reflections, playbooks, last, consults, crashes, refused, abandoned>>
\* ... and the rules are filed, in a commit of its own.
FileRules ==
    /\ job.step = "file"
    /\ File([kind |-> "playbook", version |-> job.version, rules |-> job.version,
             parent |-> job.parent, rollbackTo |-> NoVersion])
    /\ job' = [step |-> "calibrate"]
    /\ UNCHANGED <<now, outcomes, reflections, playbooks, last, consults, crashes, refused, abandoned>>

------------------------------------------------------------------------------
(* propose_confidence_floor *)

InBand(b) == {o \in outcomes : o.band = b}
Sized == {b \in Bands : InBand(b) # {} /\ Cardinality(InBand(b)) >= BandMin}
Clearing == {b \in Sized : 2 * Wins(InBand(b)) >= Cardinality(InBand(b))}
Failing == Sized \ Clearing
\* The lowest band that performs, if it shuts out one that does not.
Floors == {b \in Clearing : /\ \A c \in Clearing : b <= c
                            /\ \E f \in Failing : f < b}

FloorPending(b) == \E p \in Pending : p.payload.kind = "param"

Calibrate ==
    /\ job.step = "calibrate"
    /\ LET floors == {b \in Floors : ~FloorPending(b)} IN
       IF floors = {} THEN UNCHANGED proposals
       ELSE File([kind |-> "param", floor |-> CHOOSE b \in floors : TRUE])
    /\ job' = [step |-> "rollback"]
    /\ UNCHANGED <<now, outcomes, reflections, playbooks, last, consults, crashes, refused, abandoned>>

------------------------------------------------------------------------------
(* propose_rollback *)

Under(v) == {o \in outcomes : o.version = v}
Evidence(v) == Under(v) # {} /\ Cardinality(Under(v)) >= RollbackMin
\* A worse average and a worse win rate (one unit per trade: the same comparison).
Degraded(v, parent) ==
    Wins(Under(v)) * Cardinality(Under(parent)) < Wins(Under(parent)) * Cardinality(Under(v))

MayRollBackAny(v) == v # NoVersion      \* mutant: rolls back from a rollback
\* There is a parent to go back to, and v is not a rollback itself.
MayRollBack(v) == v # NoVersion /\ ~v.rollback

RollbackFresh(parent) == TRUE           \* mutant: no look at what is pending
NotPending(parent) ==
    ~\E p \in Pending : p.payload.kind = "playbook" /\ p.payload.rollbackTo = parent

ProposeRollback ==
    /\ job.step = "rollback"
    /\ LET v == Current
           parent == Playbook(v).parent
       IN IF /\ MayRollBack(v) /\ parent # NoVersion
             /\ Evidence(v) /\ Evidence(parent) /\ Degraded(v, parent)
             /\ NotPending(parent)
          THEN File([kind |-> "playbook", version |-> [rollback |-> TRUE, at |-> now],
                     rules |-> Playbook(parent).rules, parent |-> v, rollbackTo |-> parent])
          ELSE UNCHANGED proposals
    /\ job' = Idle
    /\ UNCHANGED <<now, outcomes, reflections, playbooks, last, consults, crashes, refused, abandoned>>

------------------------------------------------------------------------------
\* The ledger is busy when a proposal is to be filed: run() swallows it and goes on.
After == [file |-> "calibrate", calibrate |-> "rollback", rollback |-> "idle"]

Refused ==
    /\ job.step \in DOMAIN After
    /\ job' = [step |-> After[job.step]]
    /\ refused' = refused + (IF job.step = "file" THEN 1 ELSE 0)
    /\ UNCHANGED <<now, store, last, consults, crashes, abandoned>>

------------------------------------------------------------------------------
(* The others *)

Critiqued(o) ==
    \E i \in DOMAIN reflections :
        reflections[i].kind = "per_trade" /\ reflections[i].trades = {o.id}

\* reflect_on_trade: at most one critique per trade; it moves no watermark.
Critique(o) ==
    /\ job = Idle
    /\ LET critique(r) == r.kind = "per_trade"
       IN Cardinality(RowsOf(reflections, critique)) < MaxCritiques
    /\ ~Critiqued(o)
    /\ reflections' = Append(reflections,
            [kind |-> "per_trade", from |-> 0, to |-> o.at, trades |-> {o.id},
             version |-> NoVersion])
    /\ UNCHANGED <<now, outcomes, proposals, playbooks, last, job, consults, crashes, refused, abandoned>>

Reject(i) ==
    /\ proposals[i].status = "pending"
    /\ proposals' = [proposals EXCEPT ![i].status = "rejected"]
    /\ UNCHANGED <<now, outcomes, reflections, playbooks, last, job, consults, crashes, refused, abandoned>>

\* Approving a playbook publishes it over whatever is in force by then.
Approve(i) ==
    /\ proposals[i].status = "pending"
    /\ proposals' = [proposals EXCEPT ![i].status = "approved"]
    /\ LET p == proposals[i].payload IN
       IF p.kind # "playbook" THEN UNCHANGED <<playbooks, abandoned>>
       ELSE /\ playbooks' = Append(
                  [j \in DOMAIN playbooks |->
                      [playbooks[j] EXCEPT !.retired = @ \/ playbooks[j].version = Current]],
                  [version |-> p.version, rules |-> p.rules, parent |-> Current,
                   retired |-> FALSE])
            /\ abandoned' = IF p.rollbackTo = NoVersion THEN abandoned
                            ELSE (abandoned \ {p.rules}) \cup {Playbook(p.parent).rules}
    /\ UNCHANGED <<now, outcomes, reflections, last, job, consults, crashes, refused>>

\* A restart forgets the stamps and breaks off the job.
Crash ==
    /\ crashes < MaxCrashes
    /\ crashes' = crashes + 1
    /\ last' = Never /\ job' = Idle
    /\ UNCHANGED <<now, store, consults, refused, abandoned>>

Next ==
    \/ Tick \/ Run \/ Consult \/ ConsultFails \/ FileRules
    \/ Calibrate \/ ProposeRollback \/ Refused
    \/ \E o \in outcomes : Critique(o)
    \/ \E i \in DOMAIN proposals : Reject(i) \/ Approve(i)
    \/ Crash

Spec == Init /\ [][Next]_vars

------------------------------------------------------------------------------
(* Properties *)

Periodic == {reflections[i] : i \in {j \in DOMAIN reflections : reflections[j].kind = "periodic"}}

\* Every outcome behind the watermark was in the batch of exactly one periodic
\* reflection, and none ahead of it in any: failed calls, restarts and critiques of
\* single trades neither skip a trade nor let one be reflected on twice.
ReflectedOnce ==
    \A o \in outcomes :
        Cardinality({r \in Periodic : o.id \in r.trades}) = IF o.at <= Watermark THEN 1 ELSE 0

\* The cadence bounds the calls of the model: but for the first one, and one more per
\* restart, they are a period apart.
CadenceBoundsCalls == consults > 0 => (consults - 1 - crashes) * PollSec < now

\* A reflection that wrote rules has filed them, except for one per crash between the two
\* commits, and one per proposal a busy ledger refused: nothing else loses rules (and
\* nothing files those later, the watermark has passed their trades).
RulesAreFiled ==
    LET written == {r \in Periodic : r.version # NoVersion}
        filed(r) == \E i \in DOMAIN proposals :
                        /\ proposals[i].payload.kind = "playbook"
                        /\ proposals[i].payload.version = r.version
    IN Cardinality({r \in written : ~filed(r)})
          <= crashes + refused + (IF job.step = "file" THEN 1 ELSE 0)

\* The reflection job's account: each trade once, each rule filed, each call in its turn.
ReflectionAccounted == ReflectedOnce /\ RulesAreFiled /\ CadenceBoundsCalls

\* However long an operator waits, one confidence floor is pending at a time, and one
\* rollback to the same parent.
NothingStacked ==
    \A i, j \in DOMAIN proposals :
        /\ i # j /\ proposals[i].status = "pending" /\ proposals[j].status = "pending"
        /\ proposals[i].payload.kind = proposals[j].payload.kind
        => /\ proposals[i].payload.kind # "param"
           /\ \/ proposals[i].payload.rollbackTo # proposals[j].payload.rollbackTo
              \/ proposals[i].payload.rollbackTo = NoVersion

\* No oscillation: what is offered to be restored is nothing an operator has rolled back
\* from, unless he has restored it himself since, by approving an older offer.
NoWalkBack ==
    [][\A i \in DOMAIN proposals' \ DOMAIN proposals :
          LET p == proposals'[i].payload IN
          p.kind = "playbook" /\ p.rollbackTo # NoVersion => p.rules \notin abandoned]_vars
==============================================================================
