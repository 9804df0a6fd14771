---------------------------- MODULE StrategyIntake ----------------------------
(***************************************************************************)
(* How a strategy comes to be proposed for enabling: the daily research    *)
(* scan files what a model suggests, and evaluate_and_maybe_promote files  *)
(* the challenger of an experiment that won out of sample.  Both file      *)
(* 'strategy_toggle' proposals that an operator decides, each with its own *)
(* rule against filing twice: research compares names lower-cased, the     *)
(* promotion as they are written.  A promotion is filed before its         *)
(* experiment is concluded, so a crash or a busy ledger in between leaves  *)
(* it to be evaluated again.                                               *)
(* (Nothing in the program calls evaluate_and_maybe_promote yet; it is one *)
(* caller at a time here, as its tests call it.)                           *)
(***************************************************************************)
EXTENDS Integers, Sequences, FiniteSets

CONSTANTS
    Names,          \* strategy names, as written
    Key,            \* by name: it lower-cased
    Experiments,
    Challenger,     \* by experiment: variant_a
    PollSec, MaxCandidates,     \* research_poll_sec, research_max_candidates
    Cooldown,       \* DEFAULT_REJECT_COOLDOWN_MS
    RecentLimit,    \* rows recent_proposals() looks back over
    Unusable,       \* a candidate without a name, or that touches a protected field
    NoExperiment,
    MaxTime, MaxProposals, MaxCrashes   \* bounds

ASSUME IntakeAssumption ==
    /\ Key \in [Names -> STRING] /\ Challenger \in [Experiments -> Names]
    /\ PollSec \in Nat /\ MaxCandidates \in Nat /\ Cooldown \in Nat
    /\ RecentLimit \in Nat \ {0} /\ NoExperiment \notin Experiments /\ Unusable \notin Names
    /\ MaxTime \in Nat /\ MaxProposals \in Nat /\ MaxCrashes \in Nat

VARIABLES
    now,
    proposals,      \* 'strategy_toggle' rows, oldest first
    lastId,         \* id of the newest row of the table, whatever its kind
    experiments,    \* by experiment: its row
    lastScan,       \* ResearchRunner._last, in memory
    job,            \* the scan or the evaluation under way
    crashes,
    cutOff          \* history: experiments whose conclusion a crash or a busy ledger cut off

vars == <<now, proposals, lastId, experiments, lastScan, job, crashes, cutOff>>

Never == -1
Idle == [step |-> "idle"]
Unborn == [status |-> "none", result |-> "none"]

Init ==
    /\ now = 0 /\ proposals = <<>> /\ lastId = 0
    /\ experiments = [e \in Experiments |-> Unborn]
    /\ lastScan = Never /\ job = Idle /\ crashes = 0 /\ cutOff = {}

Indices == DOMAIN proposals
Pending(name) == \E i \in Indices : proposals[i].name = name /\ proposals[i].status = "pending"

\* filedAt and experiment are history: create_proposal keeps the one as created_ts, and
\* the other in the rationale only.
File(name, e) ==
    /\ lastId < MaxProposals
    /\ lastId' = lastId + 1
    /\ proposals' = Append(proposals, [id |-> lastId + 1, name |-> name, status |-> "pending",
                                       decidedAt |-> Never, filedAt |-> now, experiment |-> e])

------------------------------------------------------------------------------
(* ResearchRunner.run and StrategyResearcher.run_once *)

Batches == UNION {[1 .. n -> Names \cup {Unusable}] : n \in 0 .. MaxCandidates}

\* Stamp, ask the model, then look at what is pending.  A failed call has no candidates.
Scan ==
    /\ job = Idle
    /\ lastScan = Never \/ now - lastScan >= PollSec
    /\ lastScan' = now
    /\ \E batch \in Batches :
          job' = [step |-> "scan", batch |-> batch,
                  known |-> {Key[proposals[i].name] :
                                i \in {j \in Indices : proposals[j].status = "pending"}}]
    /\ UNCHANGED <<now, proposals, lastId, experiments, crashes, cutOff>>

\* mutant: forgets what it has filed from this batch
AlsoKnown(name) == job.known
NowKnown(name) == job.known \cup {Key[name]}

\* One candidate after the other, each in a commit of its own.
ScanStep ==
    /\ job.step = "scan"
    /\ IF job.batch = <<>>
       THEN job' = Idle /\ UNCHANGED <<proposals, lastId>>
       ELSE LET name == Head(job.batch)
                rest == [job EXCEPT !.batch = Tail(job.batch)]
            IN IF name = Unusable \/ (name \in Names /\ Key[name] \in job.known)
               THEN job' = rest /\ UNCHANGED <<proposals, lastId>>
               ELSE /\ File(name, NoExperiment)
                    /\ job' = [rest EXCEPT !.known = NowKnown(name)]
    /\ UNCHANGED <<now, experiments, lastScan, crashes, cutOff>>

------------------------------------------------------------------------------
(* Experiments and their promotion *)

CreateExperiment(e) ==
    /\ experiments[e] = Unborn
    /\ experiments' = [experiments EXCEPT ![e] = [status |-> "running", result |-> "none"]]
    /\ UNCHANGED <<now, proposals, lastId, lastScan, job, crashes, cutOff>>

\* What the samples show: a window free of memorized data, enough of them, and the
\* outcome of the two-sample test after correction.
Evidence == [trusted : BOOLEAN, enough : BOOLEAN, won : BOOLEAN, clearsMde : BOOLEAN,
             significant : BOOLEAN]

\* promotion_decision
Promotes(ev) == ev.enough /\ ev.won /\ ev.clearsMde /\ ev.significant

\* Untrusted evidence and samples too small to test are concluded without a filing; a win
\* is filed first.
Verdict(e) ==
    \E ev \in Evidence :
        LET result == IF ~ev.trusted THEN "untrusted"
                      ELSE IF Promotes(ev) THEN "promote" ELSE "inconclusive"
        IN job' = [step |-> IF result = "promote" THEN "file" ELSE "conclude",
                   experiment |-> e, result |-> result]

Evaluate(e) ==
    /\ job = Idle /\ experiments[e].status = "running"
    /\ Verdict(e)
    /\ UNCHANGED <<now, proposals, lastId, experiments, lastScan, crashes, cutOff>>

\* recent_proposals: the newest rows only, of every kind.
Recent == {i \in Indices : proposals[i].id > lastId - RecentLimit}

BlockedByPending(name) == Pending(name)     \* mutant: rejections are forgotten

\* _promotion_blocked: the same toggle, written the same, is pending or was rejected lately.
Blocked(name) ==
    \/ Pending(name)
    \/ \E i \in Recent : /\ proposals[i].name = name /\ proposals[i].status = "rejected"
                         /\ now - proposals[i].decidedAt < Cooldown

\* File first ...
FilePromotion ==
    /\ job.step = "file"
    /\ LET name == Challenger[job.experiment] IN
       IF Blocked(name) THEN UNCHANGED <<proposals, lastId>>
       ELSE File(name, job.experiment)
    /\ job' = [job EXCEPT !.step = "conclude"]
    /\ UNCHANGED <<now, experiments, lastScan, crashes, cutOff>>

\* mutant: the row is not marked as ended
ConcludeOpen ==
    /\ job.step = "conclude"
    /\ experiments' = [experiments EXCEPT ![job.experiment].result = job.result]
    /\ job' = Idle
    /\ UNCHANGED <<now, proposals, lastId, lastScan, crashes, cutOff>>
\* ... then conclude.
Conclude ==
    /\ job.step = "conclude"
    /\ experiments' = [experiments EXCEPT ![job.experiment].status = "concluded",
                                          ![job.experiment].result = job.result]
    /\ job' = Idle
    /\ UNCHANGED <<now, proposals, lastId, lastScan, crashes, cutOff>>

------------------------------------------------------------------------------
(* The others *)

CutOff == IF job.step = "conclude" THEN cutOff \cup {job.experiment} ELSE cutOff

\* The ledger is busy: research drops the candidate and goes on, an evaluation raises.
Refused ==
    /\ \/ /\ job.step = "scan" /\ job.batch # <<>>
          /\ job' = [job EXCEPT !.batch = Tail(job.batch)]
       \/ job.step \in {"file", "conclude"} /\ job' = Idle
    /\ cutOff' = CutOff
    /\ UNCHANGED <<now, proposals, lastId, experiments, lastScan, crashes>>

\* The rest of the program proposes parameters, playbooks and code into the same table.
FileOther ==
    /\ lastId < MaxProposals
    /\ lastId' = lastId + 1
    /\ UNCHANGED <<now, proposals, experiments, lastScan, job, crashes, cutOff>>

Decide(i, status) ==
    /\ proposals[i].status = "pending"
    /\ proposals' = [proposals EXCEPT ![i].status = status, ![i].decidedAt = now]
    /\ UNCHANGED <<now, lastId, experiments, lastScan, job, crashes, cutOff>>

Wait ==
    /\ now < MaxTime
    /\ now' = now + 1
    /\ UNCHANGED <<proposals, lastId, experiments, lastScan, job, crashes, cutOff>>

Crash ==
    /\ crashes < MaxCrashes
    /\ crashes' = crashes + 1
    /\ lastScan' = Never /\ job' = Idle
    /\ cutOff' = CutOff
    /\ UNCHANGED <<now, proposals, lastId, experiments>>

Next ==
    \/ Scan \/ ScanStep
    \/ \E e \in Experiments : CreateExperiment(e) \/ Evaluate(e)
    \/ FilePromotion \/ Conclude
    \/ \E i \in Indices, status \in {"approved", "rejected"} : Decide(i, status)
    \/ Refused \/ FileOther \/ Wait \/ Crash

Spec == Init /\ [][Next]_vars

------------------------------------------------------------------------------
(* Properties *)

\* No two pending proposals to enable a strategy, whichever of research and promotion files
\* first - as far as either can tell: written the same there are never two, and research
\* adds none to what is pending in any spelling.  A promotion may, beside another spelling.
OnePendingToggle ==
    \A i, j \in Indices :
        i < j /\ proposals[i].status = "pending" /\ proposals[j].status = "pending"
        => /\ proposals[i].name # proposals[j].name
           /\ Key[proposals[i].name] = Key[proposals[j].name]
              => proposals[j].experiment # NoExperiment

\* An experiment's promotion is filed again only when its own conclusion was cut off, by a
\* crash or a busy ledger, and only once the first filing has been decided: a re-run
\* "completes it without double-filing" as long as the operator has not answered in between.
FiledAgainOnlyAfterCut ==
    \A i, j \in Indices :
        i < j /\ proposals[i].experiment = proposals[j].experiment
              /\ proposals[i].experiment # NoExperiment
        => /\ proposals[i].experiment \in cutOff
           /\ proposals[i].decidedAt # Never /\ proposals[i].decidedAt <= proposals[j].filedAt

\* Nobody is asked the same thing twice.
AskedOnce == OnePendingToggle /\ FiledAgainOnlyAfterCut

\* A strategy that was just rejected is not promoted again, written the same, within the
\* cooldown, unless enough proposals of any kind have come in between to push the rejection
\* out of sight.
CooldownHeld ==
    \A i, j \in Indices :
        /\ i < j /\ proposals[i].name = proposals[j].name
        /\ proposals[i].status = "rejected" /\ proposals[j].experiment # NoExperiment
        /\ proposals[j].filedAt - proposals[i].decidedAt < Cooldown
        => proposals[j].id - proposals[i].id > RecentLimit

==============================================================================
