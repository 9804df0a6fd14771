------------------------- MODULE StrategyIntakeProofs -------------------------
(* Theorems about StrategyIntake, for every set of names and experiments, every
   spelling, poll, cooldown and bound, and any number of crashes. *)
EXTENDS StrategyIntake, TLAPS

------------------------------------------------------------------------------
(* The inductive invariant *)

Rows == [id : Nat, name : Names, status : {"pending", "approved", "rejected"}, decidedAt : Int,
         filedAt : Int, experiment : Experiments \cup {NoExperiment}]

ScanJobs == [step : {"scan"}, batch : Seq(Names \cup {Unusable}), known : SUBSET STRING]
PromotionJobs == [step : {"file", "conclude"}, experiment : Experiments,
                  result : {"untrusted", "promote", "inconclusive"}]

TypeOK ==
    /\ now \in Nat /\ lastScan \in Int /\ crashes \in Nat /\ lastId \in Nat
    /\ cutOff \subseteq Experiments
    /\ proposals \in Seq(Rows)
    /\ experiments \in [Experiments -> [status : {"none", "running", "concluded"},
                                        result : {"none", "untrusted", "promote", "inconclusive"}]]
    /\ job \in {Idle} \cup ScanJobs \cup PromotionJobs

\* The rows: a decision leaves its date, a promotion is its challenger's, and no name was
\* filed while an earlier proposal of it was pending - by research, of any spelling of it.
Settled(p) ==
    /\ p.status = "pending" <=> p.decidedAt = Never
    /\ p.decidedAt <= now
    /\ p.experiment # NoExperiment => p.name = Challenger[p.experiment]

RowsSound ==
    /\ \A i \in Indices : Settled(proposals[i])
    /\ \A i, j \in Indices : i < j /\ proposals[i].name = proposals[j].name
                             => proposals[i].status # "pending"
    /\ \A i, j \in Indices : /\ i < j /\ proposals[j].experiment = NoExperiment
                              /\ Key[proposals[i].name] = Key[proposals[j].name]
                             => proposals[i].status # "pending"

\* What a scan knows covers all that is pending, and an evaluation is of an experiment
\* that runs.
JobSound ==
    /\ job \in ScanJobs => \A i \in Indices : proposals[i].status = "pending"
                                              => Key[proposals[i].name] \in job.known
    /\ job \in PromotionJobs => experiments[job.experiment].status = "running"

Filed(e) == \E i \in Indices : proposals[i].experiment = e

\* Unless its conclusion was cut off, what was filed has been concluded or is about to be.
FiledThenConcluded ==
    \A e \in Experiments \ cutOff : Filed(e) =>
        \/ experiments[e].status = "concluded"
        \/ job \in PromotionJobs /\ job.step = "conclude" /\ job.experiment = e

Inv ==
    /\ TypeOK /\ RowsSound /\ JobSound /\ FiledThenConcluded
    /\ FiledAgainOnlyAfterCut /\ CooldownHeld

\* Nothing is filed at first.
LEMMA InvInit == Init => Inv
<1> SUFFICES ASSUME Init PROVE Inv
    OBVIOUS
<1>1. Indices = {}
    BY DEF Init, Indices
<1>2. TypeOK
    BY DEF Init, TypeOK, Idle, Unborn, Never
<1>3. job \notin ScanJobs /\ job \notin PromotionJobs
    BY DEF Init, Idle, ScanJobs, PromotionJobs
<1> QED BY <1>1, <1>2, <1>3 DEF Inv, RowsSound, JobSound, FiledThenConcluded, Filed,
                                FiledAgainOnlyAfterCut, CooldownHeld

\* A step of a job tells which job it is.
LEMMA JobKinds ==
    ASSUME TypeOK
    PROVE  /\ job = Idle => job \notin ScanJobs /\ job \notin PromotionJobs
           /\ job \in ScanJobs <=> job.step = "scan"
           /\ job \in PromotionJobs <=> job.step \in {"file", "conclude"}
           /\ ~(job \in ScanJobs /\ job \in PromotionJobs)
BY DEF TypeOK, Idle, ScanJobs, PromotionJobs

\* The rows by their index.
LEMMA RowTypes ==
    ASSUME TypeOK
    PROVE  /\ Indices = 1 .. Len(proposals) /\ Len(proposals) \in Nat /\ now \in Nat
           /\ \A i \in Indices : i \in Nat /\ proposals[i] \in Rows
<1>1. proposals \in Seq(Rows) /\ now \in Nat
    BY DEF TypeOK
<1> QED BY <1>1 DEF Indices

\* Filing appends one row and leaves the others.
LEMMA FileAppends ==
    ASSUME proposals \in Seq(Rows), now \in Nat, lastId \in Nat, NEW name \in Names,
           NEW e \in Experiments \cup {NoExperiment}, File(name, e)
    PROVE  LET n == Len(proposals) + 1 IN
           /\ proposals' \in Seq(Rows) /\ n \in Nat
           /\ Indices = 1 .. Len(proposals) /\ Len(proposals) \in Nat
           /\ Indices' = Indices \cup {n} /\ lastId' = lastId + 1
           /\ \A i \in Indices : proposals'[i] = proposals[i] /\ i \in Nat /\ i < n
           /\ proposals'[n] = [id |-> lastId + 1, name |-> name, status |-> "pending",
                               decidedAt |-> Never, filedAt |-> now, experiment |-> e]
<1> DEFINE row == [id |-> lastId + 1, name |-> name, status |-> "pending",
                   decidedAt |-> Never, filedAt |-> now, experiment |-> e]
<1>1. row \in Rows
    BY DEF Rows, Never
<1>2. proposals' = Append(proposals, row) /\ lastId' = lastId + 1
    BY DEF File
<1> HIDE DEF row
<1>3. LET n == Len(proposals) + 1 IN
      /\ proposals' \in Seq(Rows) /\ n \in Nat
      /\ Indices = 1 .. Len(proposals) /\ Len(proposals) \in Nat
      /\ Indices' = Indices \cup {n}
      /\ \A i \in Indices : proposals'[i] = proposals[i] /\ i \in Nat /\ i < n
      /\ proposals'[n] = row
    BY <1>1, <1>2 DEF Indices
<1> QED BY <1>2, <1>3 DEF row

\* A name that is not pending can be filed: the rows stay sound.
LEMMA FileRows ==
    ASSUME TypeOK, RowsSound, NEW name \in Names, NEW e \in Experiments \cup {NoExperiment},
           File(name, e), UNCHANGED now, ~Pending(name),
           e # NoExperiment => name = Challenger[e],
           e = NoExperiment => \A i \in Indices : proposals[i].status = "pending"
                                                 => Key[proposals[i].name] # Key[name]
    PROVE  RowsSound'
<1> DEFINE n == Len(proposals) + 1
<1>1. /\ n \in Nat /\ Indices' = Indices \cup {n} /\ now \in Nat
      /\ \A i \in Indices : proposals'[i] = proposals[i] /\ i \in Nat /\ i < n
      /\ proposals'[n] = [id |-> lastId + 1, name |-> name, status |-> "pending",
                          decidedAt |-> Never, filedAt |-> now, experiment |-> e]
    BY FileAppends DEF TypeOK
<1> HIDE DEF n
<1>2. \A i \in Indices' : Settled(proposals[i])'
    BY <1>1 DEF RowsSound, Settled, Never
<1>3. \A i, j \in Indices' : i < j /\ proposals'[i].name = proposals'[j].name
                             => proposals'[i].status # "pending"
    BY <1>1 DEF RowsSound, Pending
<1>4. \A i, j \in Indices' : /\ i < j /\ proposals'[j].experiment = NoExperiment
                             /\ Key[proposals'[i].name] = Key[proposals'[j].name]
                             => proposals'[i].status # "pending"
    BY <1>1 DEF RowsSound
<1> QED BY <1>2, <1>3, <1>4 DEF RowsSound

\* Time passing, the jobs' own steps, experiments: rows that nobody touches.
LEMMA SameRows ==
    ASSUME TypeOK, RowsSound, UNCHANGED proposals, now' \in {now, now + 1}
    PROVE  RowsSound'
<1>1. now \in Nat /\ \A i \in Indices : proposals[i].decidedAt \in Int
    BY RowTypes DEF Rows
<1>2. ASSUME NEW i \in Indices PROVE Settled(proposals[i])'
    <2>1. Settled(proposals[i]) /\ proposals[i].decidedAt \in Int /\ proposals' = proposals
        BY <1>1 DEF RowsSound
    <2>2. proposals[i].decidedAt <= now'
        BY <1>1, <2>1 DEF Settled
    <2> QED BY <2>1, <2>2 DEF Settled
<1>3. \A i \in Indices' : Settled(proposals[i])'
    BY <1>2 DEF Indices
<1>4. \A i, j \in Indices' : i < j /\ proposals'[i].name = proposals'[j].name
                             => proposals'[i].status # "pending"
    BY DEF RowsSound, Indices
<1>5. \A i, j \in Indices' : /\ i < j /\ proposals'[j].experiment = NoExperiment
                             /\ Key[proposals'[i].name] = Key[proposals'[j].name]
                             => proposals'[i].status # "pending"
    BY DEF RowsSound, Indices
<1> QED BY <1>3, <1>4, <1>5 DEF RowsSound

\* A scan begins with the names that are pending, and asks of each candidate what it
\* has come to know since.
LEMMA InvScan ==
    ASSUME Inv, Scan
    PROVE  Inv'
<1> USE DEF Inv
<1>1. /\ job \notin PromotionJobs /\ now \in Nat
      /\ UNCHANGED <<now, proposals, lastId, experiments, crashes, cutOff>>
    BY JobKinds DEF Scan, TypeOK
<1>2. PICK batch \in Batches :
          job' = [step |-> "scan", batch |-> batch,
                  known |-> {Key[proposals[i].name] :
                                i \in {j \in Indices : proposals[j].status = "pending"}}]
    BY DEF Scan
<1>3. batch \in Seq(Names \cup {Unusable})
    <2>1. PICK n \in 0 .. MaxCandidates : batch \in [1 .. n -> Names \cup {Unusable}]
        BY DEF Batches
    <2>2. n \in Nat
        BY <2>1, IntakeAssumption
    <2> QED BY <2>1, <2>2
<1>4. job'.known \subseteq STRING
    BY <1>2, RowTypes, IntakeAssumption DEF Rows
<1>5. job' \in ScanJobs /\ job' \notin PromotionJobs
    BY <1>2, <1>3, <1>4 DEF ScanJobs, PromotionJobs
<1>6. TypeOK'
    BY <1>1, <1>5 DEF Scan, TypeOK
<1>7. RowsSound'
    BY <1>1, SameRows
<1>8. JobSound'
    BY <1>1, <1>2, <1>5 DEF JobSound, Indices
<1>9. FiledThenConcluded' /\ FiledAgainOnlyAfterCut' /\ CooldownHeld'
    BY <1>1 DEF FiledThenConcluded, Filed, FiledAgainOnlyAfterCut, CooldownHeld, Indices
<1> QED BY <1>6, <1>7, <1>8, <1>9

\* A name the scan does not know is not pending, in any spelling.
LEMMA ScanIsFresh ==
    ASSUME Inv, job \in ScanJobs, NEW name \in Names, Key[name] \notin job.known
    PROVE  /\ ~Pending(name)
           /\ \A i \in Indices : proposals[i].status = "pending"
                               => Key[proposals[i].name] # Key[name]
BY DEF Inv, JobSound, Pending

\* The next candidate is dropped or filed; a research proposal is no experiment's.
LEMMA InvScanStep ==
    ASSUME Inv, ScanStep
    PROVE  Inv'
<1> USE DEF Inv
<1>1. /\ job \in ScanJobs /\ job \notin PromotionJobs
      /\ UNCHANGED <<now, experiments, lastScan, crashes, cutOff>>
    BY JobKinds DEF ScanStep
<1>2. /\ job.step = "scan" /\ job.batch \in Seq(Names \cup {Unusable})
      /\ job.known \subseteq STRING
    BY <1>1 DEF ScanJobs
<1>3. ASSUME UNCHANGED <<proposals, lastId>>, job' = Idle \/ (job' \in ScanJobs /\ job'.known = job.known)
      PROVE  Inv'
    <2>1. job' \notin PromotionJobs /\ (job' = Idle => job' \notin ScanJobs)
        BY <1>3 DEF Idle, ScanJobs, PromotionJobs
    <2>2. TypeOK' /\ RowsSound'
        BY <1>1, <1>3, SameRows DEF TypeOK
    <2>3. JobSound'
        BY <1>1, <1>3, <2>1 DEF JobSound, Indices
    <2>4. FiledThenConcluded' /\ FiledAgainOnlyAfterCut' /\ CooldownHeld'
        BY <1>1, <1>3 DEF FiledThenConcluded, Filed, FiledAgainOnlyAfterCut, CooldownHeld, Indices
    <2> QED BY <2>2, <2>3, <2>4
<1>4. CASE job.batch = <<>>
    BY <1>3, <1>4 DEF ScanStep
<1>5. CASE job.batch # <<>>
    <2> DEFINE name == Head(job.batch)
               rest == [job EXCEPT !.batch = Tail(job.batch)]
    <2>1. name \in Names \cup {Unusable} /\ Tail(job.batch) \in Seq(Names \cup {Unusable})
        BY <1>2, <1>5
    <2>2. rest \in ScanJobs /\ rest.known = job.known
        BY <1>1, <2>1 DEF ScanJobs
    <2>3. CASE name = Unusable \/ (name \in Names /\ Key[name] \in job.known)
        BY <1>3, <1>5, <2>2, <2>3 DEF ScanStep
    <2>4. CASE ~(name = Unusable \/ (name \in Names /\ Key[name] \in job.known))
        <3>1. /\ name \in Names /\ Key[name] \notin job.known
              /\ File(name, NoExperiment)
              /\ job' = [rest EXCEPT !.known = NowKnown(name)]
            BY <1>5, <2>1, <2>4 DEF ScanStep
        <3> HIDE DEF name
        <3>2. job' \in ScanJobs /\ job'.known = job.known \cup {Key[name]}
            BY <2>2, <3>1, <1>2, IntakeAssumption DEF ScanJobs, NowKnown
        <3>3. job' \notin PromotionJobs
            BY <3>2 DEF ScanJobs, PromotionJobs
        <3>4. RowsSound'
            BY <1>1, <3>1, ScanIsFresh, FileRows
        <3> DEFINE n == Len(proposals) + 1
        <3>5. /\ proposals' \in Seq(Rows) /\ n \in Nat /\ Indices' = Indices \cup {n}
              /\ \A i \in Indices : proposals'[i] = proposals[i] /\ i \in Nat /\ i < n
              /\ proposals'[n] = [id |-> lastId + 1, name |-> name, status |-> "pending",
                                  decidedAt |-> Never, filedAt |-> now,
                                  experiment |-> NoExperiment]
              /\ lastId' = lastId + 1 /\ lastId \in Nat
            <4>1. NoExperiment \in Experiments \cup {NoExperiment} /\ now \in Nat /\ lastId \in Nat
                BY DEF TypeOK
            <4>2. proposals \in Seq(Rows)
                BY DEF TypeOK
            <4> QED BY <3>1, <4>1, <4>2, FileAppends
        <3> HIDE DEF n
        <3>6. TypeOK'
            BY <1>1, <3>2, <3>5 DEF TypeOK
        <3>7. JobSound'
            BY <1>1, <3>2, <3>3, <3>5 DEF JobSound
        <3>8. FiledThenConcluded'
            BY <1>1, <3>5, IntakeAssumption DEF FiledThenConcluded, Filed
        <3>9. FiledAgainOnlyAfterCut' /\ CooldownHeld'
            BY <1>1, <3>5 DEF FiledAgainOnlyAfterCut, CooldownHeld
        <3> QED BY <3>4, <3>6, <3>7, <3>8, <3>9
    <2> QED BY <2>3, <2>4
<1> QED BY <1>4, <1>5
\* The rows and what is filed again depend on the rows alone.
LEMMA SameHistory ==
    ASSUME Inv, UNCHANGED <<proposals, cutOff>>
    PROVE  FiledAgainOnlyAfterCut' /\ CooldownHeld'
BY DEF Inv, FiledAgainOnlyAfterCut, CooldownHeld, Indices

\* An experiment is created, or judged: it was not filed before, or was cut off since.
LEMMA InvExperiments ==
    ASSUME Inv, NEW e \in Experiments, CreateExperiment(e) \/ Evaluate(e)
    PROVE  Inv'
<1> USE DEF Inv
<1>1. UNCHANGED <<now, proposals, lastId, lastScan, crashes, cutOff>>
    BY DEF CreateExperiment, Evaluate
<1>2. RowsSound' /\ FiledAgainOnlyAfterCut' /\ CooldownHeld'
    BY <1>1, SameRows, SameHistory
<1>3. CASE CreateExperiment(e)
    <2>1. /\ experiments[e].status = "none" /\ UNCHANGED job
          /\ experiments' = [experiments EXCEPT ![e] = [status |-> "running", result |-> "none"]]
        BY <1>3 DEF CreateExperiment, Unborn
    <2>2. TypeOK'
        BY <1>1, <2>1 DEF TypeOK
    <2>3. JobSound'
        BY <1>1, <2>1 DEF JobSound, Indices, PromotionJobs, TypeOK
    <2>4. \A d \in Experiments : experiments[d].status = "concluded"
                                 => experiments'[d].status = "concluded"
        BY <2>1 DEF TypeOK
    <2>5. FiledThenConcluded'
        BY <1>1, <2>1, <2>4 DEF FiledThenConcluded, Filed, Indices
    <2> QED BY <1>2, <2>2, <2>3, <2>5
<1>4. CASE Evaluate(e)
    <2>1. /\ experiments[e].status = "running" /\ UNCHANGED experiments
          /\ job' \in PromotionJobs /\ job'.experiment = e
        BY <1>4 DEF Evaluate, Verdict, PromotionJobs
    <2>2. job' \notin ScanJobs /\ job \notin PromotionJobs
        BY <1>4, <2>1, JobKinds DEF Evaluate, ScanJobs, PromotionJobs
    <2>3. TypeOK'
        BY <1>1, <2>1 DEF TypeOK
    <2>4. JobSound'
        BY <2>1, <2>2 DEF JobSound
    <2>5. FiledThenConcluded'
        BY <1>1, <2>1, <2>2 DEF FiledThenConcluded, Filed, Indices
    <2> QED BY <1>2, <2>3, <2>4, <2>5
<1> QED BY <1>3, <1>4

\* A filing that is not blocked: no earlier one of the experiment but one whose conclusion
\* was cut off, and that is decided; no rejection of the name in sight and in the cooldown.
LEMMA InvFilePromotion ==
    ASSUME Inv, FilePromotion
    PROVE  Inv'
<1> USE DEF Inv
<1> DEFINE e == job.experiment
           name == Challenger[e]
           n == Len(proposals) + 1
<1>1. /\ job \in PromotionJobs /\ job.step = "file" /\ e \in Experiments /\ name \in Names
      /\ UNCHANGED <<now, experiments, lastScan, crashes, cutOff>>
      /\ job' = [job EXCEPT !.step = "conclude"]
    BY JobKinds, IntakeAssumption DEF FilePromotion, PromotionJobs
<1>2. /\ job' \in PromotionJobs /\ job'.step = "conclude" /\ job'.experiment = e
      /\ job' \notin ScanJobs
    BY <1>1 DEF PromotionJobs, ScanJobs
<1>3. experiments[e].status = "running"
    BY <1>1 DEF JobSound
<1>4. JobSound'
    BY <1>1, <1>2, <1>3 DEF JobSound
<1>5. e \notin cutOff => ~Filed(e)
    BY <1>1, <1>3 DEF FiledThenConcluded
<1>6. CASE Blocked(name)
    <2>1. UNCHANGED <<proposals, lastId>>
        BY <1>6 DEF FilePromotion
    <2>2. TypeOK' /\ RowsSound' /\ FiledAgainOnlyAfterCut' /\ CooldownHeld'
        BY <1>1, <1>2, <2>1, SameRows, SameHistory DEF TypeOK
    <2>3. FiledThenConcluded'
        BY <1>1, <1>2, <2>1 DEF FiledThenConcluded, Filed, Indices
    <2> QED BY <1>4, <2>2, <2>3
<1>7. CASE ~Blocked(name)
    <2>1. File(name, e) /\ ~Pending(name) /\ e # NoExperiment
        BY <1>1, <1>7, IntakeAssumption DEF FilePromotion, Blocked
    <2>2. /\ proposals' \in Seq(Rows) /\ n \in Nat /\ Len(proposals) \in Nat
          /\ Indices' = Indices \cup {n} /\ Indices = 1 .. Len(proposals)
          /\ \A i \in Indices : proposals'[i] = proposals[i] /\ i \in Nat /\ i < n
          /\ proposals'[n] = [id |-> lastId + 1, name |-> name, status |-> "pending",
                              decidedAt |-> Never, filedAt |-> now, experiment |-> e]
          /\ lastId' = lastId + 1 /\ lastId \in Nat
        <3>1. proposals \in Seq(Rows) /\ now \in Nat /\ lastId \in Nat /\ e \in Experiments \cup {NoExperiment}
            BY <1>1 DEF TypeOK
        <3> HIDE DEF e, name
        <3> QED BY <1>1, <2>1, <3>1, FileAppends
    <2>3. RowsSound'
        BY <1>1, <2>1, FileRows
    <2> HIDE DEF e, name
    <2>4. TypeOK'
        BY <1>1, <1>2, <2>2 DEF TypeOK
    <2>5. FiledThenConcluded'
        BY <1>1, <1>2, <2>2 DEF FiledThenConcluded, Filed
    <2>6. ASSUME NEW i \in Indices, proposals[i].experiment = e
          PROVE  /\ e \in cutOff /\ proposals[i].decidedAt # Never
                 /\ proposals[i].decidedAt <= now
        <3>1. e \in cutOff
            BY <1>5, <2>6 DEF Filed
        <3>2. Settled(proposals[i]) /\ e # NoExperiment
            BY <1>1, IntakeAssumption DEF RowsSound
        <3>3. proposals[i].name = name
            BY <2>6, <3>2 DEF Settled, name
        <3>4. proposals[i].status # "pending"
            BY <2>1, <3>3 DEF Pending
        <3> QED BY <3>1, <3>2, <3>4 DEF Settled
    <2>7. FiledAgainOnlyAfterCut'
        BY <1>1, <2>2, <2>6 DEF FiledAgainOnlyAfterCut
    <2>8. ASSUME NEW i \in Indices, proposals[i].name = name, proposals[i].status = "rejected",
                 now - proposals[i].decidedAt < Cooldown
          PROVE  proposals'[n].id - proposals'[i].id > RecentLimit
        <3>1. i \notin Recent
            BY <1>7, <2>8 DEF Blocked
        <3>2. proposals'[n].id = lastId + 1 /\ proposals'[i].id = proposals[i].id
            BY <2>2
        <3>3. proposals[i].id \in Nat
            BY RowTypes DEF Rows
        <3>4. ~(proposals[i].id > lastId - RecentLimit)
            BY <3>1 DEF Recent
        <3> QED BY <2>2, <3>2, <3>3, <3>4, IntakeAssumption
    <2> HIDE DEF n
    <2>9. CooldownHeld'
        <3>1. \A i, j \in Indices' :
                 /\ i < j /\ proposals'[i].name = proposals'[j].name
                 /\ proposals'[i].status = "rejected" /\ proposals'[j].experiment # NoExperiment
                 /\ proposals'[j].filedAt - proposals'[i].decidedAt < Cooldown
                 => proposals'[j].id - proposals'[i].id > RecentLimit
            <4> SUFFICES ASSUME NEW i \in Indices', NEW j \in Indices',
                                i < j, proposals'[i].name = proposals'[j].name,
                                proposals'[i].status = "rejected",
                                proposals'[j].experiment # NoExperiment,
                                proposals'[j].filedAt - proposals'[i].decidedAt < Cooldown
                         PROVE  proposals'[j].id - proposals'[i].id > RecentLimit
                OBVIOUS
            <4>1. i # n /\ i \in Indices
                BY <2>2
            <4>2. CASE j = n
                BY <2>2, <2>8, <4>1, <4>2
            <4>3. CASE j \in Indices
                BY <2>2, <4>1, <4>3 DEF CooldownHeld
            <4> QED BY <2>2, <4>2, <4>3
        <3> QED BY <3>1 DEF CooldownHeld
    <2> QED BY <1>4, <2>3, <2>4, <2>5, <2>7, <2>9
<1> QED BY <1>6, <1>7
\* The experiment's row is closed.
LEMMA InvConclude ==
    ASSUME Inv, Conclude
    PROVE  Inv'
<1> USE DEF Inv
<1> DEFINE e == job.experiment
<1>1. /\ job \in PromotionJobs /\ e \in Experiments
      /\ job.result \in {"untrusted", "promote", "inconclusive"}
      /\ UNCHANGED <<now, proposals, lastId, lastScan, crashes, cutOff>> /\ job' = Idle
      /\ experiments' = [experiments EXCEPT ![e].status = "concluded", ![e].result = job.result]
    BY JobKinds DEF Conclude, PromotionJobs
<1> HIDE DEF e
<1>2. RowsSound' /\ FiledAgainOnlyAfterCut' /\ CooldownHeld'
    BY <1>1, SameRows, SameHistory
<1>3. job' \notin ScanJobs /\ job' \notin PromotionJobs
    BY <1>1 DEF Idle, ScanJobs, PromotionJobs
<1>4. TypeOK'
    BY <1>1 DEF TypeOK
<1>5. /\ experiments'[e].status = "concluded"
      /\ \A d \in Experiments \ {e} : experiments'[d] = experiments[d]
    BY <1>1 DEF TypeOK
<1>6. FiledThenConcluded'
    BY <1>1, <1>5 DEF FiledThenConcluded, Filed, Indices, e
<1> QED BY <1>2, <1>3, <1>4, <1>6 DEF JobSound

\* The operator answers: one pending row is settled, and it is older than no other of
\* its name.
LEMMA InvDecide ==
    ASSUME Inv, NEW k \in Indices, NEW status \in {"approved", "rejected"}, Decide(k, status)
    PROVE  Inv'
<1> USE DEF Inv
<1>1. /\ proposals[k].status = "pending"
      /\ proposals' = [proposals EXCEPT ![k].status = status, ![k].decidedAt = now]
      /\ UNCHANGED <<now, lastId, experiments, lastScan, job, crashes, cutOff>>
    BY DEF Decide
<1>2. /\ proposals' \in Seq(Rows) /\ Indices' = Indices
      /\ proposals'[k] = [proposals[k] EXCEPT !.status = status, !.decidedAt = now]
      /\ \A i \in Indices : i # k => proposals'[i] = proposals[i]
    <2>0. proposals \in Seq(Rows) /\ proposals[k] \in Rows /\ now \in Int
        BY RowTypes DEF TypeOK
    <2>1. [proposals[k] EXCEPT !.status = status, !.decidedAt = now] \in Rows
        BY <2>0 DEF Rows
    <2>2. proposals' = [proposals EXCEPT ![k] = [proposals[k] EXCEPT !.status = status,
                                                                    !.decidedAt = now]]
        BY <1>1
    <2> QED BY <2>0, <2>1, <2>2 DEF Indices
<1>3. /\ proposals'[k].status = status /\ proposals'[k].decidedAt = now
      /\ proposals'[k].name = proposals[k].name
      /\ proposals'[k].experiment = proposals[k].experiment
      /\ proposals'[k].filedAt = proposals[k].filedAt
      /\ proposals'[k].id = proposals[k].id
    BY <1>2, RowTypes DEF Rows
<1>4. \A i \in Indices : /\ proposals'[i].name = proposals[i].name
                         /\ proposals'[i].experiment = proposals[i].experiment
                         /\ proposals'[i].filedAt = proposals[i].filedAt
                         /\ proposals'[i].id = proposals[i].id
                         /\ proposals'[i].status = "pending" => proposals[i].status = "pending"
    BY <1>2, <1>3
<1>5. TypeOK'
    BY <1>1, <1>2 DEF TypeOK
<1>6. RowsSound'
    <2>1. ASSUME NEW i \in Indices PROVE Settled(proposals[i])'
        <3>1. CASE i = k
            <4>1. now \in Nat /\ Settled(proposals[k])
                BY DEF TypeOK, RowsSound
            <4> QED BY <1>1, <1>3, <3>1, <4>1 DEF Settled, Never
        <3>2. CASE i # k
            <4>1. Settled(proposals[i]) /\ proposals'[i] = proposals[i]
                BY <1>2, <3>2 DEF RowsSound
            <4> QED BY <1>1, <4>1 DEF Settled
        <3> QED BY <3>1, <3>2
    <2>2. \A i \in Indices' : Settled(proposals[i])'
        BY <1>2, <2>1
    <2>3. \A i, j \in Indices' : i < j /\ proposals'[i].name = proposals'[j].name
                                 => proposals'[i].status # "pending"
        BY <1>2, <1>4 DEF RowsSound
    <2>4. \A i, j \in Indices' : /\ i < j /\ proposals'[j].experiment = NoExperiment
                                 /\ Key[proposals'[i].name] = Key[proposals'[j].name]
                                 => proposals'[i].status # "pending"
        BY <1>2, <1>4 DEF RowsSound
    <2> QED BY <2>2, <2>3, <2>4 DEF RowsSound
<1>7. JobSound'
    BY <1>1, <1>2, <1>4 DEF JobSound
<1>8. FiledThenConcluded'
    BY <1>1, <1>2, <1>4 DEF FiledThenConcluded, Filed
<1>9. \A i, j \in Indices : i < j /\ proposals[i].name = proposals[j].name => i # k
    BY <1>1 DEF RowsSound
<1>10. FiledAgainOnlyAfterCut'
    <2>0. UNCHANGED cutOff
        BY <1>1
    <2> SUFFICES ASSUME NEW i \in Indices, NEW j \in Indices, i < j,
                        proposals[i].experiment = proposals[j].experiment,
                        proposals[i].experiment # NoExperiment
                 PROVE  /\ proposals[i].experiment \in cutOff
                        /\ proposals'[i].decidedAt # Never
                        /\ proposals'[i].decidedAt <= proposals'[j].filedAt
        BY <2>0, <1>2, <1>4 DEF FiledAgainOnlyAfterCut
    <2>1. proposals[i].name = proposals[j].name
        BY DEF RowsSound, Settled
    <2>2. proposals'[i] = proposals[i]
        BY <1>2, <1>9, <2>1
    <2> QED BY <1>4, <2>2 DEF FiledAgainOnlyAfterCut
<1>11. CooldownHeld'
    <2> SUFFICES ASSUME NEW i \in Indices, NEW j \in Indices, i < j,
                        proposals[i].name = proposals[j].name,
                        proposals'[i].status = "rejected",
                        proposals[j].experiment # NoExperiment,
                        proposals[j].filedAt - proposals'[i].decidedAt < Cooldown
                 PROVE  proposals[j].id - proposals[i].id > RecentLimit
        BY <1>2, <1>4 DEF CooldownHeld
    <2>1. proposals'[i] = proposals[i]
        BY <1>2, <1>9
    <2> QED BY <2>1 DEF CooldownHeld
<1> QED BY <1>5, <1>6, <1>7, <1>8, <1>10, <1>11

\* What is cut off is the conclusion of the experiment that was under way.
LEMMA CuttingOff ==
    ASSUME Inv, cutOff' = CutOff, UNCHANGED <<proposals, experiments>>, job' \notin PromotionJobs
    PROVE  /\ cutOff \subseteq cutOff' /\ cutOff' \subseteq Experiments
           /\ FiledThenConcluded' /\ FiledAgainOnlyAfterCut' /\ CooldownHeld'
<1> USE DEF Inv
<1>1. job.step = "conclude" => job \in PromotionJobs /\ job.experiment \in Experiments
    BY JobKinds DEF PromotionJobs
<1>2. cutOff \subseteq cutOff' /\ cutOff' \subseteq Experiments
    BY <1>1 DEF CutOff, TypeOK
<1>3. job.step = "conclude" => job.experiment \in cutOff'
    BY DEF CutOff
<1>4. FiledThenConcluded'
    BY <1>2, <1>3 DEF FiledThenConcluded, Filed, Indices
<1>5. FiledAgainOnlyAfterCut' /\ CooldownHeld'
    BY <1>2 DEF FiledAgainOnlyAfterCut, CooldownHeld, Indices
<1> QED BY <1>2, <1>4, <1>5

\* Time passes, other rows are filed, nothing happens.
LEMMA InvRest ==
    ASSUME Inv, Wait \/ FileOther \/ UNCHANGED vars
    PROVE  Inv'
<1> USE DEF Inv
<1>1. /\ UNCHANGED <<proposals, experiments, job, lastScan, crashes, cutOff>>
      /\ now' \in {now, now + 1} /\ lastId' \in {lastId, lastId + 1}
    BY DEF Wait, FileOther, vars
<1>2. RowsSound'
    BY <1>1, SameRows
<1>3. now \in Nat /\ lastId \in Nat
    BY DEF TypeOK
<1>4. TypeOK'
    BY <1>1, <1>3 DEF TypeOK
<1>5. JobSound'
    BY <1>1 DEF JobSound, Indices
<1>6. FiledThenConcluded' /\ FiledAgainOnlyAfterCut' /\ CooldownHeld'
    BY <1>1 DEF FiledThenConcluded, Filed, FiledAgainOnlyAfterCut, CooldownHeld, Indices
<1> QED BY <1>2, <1>4, <1>5, <1>6

\* The process dies, or the ledger is busy.
LEMMA InvCut ==
    ASSUME Inv, Crash \/ Refused
    PROVE  Inv'
<1> USE DEF Inv
<1>1. /\ UNCHANGED <<now, proposals, lastId, experiments>> /\ cutOff' = CutOff
      /\ crashes' \in {crashes, crashes + 1} /\ lastScan' \in {lastScan, Never}
    BY DEF Crash, Refused
<1>2. \/ job' = Idle
      \/ job \in ScanJobs /\ job' \in ScanJobs /\ job'.known = job.known
    <2>1. CASE Crash
        BY <2>1 DEF Crash
    <2>2. CASE Refused /\ job.step \in {"file", "conclude"}
        BY <2>2 DEF Refused
    <2>3. CASE Refused /\ job.step \notin {"file", "conclude"}
        <3>1. /\ job.step = "scan" /\ job.batch # <<>>
              /\ job' = [job EXCEPT !.batch = Tail(job.batch)]
            BY <2>3 DEF Refused
        <3>2. job \in ScanJobs /\ job.batch \in Seq(Names \cup {Unusable})
            BY <3>1, JobKinds DEF ScanJobs
        <3>3. Tail(job.batch) \in Seq(Names \cup {Unusable})
            BY <3>1, <3>2
        <3> QED BY <3>1, <3>2, <3>3 DEF ScanJobs
    <2> QED BY <2>1, <2>2, <2>3
<1>3. job' \notin PromotionJobs /\ (job' = Idle => job' \notin ScanJobs)
    BY <1>2 DEF Idle, ScanJobs, PromotionJobs
<1>4. RowsSound'
    BY <1>1, SameRows
<1>5. /\ cutOff' \subseteq Experiments
      /\ FiledThenConcluded' /\ FiledAgainOnlyAfterCut' /\ CooldownHeld'
    BY <1>1, <1>3, CuttingOff
<1>6. crashes \in Nat
    BY DEF TypeOK
<1>7. TypeOK'
    BY <1>1, <1>2, <1>5, <1>6 DEF TypeOK, Never
<1>8. JobSound'
    BY <1>1, <1>2, <1>3 DEF JobSound, Indices
<1> QED BY <1>4, <1>5, <1>7, <1>8

\* Every scan, filing, decision, crash and tick of the clock keeps the rows in order.
THEOREM IntakeInvariant == Spec => []Inv
<1>1. Inv /\ [Next]_vars => Inv'
    BY InvScan, InvScanStep, InvExperiments, InvFilePromotion, InvConclude, InvDecide, InvRest,
       InvCut
       DEF Next
<1> QED BY <1>1, InvInit, PTL DEF Spec

\* Nobody is asked the same thing twice (research.py:50-70, promotion.py:99-112): no two
\* pending proposals name a strategy in the same spelling, research adds none to one pending
\* in any spelling, and a promotion is filed again only after its conclusion was cut off and
\* the first was answered.
THEOREM NobodyAskedTwice == Spec => []AskedOnce
<1>1. Inv => AskedOnce
    <2> SUFFICES ASSUME Inv PROVE AskedOnce
        OBVIOUS
    <2>1. \A i \in Indices : i \in Nat
        BY RowTypes DEF Inv
    <2> QED BY <2>1 DEF Inv, RowsSound, AskedOnce, OnePendingToggle
<1> QED BY <1>1, IntakeInvariant, PTL

\* A rejection holds for the cooldown, in the same spelling and as far back as the program
\* looks: over the newest proposals of every kind (promotion.py:107, db.py:1183-1191).
THEOREM RejectionHolds == Spec => []CooldownHeld
<1>1. Inv => CooldownHeld
    BY DEF Inv
<1> QED BY <1>1, IntakeInvariant, PTL

==============================================================================
