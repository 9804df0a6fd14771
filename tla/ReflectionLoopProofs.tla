------------------------- MODULE ReflectionLoopProofs -------------------------
(***************************************************************************)
(* Theorems about ReflectionLoop, for any cadence, thresholds and bands,   *)
(* any ledger that earlier runs have left, and any number of ticks, trades *)
(* and crashes.                                                            *)
(***************************************************************************)
EXTENDS ReflectionLoop, FiniteSetTheorems, WellFoundedInduction, TLAPS

VersionType == [rollback : BOOLEAN, at : Int]
PlaybookRow ==
    [version : VersionType, rules : VersionType, parent : VersionType, retired : BOOLEAN]
Payload ==
    [kind : {"param"}, floor : Nat] \cup
    [kind : {"playbook"}, version : VersionType, rules : VersionType,
     parent : VersionType, rollbackTo : VersionType]
ProposalRow == [payload : Payload, status : {"pending", "approved", "rejected"}]
ReflectionRow ==
    [kind : {"periodic", "per_trade"}, from : Int, to : Int, trades : SUBSET Nat,
     version : VersionType]

\* A version at a time.
LEMMA VersionAt ==
    /\ NoVersion \in VersionType
    /\ \A t \in Int, r \in BOOLEAN : [rollback |-> r, at |-> t] \in VersionType
    BY DEF NoVersion, VersionType, Never

\* A playbook's payload is one.
LEMMA PlaybookPayload ==
    ASSUME NEW v \in VersionType, NEW r \in VersionType, NEW p \in VersionType,
           NEW b \in VersionType
    PROVE  [kind |-> "playbook", version |-> v, rules |-> r, parent |-> p, rollbackTo |-> b]
           \in Payload
    BY DEF Payload

------------------------------------------------------------------------------
(* Where the job is, and the cadence *)

\* There was a tick before every run.
JobInv ==
    /\ now \in Nat /\ consults \in Nat /\ crashes \in Nat /\ refused \in Nat
    /\ job.step \in {"idle", "run", "consult", "file", "calibrate", "rollback"}
    /\ job.step = "idle" => job = Idle
    /\ job.step # "idle" => now > 0

\* What a busy ledger refuses is skipped.
LEMMA GoesOn ==
    ASSUME Refused
    PROVE  /\ job.step \in {"file", "calibrate", "rollback"}
           /\ job'.step \in {"calibrate", "rollback", "idle"} /\ job' = [step |-> job'.step]
           /\ UNCHANGED <<now, outcomes, reflections, proposals, playbooks, last, consults,
                         crashes, abandoned>>
           /\ refused' = refused + (IF job.step = "file" THEN 1 ELSE 0)
    BY DEF Refused, After, store

LEMMA JobStep == JobInv /\ [Next]_vars => JobInv'
<1> SUFFICES ASSUME JobInv, [Next]_vars PROVE JobInv'
    OBVIOUS
<1> USE DEF JobInv, Idle
<1>1. CASE UNCHANGED vars
    BY <1>1 DEF vars
<1>2. CASE Tick
    <2>1. now' = now + 1 /\ job' = [step |-> "run"] /\ UNCHANGED <<consults, crashes, refused>>
        BY <1>2 DEF Tick
    <2> QED BY <2>1
<1>3. CASE Run
    BY <1>3 DEF Run
<1>4. CASE Consult
    <2>1. PICK v \in {NoVersion, [rollback |-> FALSE, at |-> now]} :
              job' = IF v = NoVersion THEN [step |-> "calibrate"]
                     ELSE [step |-> "file", version |-> v, parent |-> job.current]
        BY <1>4 DEF Consult
    <2>2. job'.step \in {"calibrate", "file"}
        BY <2>1
    <2>3. job.step = "consult" /\ consults' = consults + 1 /\ UNCHANGED <<now, crashes, refused>>
        BY <1>4 DEF Consult
    <2> QED BY <2>2, <2>3
<1>5. CASE ConsultFails
    BY <1>5 DEF ConsultFails
<1>6. CASE FileRules \/ Calibrate \/ ProposeRollback
    BY <1>6 DEF FileRules, Calibrate, ProposeRollback
<1>7. CASE \E o \in outcomes : Critique(o)
    BY <1>7 DEF Critique
<1>8. CASE \E i \in DOMAIN proposals : Reject(i) \/ Approve(i)
    BY <1>8 DEF Reject, Approve
<1>9. CASE Crash
    BY <1>9 DEF Crash, store
<1>10. CASE Refused
    BY <1>10, GoesOn DEF Refused, store
<1> QED BY <1>1, <1>2, <1>3, <1>4, <1>5, <1>6, <1>7, <1>8, <1>9, <1>10 DEF Next

LEMMA JobInvariant == Spec => []JobInv
<1>1. Init => JobInv
    BY DEF Init, JobInv, Idle
<1> QED BY <1>1, JobStep, PTL DEF Spec

\* The stamp of the last run that was due bounds the calls made so far; before a consult,
\* the period has passed.
CadenceInv ==
    /\ last = Never => consults = 0 \/ (consults - crashes) * PollSec < now
    /\ last # Never => /\ last \in Nat /\ last > 0 /\ last <= now
                       /\ (consults - 1 - crashes) * PollSec < last
    /\ job.step = "consult" => last = now /\ (consults - crashes) * PollSec < now

\* One period more.
LEMMA OneMore ==
    ASSUME NEW a \in Int, NEW p \in Nat
    PROVE  /\ (a - 1) * p = a * p - p /\ a * p \in Int /\ (a - 1) * p \in Int
           /\ a <= 0 => a * p <= 0
<1>1. (a - 1) * p = a * p - p /\ a * p \in Int /\ (a - 1) * p \in Int
    OBVIOUS
<1>2. ASSUME a <= 0 PROVE a * p <= 0
    BY <1>2
<1> QED BY <1>1, <1>2

LEMMA CadenceStep == JobInv /\ CadenceInv /\ [Next]_vars => CadenceInv'
<1> SUFFICES ASSUME JobInv, CadenceInv, [Next]_vars PROVE CadenceInv'
    OBVIOUS
<1>1. /\ now \in Nat /\ consults \in Nat /\ crashes \in Nat /\ PollSec \in Nat
      /\ last = Never \/ last \in Nat
    BY ReflectionAssumption DEF JobInv, CadenceInv
<1> DEFINE a == consults - crashes
<1>2. /\ (consults - 1 - crashes) = a - 1 /\ a \in Int
      /\ (a - 1) * PollSec = a * PollSec - PollSec
      /\ a * PollSec \in Int /\ (a - 1) * PollSec \in Int
      /\ a <= 0 => a * PollSec <= 0
    BY <1>1, OneMore
<1>3. /\ last = Never => consults = 0 \/ a * PollSec < now
      /\ last # Never => last > 0 /\ last <= now /\ (a - 1) * PollSec < last
      /\ job.step = "consult" => last = now /\ a * PollSec < now
    BY <1>2 DEF CadenceInv
<1>4. consults = 0 => a * PollSec <= 0
    BY <1>1, <1>2
<1> HIDE DEF a
<1>5. ASSUME UNCHANGED <<now, last, consults, crashes>>,
             job'.step = "consult" => job.step = "consult"
      PROVE  CadenceInv'
    BY <1>5 DEF CadenceInv
<1>6. CASE UNCHANGED vars
    BY <1>5, <1>6 DEF vars
<1>7. CASE Tick
    <2>1. now' = now + 1 /\ job' = [step |-> "run"] /\ UNCHANGED <<last, consults, crashes>>
        BY <1>7 DEF Tick
    <2>2. job'.step # "consult"
        BY <2>1
    <2> QED BY <1>1, <1>2, <1>3, <2>1, <2>2 DEF CadenceInv, a
<1>8. CASE Run
    <2>1. CASE ~Due
        BY <1>5, <1>8, <2>1 DEF Run, Idle
    <2>2. CASE Due
        <3>1. last' = now /\ UNCHANGED <<now, consults, crashes>> /\ now > 0
            BY <1>8, <2>2 DEF Run, JobInv
        <3>2. a * PollSec < now
            <4>1. CASE last = Never
                BY <1>1, <1>2, <1>3, <1>4, <3>1, <4>1
            <4>2. CASE last # Never /\ now - last >= PollSec
                BY <1>1, <1>2, <1>3, <4>2
            <4> QED BY <2>2, <4>1, <4>2 DEF Due
        <3>3. (a - 1) * PollSec < now
            BY <1>1, <1>2, <3>2
        <3>4. last' # Never
            BY <1>1, <3>1 DEF Never
        <3> QED BY <1>1, <1>2, <3>1, <3>2, <3>3, <3>4 DEF CadenceInv, a
    <2> QED BY <2>1, <2>2
<1>9. CASE Consult \/ ConsultFails
    <2>1. /\ consults' = consults + 1 /\ UNCHANGED <<now, last, crashes>>
          /\ job.step = "consult"
        BY <1>9 DEF Consult, ConsultFails
    <2>2. job'.step # "consult"
        <3>1. CASE ConsultFails
            BY <3>1 DEF ConsultFails
        <3>2. CASE Consult
            <4>1. PICK v \in {NoVersion, [rollback |-> FALSE, at |-> now]} :
                      job' = IF v = NoVersion THEN [step |-> "calibrate"]
                             ELSE [step |-> "file", version |-> v, parent |-> job.current]
                BY <3>2 DEF Consult
            <4> QED BY <4>1
        <3> QED BY <1>9, <3>1, <3>2
    <2>3. consults' - 1 - crashes' = a
        BY <1>1, <2>1 DEF a
    <2>4. last # Never /\ a * PollSec < last
        BY <1>1, <1>3, <2>1 DEF Never
    <2> QED BY <1>1, <1>3, <2>1, <2>2, <2>3, <2>4 DEF CadenceInv
<1>10. CASE FileRules \/ Calibrate \/ ProposeRollback
    BY <1>5, <1>10 DEF FileRules, Calibrate, ProposeRollback, Idle
<1>11. CASE \E o \in outcomes : Critique(o)
    BY <1>5, <1>11 DEF Critique
<1>12. CASE \E i \in DOMAIN proposals : Reject(i) \/ Approve(i)
    BY <1>5, <1>12 DEF Reject, Approve
<1>14. CASE Refused
    BY <1>5, <1>14, GoesOn
<1>13. CASE Crash
    <2>1. /\ crashes' = crashes + 1 /\ last' = Never /\ job' = Idle
          /\ UNCHANGED <<now, consults>>
        BY <1>13 DEF Crash
    <2>2. job'.step # "consult"
        BY <2>1 DEF Idle
    <2>3. consults' - crashes' = a - 1
        BY <1>1, <2>1 DEF a
    <2>4. consults = 0 \/ (a - 1) * PollSec < now
        BY <1>1, <1>2, <1>3
    <2> QED BY <1>1, <2>1, <2>2, <2>3, <2>4 DEF CadenceInv
<1> QED BY <1>6, <1>7, <1>8, <1>9, <1>10, <1>11, <1>12, <1>13, <1>14 DEF Next

\* The model is called at most once per period and start (reflect_runner.py:43-50), however
\* its calls fail and the process restarts.
THEOREM CallsArePaced == Spec => []CadenceBoundsCalls
<1>1. Init => CadenceInv
    BY DEF Init, CadenceInv, Idle
<1>2. JobInv /\ CadenceInv => CadenceBoundsCalls
    <2> SUFFICES ASSUME JobInv, CadenceInv, consults > 0
                 PROVE  (consults - 1 - crashes) * PollSec < now
        BY DEF CadenceBoundsCalls
    <2> DEFINE a == consults - crashes
    <2>1. /\ consults - 1 - crashes = a - 1 /\ a \in Int /\ PollSec \in Nat
          /\ now \in Nat
        BY ReflectionAssumption DEF JobInv
    <2>2. /\ (a - 1) * PollSec = a * PollSec - PollSec
          /\ a * PollSec \in Int /\ (a - 1) * PollSec \in Int
        BY <2>1, OneMore
    <2>3. CASE last = Never
        <3>1. a * PollSec < now
            BY <2>3 DEF CadenceInv, JobInv
        <3> HIDE DEF a
        <3> QED BY <2>1, <2>2, <3>1
    <2>4. CASE last # Never
        <3>1. (a - 1) * PollSec < last /\ last \in Nat /\ last <= now
            BY <2>1, <2>4 DEF CadenceInv
        <3> HIDE DEF a
        <3> QED BY <2>1, <2>2, <3>1
    <2> QED BY <2>3, <2>4
<1> QED BY <1>1, <1>2, CadenceStep, JobInvariant, PTL DEF Spec

------------------------------------------------------------------------------
(* Proposals and playbooks *)

\* A chain of playbooks: each supersedes the one before, the last is in force; a rollback
\* has the rules of an earlier one, any other playbook rules of its own.
Chain ==
    /\ playbooks \in Seq(PlaybookRow)
    /\ \A i \in 1 .. Len(playbooks) :
          LET b == playbooks[i] IN
          /\ b.version # NoVersion /\ b.retired = (i < Len(playbooks))
          /\ b.parent = IF i = 1 THEN NoVersion ELSE playbooks[i - 1].version
          /\ \A j \in 1 .. Len(playbooks) : b.version = playbooks[j].version => i = j
          /\ IF b.version.rollback
             THEN \E j \in 1 .. i - 1 : b.rules = playbooks[j].version
             ELSE b.rules = b.version

\* A position is the last one or before it.
LEMMA LastOrBefore ==
    ASSUME NEW n \in Nat, NEW i \in 1 .. n
    PROVE  /\ i \in Nat /\ (i < n \/ i = n)
           /\ i < n => i # n
    OBVIOUS

\* What the chain says of the version in force and of a version's playbook.
LEMMA InForce ==
    ASSUME Chain
    PROVE  /\ Len(playbooks) \in Nat
           /\ \A k \in 1 .. Len(playbooks) : Playbook(playbooks[k].version) = playbooks[k]
           /\ IF Len(playbooks) = 0 THEN Current = NoVersion
              ELSE Current = playbooks[Len(playbooks)].version
<1> DEFINE n == Len(playbooks)
           Live == {i \in DOMAIN playbooks : ~playbooks[i].retired}
<1>1. n \in Nat /\ DOMAIN playbooks = 1 .. n
    BY DEF Chain
<1>2. ASSUME NEW i \in 1 .. n PROVE playbooks[i].retired = (i < n)
    BY DEF Chain
<1>3. Live = IF n = 0 THEN {} ELSE {n}
    <2>1. ASSUME NEW i \in 1 .. n PROVE ~playbooks[i].retired <=> i = n
        <3>1. playbooks[i].retired = (i < n)
            BY <1>2
        <3>2. (i < n \/ i = n) /\ (i < n => i # n)
            BY <1>1, LastOrBefore
        <3>3. CASE i < n
            BY <3>1, <3>2, <3>3
        <3>4. CASE i = n
            BY <3>1, <3>2, <3>4
        <3> QED BY <3>2, <3>3, <3>4
    <2>2. n # 0 => n \in 1 .. n
        BY <1>1
    <2>3. n = 0 => Live = {}
        BY <1>1
    <2>4. ASSUME n # 0 PROVE Live = {n}
        <3>1. n \in Live
            BY <1>1, <2>1, <2>2, <2>4
        <3>2. \A i \in Live : i = n
            BY <1>1, <2>1
        <3> HIDE DEF Live
        <3> QED BY <3>1, <3>2
    <2> QED BY <2>3, <2>4
<1>4. Current = IF Live = {} THEN NoVersion
                ELSE playbooks[CHOOSE i \in Live : \A j \in Live : j <= i].version
    BY DEF Current, RowsOf
<1>5. ASSUME NEW k \in 1 .. n PROVE Playbook(playbooks[k].version) = playbooks[k]
    <2> DEFINE B == {playbooks[i] : i \in DOMAIN playbooks}
    <2>1. playbooks[k] \in B
        BY <1>1
    <2>2. \A b \in B : b.version = playbooks[k].version => b = playbooks[k]
        BY <1>1 DEF Chain
    <2>3. Playbook(playbooks[k].version) = CHOOSE b \in B : b.version = playbooks[k].version
        BY DEF Playbook
    <2> HIDE DEF B
    <2> QED BY <2>1, <2>2, <2>3
<1>6. CASE n = 0
    BY <1>1, <1>3, <1>4, <1>6
<1>7. CASE n # 0
    <2>1. (CHOOSE i \in Live : \A j \in Live : j <= i) = n
        BY <1>1, <1>3, <1>7
    <2> QED BY <1>1, <1>3, <1>4, <1>5, <1>7, <2>1
<1> QED BY <1>6, <1>7

\* Filing: one row more, the others as they were.
LEMMA Filing ==
    ASSUME proposals \in Seq(ProposalRow), NEW p \in Payload, File(p)
    PROVE  /\ proposals' \in Seq(ProposalRow)
           /\ Len(proposals) \in Nat /\ Len(proposals') = Len(proposals) + 1
           /\ \A i \in 1 .. Len(proposals) : proposals'[i] = proposals[i]
           /\ proposals'[Len(proposals) + 1].payload = p
           /\ proposals'[Len(proposals) + 1].status = "pending"
<1> DEFINE row == Proposal(p)
<1>1. row \in ProposalRow /\ row.payload = p /\ row.status = "pending"
    BY DEF Proposal, ProposalRow
<1>2. proposals' = Append(proposals, row)
    BY DEF File
<1> HIDE DEF row
<1> QED BY <1>1, <1>2

\* Deciding: one status changes, no payload does.
LEMMA Deciding ==
    ASSUME proposals \in Seq(ProposalRow), NEW i \in 1 .. Len(proposals),
           NEW s \in {"approved", "rejected"}, proposals' = [proposals EXCEPT ![i].status = s]
    PROVE  /\ proposals' \in Seq(ProposalRow) /\ Len(proposals') = Len(proposals)
           /\ \A j \in 1 .. Len(proposals) :
                 /\ proposals'[j].payload = proposals[j].payload
                 /\ proposals'[j].status = IF j = i THEN s ELSE proposals[j].status
<1> DEFINE row == [proposals[i] EXCEPT !.status = s]
<1>1. proposals[i] \in ProposalRow
    OBVIOUS
<1>2. row \in ProposalRow /\ row.payload = proposals[i].payload /\ row.status = s
    BY <1>1 DEF ProposalRow
<1>3. proposals' = [proposals EXCEPT ![i] = row]
    OBVIOUS
<1> HIDE DEF row
<1> QED BY <1>2, <1>3

\* Publishing over what is in force.
LEMMA Publishing ==
    ASSUME Chain, NEW v \in VersionType, NEW r \in VersionType,
           playbooks' = Append(
               [j \in DOMAIN playbooks |->
                   [playbooks[j] EXCEPT !.retired = @ \/ playbooks[j].version = Current]],
               [version |-> v, rules |-> r, parent |-> Current, retired |-> FALSE])
    PROVE  /\ playbooks' \in Seq(PlaybookRow)
           /\ Len(playbooks) \in Nat /\ Len(playbooks') = Len(playbooks) + 1
           /\ \A j \in 1 .. Len(playbooks) :
                 /\ playbooks'[j].version = playbooks[j].version
                 /\ playbooks'[j].rules = playbooks[j].rules
                 /\ playbooks'[j].parent = playbooks[j].parent
                 /\ playbooks'[j].retired = TRUE
           /\ LET new == playbooks'[Len(playbooks) + 1] IN
              /\ new.version = v /\ new.rules = r /\ new.retired = FALSE
              /\ new.parent = IF Len(playbooks) = 0 THEN NoVersion
                              ELSE playbooks[Len(playbooks)].version
<1> DEFINE n == Len(playbooks)
           old == [j \in 1 .. n |->
                      [playbooks[j] EXCEPT !.retired = @ \/ playbooks[j].version = Current]]
           new == [version |-> v, rules |-> r, parent |-> Current, retired |-> FALSE]
<1>1. n \in Nat /\ DOMAIN playbooks = 1 .. n
    BY DEF Chain
<1>2. \A j \in 1 .. n : playbooks[j] \in PlaybookRow
    BY DEF Chain
<1>3. Current \in VersionType
    BY <1>1, <1>2, InForce, VersionAt DEF PlaybookRow
<1>4. new \in PlaybookRow
    BY <1>3 DEF PlaybookRow
<1>5. ASSUME NEW j \in 1 .. n
      PROVE  /\ old[j] \in PlaybookRow
             /\ old[j].version = playbooks[j].version /\ old[j].rules = playbooks[j].rules
             /\ old[j].parent = playbooks[j].parent /\ old[j].retired = TRUE
    <2>1. playbooks[j].retired \/ playbooks[j].version = Current
        <3>1. CASE j < n
            <4>1. playbooks[j].retired = (j < n)
                BY DEF Chain
            <4> QED BY <3>1, <4>1
        <3>2. CASE j = n
            BY <1>1, <3>2, InForce
        <3> QED BY <1>1, <3>1, <3>2, LastOrBefore
    <2>2. playbooks[j] \in PlaybookRow
        BY <1>2
    <2>3. old[j] = [playbooks[j] EXCEPT !.retired = TRUE]
        BY <2>1
    <2> QED BY <2>2, <2>3 DEF PlaybookRow
<1>6. old \in Seq(PlaybookRow) /\ Len(old) = n
    <2>1. old \in [1 .. n -> PlaybookRow]
        <3>1. old = [j \in 1 .. n |-> old[j]] /\ \A j \in 1 .. n : old[j] \in PlaybookRow
            BY <1>5
        <3> HIDE DEF old
        <3> QED BY <3>1
    <2> HIDE DEF old
    <2> QED BY <1>1, <2>1
<1>7. playbooks' = Append(old, new)
    BY <1>1
<1>8. /\ new.version = v /\ new.rules = r /\ new.retired = FALSE
      /\ new.parent = IF n = 0 THEN NoVersion ELSE playbooks[n].version
    BY InForce
<1> HIDE DEF old, new
<1>9. /\ playbooks' \in Seq(PlaybookRow) /\ Len(playbooks') = n + 1 /\ playbooks'[n + 1] = new
      /\ \A j \in 1 .. n : playbooks'[j] = old[j]
    BY <1>1, <1>4, <1>6, <1>7
<1> QED BY <1>1, <1>5, <1>8, <1>9

\* A position before the last.
LEMMA BeforeLast == ASSUME NEW n \in Nat, n # 0, n # 1 PROVE n > 1 /\ n - 1 \in 1 .. n
    OBVIOUS

\* A rollback offers what was in force before a playbook that wrote rules of its own.
LEMMA Restoring ==
    ASSUME Chain, ProposeRollback
    PROVE  LET n == Len(playbooks) IN
           \/ UNCHANGED proposals
           \/ /\ n \in Nat /\ n > 1 /\ ~playbooks[n].version.rollback
              /\ playbooks[n - 1].version # NoVersion
              /\ NotPending(playbooks[n - 1].version)
              /\ File([kind |-> "playbook", version |-> [rollback |-> TRUE, at |-> now],
                       rules |-> playbooks[n - 1].rules, parent |-> playbooks[n].version,
                       rollbackTo |-> playbooks[n - 1].version])
<1> DEFINE n == Len(playbooks)
           parent == Playbook(Current).parent
<1>1. CASE UNCHANGED proposals
    BY <1>1
<1>2. CASE ~(UNCHANGED proposals)
    <2>1. /\ Current # NoVersion /\ ~Current.rollback /\ parent # NoVersion /\ NotPending(parent)
          /\ File([kind |-> "playbook", version |-> [rollback |-> TRUE, at |-> now],
                   rules |-> Playbook(parent).rules, parent |-> Current, rollbackTo |-> parent])
        BY <1>2 DEF ProposeRollback, MayRollBack
    <2>2. n \in Nat /\ n # 0 /\ Current = playbooks[n].version
        BY <2>1, InForce
    <2>3. n \in 1 .. n
        BY <2>2
    <2>4. Playbook(Current) = playbooks[n]
        BY <2>2, <2>3, InForce
    <2>5. parent = IF n = 1 THEN NoVersion ELSE playbooks[n - 1].version
        BY <2>3, <2>4 DEF Chain
    <2>6. n # 1 /\ parent = playbooks[n - 1].version
        BY <2>1, <2>5
    <2>7. n > 1 /\ n - 1 \in 1 .. n
        BY <2>2, <2>6, BeforeLast
    <2>8. Playbook(parent) = playbooks[n - 1]
        BY <2>6, <2>7, InForce
    <2> HIDE DEF parent
    <2> QED BY <2>1, <2>2, <2>6, <2>7, <2>8
<1> QED BY <1>1, <1>2

------------------------------------------------------------------------------
(* What is on offer *)

PlaybookRows == {i \in DOMAIN proposals : proposals[i].payload.kind = "playbook"}

\* What is offered was thought of at some time; a rollback offers the rules before those
\* of a playbook that wrote its own.
Sound(p) ==
    /\ p.version.at \in 1 .. now
    /\ p.version.rollback <=> p.rollbackTo # NoVersion
    /\ job.step # "idle" => p.version # [rollback |-> TRUE, at |-> now]
    /\ job.step \in {"run", "consult", "file"} => p.version # [rollback |-> FALSE, at |-> now]
    /\ IF p.rollbackTo = NoVersion
       THEN p.rules = p.version
       ELSE \E k \in 2 .. Len(playbooks) :
               /\ p.parent = playbooks[k].version /\ ~playbooks[k].version.rollback
               /\ p.rules = playbooks[k - 1].rules

\* Each offer has a version of its own, and each playbook since the run began was one.
Offers ==
    /\ \A p \in Payload : (\E i \in PlaybookRows : p = proposals[i].payload) => Sound(p)
    /\ \A i, j \in PlaybookRows :
          proposals[i].payload.version = proposals[j].payload.version => i = j
    /\ \A j \in 1 .. Len(playbooks) :
          \/ playbooks[j].version.at < Never
          \/ \E i \in PlaybookRows : /\ proposals[i].status = "approved"
                                     /\ proposals[i].payload.version = playbooks[j].version

BookInv ==
    /\ proposals \in Seq(ProposalRow) /\ Chain /\ Offers
    /\ job.step = "consult" => job.current \in VersionType
    /\ job.step = "file" => /\ job.parent \in VersionType
                            /\ job.version = [rollback |-> FALSE, at |-> now]

\* Time passes, the job goes on and playbooks are published: an offer stays sound.
LEMMA SoundStays ==
    ASSUME JobInv, NEW p, p.version \in VersionType, Sound(p),
           \/ /\ now' = now
              /\ job'.step # "idle" => job.step # "idle"
              /\ job'.step \in {"run", "consult", "file"} => job.step \in {"run", "consult", "file"}
           \/ now' = now + 1,
           Len(playbooks) \in Nat, Len(playbooks') \in Nat, Len(playbooks) <= Len(playbooks'),
           \A j \in 1 .. Len(playbooks) : /\ playbooks'[j].version = playbooks[j].version
                                          /\ playbooks'[j].rules = playbooks[j].rules
    PROVE  Sound(p)'
<1>1. now \in Nat /\ p.version.at \in 1 .. now
    BY DEF JobInv, Sound
<1>2. p.version.at \in 1 .. now'
    BY <1>1
<1>3. /\ job'.step # "idle" => p.version # [rollback |-> TRUE, at |-> now']
      /\ job'.step \in {"run", "consult", "file"} => p.version # [rollback |-> FALSE, at |-> now']
    <2>1. CASE now' = now + 1
        BY <1>1, <2>1
    <2>2. CASE now' # now + 1
        BY <2>2 DEF Sound
    <2> QED BY <2>1, <2>2
<1>4. IF p.rollbackTo = NoVersion
      THEN p.rules = p.version
      ELSE \E k \in 2 .. Len(playbooks') :
              /\ p.parent = playbooks'[k].version /\ ~playbooks'[k].version.rollback
              /\ p.rules = playbooks'[k - 1].rules
    <2>1. CASE p.rollbackTo = NoVersion
        BY <2>1 DEF Sound
    <2>2. CASE p.rollbackTo # NoVersion
        <3>1. PICK k \in 2 .. Len(playbooks) :
                  /\ p.parent = playbooks[k].version /\ ~playbooks[k].version.rollback
                  /\ p.rules = playbooks[k - 1].rules
            BY <2>2 DEF Sound
        <3>2. k \in 1 .. Len(playbooks) /\ k - 1 \in 1 .. Len(playbooks)
              /\ k \in 2 .. Len(playbooks')
            OBVIOUS
        <3>3. /\ p.parent = playbooks'[k].version /\ ~playbooks'[k].version.rollback
              /\ p.rules = playbooks'[k - 1].rules
            BY <3>1, <3>2
        <3> QED BY <2>2, <3>2, <3>3
    <2> QED BY <2>1, <2>2
<1>5. p.version.rollback <=> p.rollbackTo # NoVersion
    BY DEF Sound
<1> QED BY <1>2, <1>3, <1>4, <1>5 DEF Sound

\* An offer's payload is well formed.
LEMMA OfferType ==
    ASSUME proposals \in Seq(ProposalRow), NEW i \in PlaybookRows
    PROVE  /\ i \in 1 .. Len(proposals) /\ proposals[i].payload \in Payload
           /\ proposals[i].status \in {"pending", "approved", "rejected"}
           /\ proposals[i].payload.version \in VersionType
           /\ proposals[i].payload.rules \in VersionType
           /\ proposals[i].payload.parent \in VersionType
<1>1. i \in 1 .. Len(proposals) /\ proposals[i].payload.kind = "playbook"
    BY DEF PlaybookRows
<1>2. proposals[i] \in ProposalRow
    BY <1>1
<1>3. /\ proposals[i].payload \in Payload
      /\ proposals[i].status \in {"pending", "approved", "rejected"}
    BY <1>2 DEF ProposalRow
<1> QED BY <1>1, <1>3 DEF Payload

\* Time and the job.
Onward ==
    \/ /\ now' = now
       /\ job'.step # "idle" => job.step # "idle"
       /\ job'.step \in {"run", "consult", "file"} => job.step \in {"run", "consult", "file"}
    \/ now' = now + 1

\* One offer more, or one published: what was on offer is as it was.
LEMMA OffersStep ==
    ASSUME JobInv, proposals \in Seq(ProposalRow), Chain, Offers, Onward,
           proposals' \in Seq(ProposalRow), Chain',
           \A j \in 1 .. Len(playbooks) : /\ playbooks'[j].version = playbooks[j].version
                                          /\ playbooks'[j].rules = playbooks[j].rules,
           Len(playbooks) <= Len(playbooks'),
           \A i \in 1 .. Len(proposals) :
              /\ i \in 1 .. Len(proposals') /\ proposals'[i].payload = proposals[i].payload
              /\ proposals[i].status = "approved" => proposals'[i].status = "approved",
           \A p \in Payload :
              (\E i \in PlaybookRows' \ PlaybookRows : p = proposals'[i].payload) => Sound(p)',
           \A i \in PlaybookRows' \ PlaybookRows :
              /\ i = Len(proposals) + 1
              /\ \A j \in PlaybookRows :
                    proposals[j].payload.version # proposals'[i].payload.version,
           \A j \in 1 .. Len(playbooks') :
              \/ j \in 1 .. Len(playbooks)
              \/ \E i \in PlaybookRows : /\ proposals'[i].status = "approved"
                                         /\ proposals'[i].payload.version = playbooks'[j].version
    PROVE  Offers'
<1>1. Len(playbooks) \in Nat /\ Len(playbooks') \in Nat
    BY DEF Chain
<1>2. \A i \in PlaybookRows : i \in PlaybookRows' /\ proposals'[i].payload = proposals[i].payload
    BY DEF PlaybookRows
<1>3. ASSUME NEW p \in Payload, NEW i \in PlaybookRows', p = proposals'[i].payload
      PROVE  Sound(p)'
    <2>1. CASE i \in PlaybookRows
        <3>1. p = proposals[i].payload
            BY <1>2, <1>3, <2>1
        <3>2. p.version \in VersionType /\ Sound(p)
            BY <2>1, <3>1, OfferType DEF Offers
        <3> QED BY <1>1, <3>2, SoundStays DEF Onward
    <2>2. CASE i \notin PlaybookRows
        BY <1>3, <2>2
    <2> QED BY <2>1, <2>2
<1>4. ASSUME NEW i \in PlaybookRows', NEW j \in PlaybookRows',
             proposals'[i].payload.version = proposals'[j].payload.version
      PROVE  i = j
    <2>1. CASE i \in PlaybookRows /\ j \in PlaybookRows
        BY <1>2, <1>4, <2>1 DEF Offers
    <2>2. CASE i \in PlaybookRows /\ j \notin PlaybookRows
        BY <1>2, <1>4, <2>2
    <2>3. CASE i \notin PlaybookRows /\ j \in PlaybookRows
        BY <1>2, <1>4, <2>3
    <2>4. CASE i \notin PlaybookRows /\ j \notin PlaybookRows
        BY <2>4
    <2> QED BY <2>1, <2>2, <2>3, <2>4
<1>5. ASSUME NEW j \in 1 .. Len(playbooks')
      PROVE  \/ playbooks'[j].version.at < Never
             \/ \E i \in PlaybookRows' : /\ proposals'[i].status = "approved"
                                         /\ proposals'[i].payload.version = playbooks'[j].version
    <2>1. CASE j \in 1 .. Len(playbooks)
        <3>1. playbooks'[j].version = playbooks[j].version
            BY <2>1
        <3>2. CASE playbooks[j].version.at < Never
            BY <3>1, <3>2
        <3>3. CASE \E i \in PlaybookRows : /\ proposals[i].status = "approved"
                                           /\ proposals[i].payload.version = playbooks[j].version
            <4>1. PICK i \in PlaybookRows : /\ proposals[i].status = "approved"
                                            /\ proposals[i].payload.version = playbooks[j].version
                BY <3>3
            <4>2. i \in PlaybookRows' /\ proposals'[i].status = "approved"
                BY <1>2, <4>1, OfferType
            <4> QED BY <1>2, <3>1, <4>1, <4>2
        <3> QED BY <2>1, <3>2, <3>3 DEF Offers
    <2>2. CASE j \notin 1 .. Len(playbooks)
        <3>1. PICK i \in PlaybookRows : /\ proposals'[i].status = "approved"
                                        /\ proposals'[i].payload.version = playbooks'[j].version
            BY <2>2
        <3> QED BY <1>2, <3>1
    <2> QED BY <2>1, <2>2
<1> QED BY <1>3, <1>4, <1>5 DEF Offers

LEMMA ChainStays == ASSUME Chain, UNCHANGED playbooks PROVE Chain' /\ Len(playbooks) \in Nat
    BY DEF Chain

\* Nothing filed, decided or published.
LEMMA OffersUnchanged ==
    ASSUME JobInv, proposals \in Seq(ProposalRow), Chain, Offers, Onward,
           UNCHANGED <<proposals, playbooks>>
    PROVE  proposals' \in Seq(ProposalRow) /\ Chain' /\ Offers'
<1>1. proposals' \in Seq(ProposalRow) /\ Chain'
    BY DEF Chain
<1>2. PlaybookRows' = PlaybookRows
    BY DEF PlaybookRows
<1>3. Len(playbooks) \in Nat
    BY DEF Chain
<1> QED BY <1>1, <1>2, <1>3, OffersStep

\* A proposal filed.
LEMMA OffersFiled ==
    ASSUME JobInv, proposals \in Seq(ProposalRow), Chain, Offers, Onward,
           UNCHANGED playbooks, NEW p \in Payload, File(p),
           p.kind = "playbook" =>
              Sound(p)' /\ \A j \in PlaybookRows : proposals[j].payload.version # p.version
    PROVE  proposals' \in Seq(ProposalRow) /\ Chain' /\ Offers'
<1>1. Chain' /\ Len(playbooks) \in Nat
    BY ChainStays
<1> DEFINE m == Len(proposals)
<1>2. /\ proposals' \in Seq(ProposalRow) /\ m \in Nat /\ Len(proposals') = m + 1
      /\ \A i \in 1 .. m : proposals'[i] = proposals[i]
      /\ proposals'[m + 1].payload = p
    BY Filing
<1>3. DOMAIN proposals' = 1 .. m + 1
    BY <1>2
<1>4. \A i \in 1 .. m + 1 : i \in 1 .. m \/ i = m + 1
    BY <1>2
<1>5. \A i \in 1 .. m : i \in 1 .. m + 1
    BY <1>2
<1>6. ASSUME NEW i \in PlaybookRows' \ PlaybookRows PROVE i = m + 1 /\ p.kind = "playbook"
    BY <1>2, <1>3, <1>4 DEF PlaybookRows
<1>7. \A i \in PlaybookRows' \ PlaybookRows :
          /\ i = Len(proposals) + 1
          /\ \A j \in PlaybookRows : proposals[j].payload.version # proposals'[i].payload.version
    BY <1>2, <1>6
<1>8. \A q \in Payload :
          (\E i \in PlaybookRows' \ PlaybookRows : q = proposals'[i].payload) => Sound(q)'
    <2> SUFFICES ASSUME NEW q \in Payload, NEW i \in PlaybookRows' \ PlaybookRows,
                        q = proposals'[i].payload
                 PROVE  Sound(q)'
        OBVIOUS
    <2>1. q = p /\ p.kind = "playbook"
        BY <1>2, <1>6
    <2> QED BY <2>1
<1> QED BY <1>1, <1>2, <1>5, <1>7, <1>8, OffersStep

\* An operator rejects.
LEMMA OffersRejected ==
    ASSUME JobInv, proposals \in Seq(ProposalRow), Chain, Offers,
           NEW i \in DOMAIN proposals, Reject(i)
    PROVE  proposals' \in Seq(ProposalRow) /\ Chain' /\ Offers'
<1>1. /\ proposals[i].status = "pending" /\ UNCHANGED <<now, playbooks, job>>
      /\ proposals' = [proposals EXCEPT ![i].status = "rejected"]
    BY DEF Reject
<1>2. Chain' /\ Len(playbooks) \in Nat
    BY <1>1, ChainStays
<1>3. i \in 1 .. Len(proposals)
    OBVIOUS
<1>4. /\ proposals' \in Seq(ProposalRow) /\ Len(proposals') = Len(proposals)
      /\ \A j \in 1 .. Len(proposals) :
            /\ proposals'[j].payload = proposals[j].payload
            /\ proposals'[j].status = IF j = i THEN "rejected" ELSE proposals[j].status
    BY <1>1, <1>3, Deciding
<1>5. PlaybookRows' = PlaybookRows
    BY <1>4 DEF PlaybookRows
<1>6. \A j \in 1 .. Len(proposals) :
          proposals[j].status = "approved" => proposals'[j].status = "approved"
    BY <1>1, <1>4
<1>7. Onward
    BY <1>1 DEF Onward
<1> QED BY <1>1, <1>2, <1>4, <1>5, <1>6, <1>7, OffersStep

\* What an approval does to the playbooks: the offer becomes the last of the chain, after
\* what was in force.
LEMMA Approving ==
    ASSUME JobInv, proposals \in Seq(ProposalRow), Chain, Offers,
           NEW i \in DOMAIN proposals, Approve(i), proposals[i].payload.kind = "playbook"
    PROVE  LET p == proposals[i].payload
               n == Len(playbooks)
           IN /\ i \in PlaybookRows /\ Sound(p)
              /\ n \in Nat /\ Len(playbooks') = n + 1 /\ Chain'
              /\ \A j \in 1 .. n : /\ playbooks'[j].version = playbooks[j].version
                                   /\ playbooks'[j].rules = playbooks[j].rules
                                   /\ playbooks[j].version # p.version
              /\ playbooks'[n + 1].version = p.version /\ playbooks'[n + 1].rules = p.rules
<1> DEFINE p == proposals[i].payload
           n == Len(playbooks)
<1>1. i \in PlaybookRows /\ p \in Payload /\ proposals[i].status = "pending"
    BY OfferType DEF PlaybookRows, Approve
<1>2. Sound(p)
    BY <1>1 DEF Offers
<1>3. p.version \in VersionType /\ p.rules \in VersionType
    BY <1>1, OfferType
<1>4. /\ playbooks' \in Seq(PlaybookRow)
      /\ n \in Nat /\ Len(playbooks') = n + 1
      /\ \A j \in 1 .. n :
            /\ playbooks'[j].version = playbooks[j].version
            /\ playbooks'[j].rules = playbooks[j].rules
            /\ playbooks'[j].parent = playbooks[j].parent
            /\ playbooks'[j].retired = TRUE
      /\ playbooks'[n + 1].version = p.version /\ playbooks'[n + 1].rules = p.rules
      /\ playbooks'[n + 1].retired = FALSE
      /\ playbooks'[n + 1].parent = IF n = 0 THEN NoVersion ELSE playbooks[n].version
    <2>1. playbooks' = Append(
               [j \in DOMAIN playbooks |->
                   [playbooks[j] EXCEPT !.retired = @ \/ playbooks[j].version = Current]],
               [version |-> p.version, rules |-> p.rules, parent |-> Current, retired |-> FALSE])
        BY DEF Approve
    <2> DEFINE v == p.version
               r == p.rules
    <2> HIDE DEF v, r, p
    <2>2. v \in VersionType /\ r \in VersionType
        BY <1>3 DEF v, r
    <2> QED BY <2>1, <2>2, Publishing DEF v, r
<1>5. p.version.at \in Nat /\ p.version.at > 0
    <2>1. p.version.at \in 1 .. now /\ now \in Nat
        BY <1>2 DEF Sound, JobInv
    <2> HIDE DEF p
    <2> QED BY <2>1
<1>6. ASSUME NEW j \in 1 .. n PROVE playbooks[j].version # p.version
    <2>1. CASE playbooks[j].version.at < Never
        <3>1. ~(p.version.at < Never)
            <4> HIDE DEF p
            <4> QED BY <1>5 DEF Never
        <3> QED BY <2>1, <3>1
    <2>2. CASE \E k \in PlaybookRows : /\ proposals[k].status = "approved"
                                       /\ proposals[k].payload.version = playbooks[j].version
        <3>1. PICK k \in PlaybookRows : /\ proposals[k].status = "approved"
                                        /\ proposals[k].payload.version = playbooks[j].version
            BY <2>2
        <3>2. k # i
            BY <1>1, <3>1
        <3> QED BY <1>1, <3>1, <3>2 DEF Offers
    <2> QED BY <2>1, <2>2 DEF Offers
<1>7. ~p.version.rollback => p.rules = p.version
    BY <1>2 DEF Sound
<1>8. p.version.rollback => \E j \in 1 .. n : p.rules = playbooks[j].version
    <2> SUFFICES ASSUME p.version.rollback PROVE \E j \in 1 .. n : p.rules = playbooks[j].version
        OBVIOUS
    <2>1. PICK k \in 2 .. n : p.rules = playbooks[k - 1].rules
        BY <1>2 DEF Sound
    <2>2. k - 1 \in 1 .. n
        BY <1>4
    <2>3. CASE playbooks[k - 1].version.rollback
        <3>1. PICK j \in 1 .. (k - 1) - 1 : playbooks[k - 1].rules = playbooks[j].version
            BY <2>2, <2>3 DEF Chain
        <3>2. j \in 1 .. n
            BY <1>4
        <3> QED BY <2>1, <3>1, <3>2
    <2>4. CASE ~playbooks[k - 1].version.rollback
        BY <2>1, <2>2, <2>4 DEF Chain
    <2> QED BY <2>3, <2>4
<1> HIDE DEF p
<1>9. ASSUME NEW k \in 1 .. n + 1
      PROVE  LET b == playbooks'[k] IN
             /\ b.version # NoVersion /\ b.retired = (k < n + 1)
             /\ b.parent = IF k = 1 THEN NoVersion ELSE playbooks'[k - 1].version
             /\ \A j \in 1 .. n + 1 : b.version = playbooks'[j].version => k = j
             /\ IF b.version.rollback
                THEN \E j \in 1 .. k - 1 : b.rules = playbooks'[j].version
                ELSE b.rules = b.version
    <2>1. CASE k \in 1 .. n
        <3>1. /\ playbooks[k].version # NoVersion
              /\ playbooks[k].parent = IF k = 1 THEN NoVersion ELSE playbooks[k - 1].version
              /\ \A j \in 1 .. n : playbooks[k].version = playbooks[j].version => k = j
              /\ IF playbooks[k].version.rollback
                 THEN \E j \in 1 .. k - 1 : playbooks[k].rules = playbooks[j].version
                 ELSE playbooks[k].rules = playbooks[k].version
            BY <2>1 DEF Chain
        <3>2. /\ \A j \in 1 .. k - 1 : j \in 1 .. n
              /\ k # 1 => k - 1 \in 1 .. n
              /\ (k < n + 1) = TRUE
            BY <1>4, <2>1
        <3>3. playbooks'[k].parent = IF k = 1 THEN NoVersion ELSE playbooks'[k - 1].version
            BY <1>4, <2>1, <3>1, <3>2
        <3>4. \A j \in 1 .. n + 1 : playbooks'[k].version = playbooks'[j].version => k = j
            <4> SUFFICES ASSUME NEW j \in 1 .. n + 1, playbooks'[k].version = playbooks'[j].version
                         PROVE  k = j
                OBVIOUS
            <4>1. j \in 1 .. n \/ j = n + 1
                BY <1>4
            <4> QED BY <1>4, <1>6, <2>1, <3>1, <4>1
        <3>5. IF playbooks'[k].version.rollback
              THEN \E j \in 1 .. k - 1 : playbooks'[k].rules = playbooks'[j].version
              ELSE playbooks'[k].rules = playbooks'[k].version
            BY <1>4, <2>1, <3>1, <3>2
        <3>6. playbooks'[k].retired = (k < n + 1)
            BY <1>4, <2>1, <3>2
        <3>7. playbooks'[k].version # NoVersion
            BY <1>4, <2>1, <3>1
        <3> QED BY <3>3, <3>4, <3>5, <3>6, <3>7
    <2>2. CASE k = n + 1
        <3>1. (k < n + 1) = FALSE /\ k - 1 = n /\ (k = 1 <=> n = 0)
            BY <1>4, <2>2
        <3>2. p.version # NoVersion
            BY <1>5 DEF NoVersion, Never
        <3>3. playbooks'[k].parent = IF k = 1 THEN NoVersion ELSE playbooks'[k - 1].version
            <4>1. n # 0 => n \in 1 .. n
                BY <1>4
            <4> QED BY <1>4, <2>2, <3>1, <4>1
        <3>4. \A j \in 1 .. n + 1 : playbooks'[k].version = playbooks'[j].version => k = j
            <4> SUFFICES ASSUME NEW j \in 1 .. n + 1, playbooks'[k].version = playbooks'[j].version
                         PROVE  k = j
                OBVIOUS
            <4>1. j \in 1 .. n \/ j = n + 1
                BY <1>4
            <4> QED BY <1>4, <1>6, <2>2, <4>1
        <3>5. IF playbooks'[k].version.rollback
              THEN \E j \in 1 .. k - 1 : playbooks'[k].rules = playbooks'[j].version
              ELSE playbooks'[k].rules = playbooks'[k].version
            BY <1>4, <1>7, <1>8, <2>2, <3>1
        <3>6. playbooks'[k].retired = (k < n + 1) /\ playbooks'[k].version # NoVersion
            BY <1>4, <2>2, <3>1, <3>2
        <3> QED BY <3>3, <3>4, <3>5, <3>6
    <2>3. k \in 1 .. n \/ k = n + 1
        BY <1>4
    <2> QED BY <2>1, <2>2, <2>3
<1>10. Chain'
    BY <1>4, <1>9 DEF Chain
<1> QED BY <1>1, <1>2, <1>4, <1>6, <1>10 DEF p

\* An operator approves.
LEMMA OffersApproved ==
    ASSUME JobInv, proposals \in Seq(ProposalRow), Chain, Offers,
           NEW i \in DOMAIN proposals, Approve(i)
    PROVE  proposals' \in Seq(ProposalRow) /\ Chain' /\ Offers'
<1>1. /\ proposals[i].status = "pending" /\ UNCHANGED <<now, job>>
      /\ proposals' = [proposals EXCEPT ![i].status = "approved"]
    BY DEF Approve
<1>2. i \in 1 .. Len(proposals)
    OBVIOUS
<1>3. /\ proposals' \in Seq(ProposalRow) /\ Len(proposals') = Len(proposals)
      /\ \A j \in 1 .. Len(proposals) :
            /\ proposals'[j].payload = proposals[j].payload
            /\ proposals'[j].status = IF j = i THEN "approved" ELSE proposals[j].status
    BY <1>1, <1>2, Deciding
<1>4. PlaybookRows' = PlaybookRows
    BY <1>3 DEF PlaybookRows
<1>5. \A j \in 1 .. Len(proposals) :
          proposals[j].status = "approved" => proposals'[j].status = "approved"
    BY <1>3
<1>6. Onward
    BY <1>1 DEF Onward
<1>7. CASE proposals[i].payload.kind # "playbook"
    <2>1. UNCHANGED playbooks
        BY <1>7 DEF Approve
    <2>2. Chain' /\ Len(playbooks) \in Nat
        BY <2>1, ChainStays
    <2> QED BY <1>3, <1>4, <1>5, <1>6, <2>1, <2>2, OffersStep
<1>8. CASE proposals[i].payload.kind = "playbook"
    <2> DEFINE n == Len(playbooks)
    <2>1. /\ i \in PlaybookRows
          /\ n \in Nat /\ Len(playbooks') = n + 1 /\ Chain'
          /\ \A j \in 1 .. n : /\ playbooks'[j].version = playbooks[j].version
                               /\ playbooks'[j].rules = playbooks[j].rules
          /\ playbooks'[n + 1].version = proposals[i].payload.version
        BY <1>8, Approving
    <2>2. \A j \in 1 .. n + 1 : j \in 1 .. n \/ j = n + 1
        BY <2>1
    <2>3. /\ proposals'[i].status = "approved"
          /\ proposals'[i].payload.version = playbooks'[n + 1].version
        BY <1>2, <1>3, <2>1
    <2>4. n <= n + 1
        BY <2>1
    <2> QED BY <1>3, <1>4, <1>5, <1>6, <2>1, <2>2, <2>3, <2>4, OffersStep
<1> QED BY <1>7, <1>8

\* What a calibration files is a confidence floor, and the only one that is pending.
LEMMA Floor ==
    ASSUME Calibrate, ~(UNCHANGED proposals)
    PROVE  /\ \E f \in Bands : File([kind |-> "param", floor |-> f])
           /\ \A p \in Pending : p.payload.kind # "param"
<1> DEFINE floors == {b \in Floors : ~FloorPending(b)}
           f == CHOOSE b \in floors : TRUE
<1>1. floors # {} /\ File([kind |-> "param", floor |-> f])
    BY DEF Calibrate
<1>2. f \in floors
    BY <1>1
<1> HIDE DEF f
<1>3. f \in Bands /\ ~FloorPending(f)
    BY <1>2 DEF Floors, Clearing, Sized
<1> QED BY <1>1, <1>3 DEF FloorPending

LEMMA BookStep == JobInv /\ BookInv /\ [Next]_vars => BookInv'
<1> SUFFICES ASSUME JobInv, BookInv, [Next]_vars PROVE BookInv'
    OBVIOUS
<1>1. /\ proposals \in Seq(ProposalRow) /\ Chain /\ Offers
      /\ now \in Int
    BY DEF BookInv, JobInv
<1>2. ASSUME Onward, UNCHANGED <<proposals, playbooks>>, job'.step \notin {"consult", "file"}
      PROVE  BookInv'
    BY <1>1, <1>2, OffersUnchanged DEF BookInv
<1>3. ASSUME UNCHANGED <<now, job>>, proposals' \in Seq(ProposalRow), Chain', Offers'
      PROVE  BookInv'
    BY <1>3 DEF BookInv
<1>4. CASE UNCHANGED vars
    <2>1. UNCHANGED <<now, job, proposals, playbooks>>
        BY <1>4 DEF vars, store
    <2> QED BY <1>1, <1>3, <2>1, OffersUnchanged DEF Onward
<1>5. CASE Tick
    <2>1. now' = now + 1 /\ job' = [step |-> "run"] /\ UNCHANGED <<proposals, playbooks>>
        BY <1>5 DEF Tick
    <2> QED BY <1>2, <2>1 DEF Onward
<1>6. CASE Run
    <2>1. job.step = "run" /\ UNCHANGED <<now, proposals, playbooks>>
        BY <1>6 DEF Run, store
    <2>2. CASE job'.step # "consult"
        <3>1. job'.step \in {"idle", "calibrate"}
            BY <1>6, <2>2 DEF Run, Idle
        <3> QED BY <1>2, <2>1, <3>1 DEF Onward
    <2>3. CASE job'.step = "consult"
        <3>1. job'.current = Current
            BY <1>6, <2>3 DEF Run, Idle
        <3>2. Current \in VersionType
            <4>1. CASE Len(playbooks) = 0
                BY <1>1, <4>1, InForce, VersionAt
            <4>2. CASE Len(playbooks) # 0
                <5>1. /\ Len(playbooks) \in 1 .. Len(playbooks)
                      /\ Current = playbooks[Len(playbooks)].version
                    BY <1>1, <4>2, InForce
                <5>2. playbooks[Len(playbooks)] \in PlaybookRow
                    BY <1>1, <5>1 DEF Chain
                <5> QED BY <5>1, <5>2 DEF PlaybookRow
            <4> QED BY <4>1, <4>2
        <3>3. Onward
            BY <2>1 DEF Onward
        <3>4. proposals' \in Seq(ProposalRow) /\ Chain' /\ Offers'
            BY <1>1, <2>1, <3>3, OffersUnchanged
        <3> QED BY <2>3, <3>1, <3>2, <3>4 DEF BookInv
    <2> QED BY <2>2, <2>3
<1>7. CASE Consult
    <2>1. PICK v \in {NoVersion, [rollback |-> FALSE, at |-> now]} :
              job' = IF v = NoVersion THEN [step |-> "calibrate"]
                     ELSE [step |-> "file", version |-> v, parent |-> job.current]
        BY <1>7 DEF Consult
    <2>2. job.step = "consult" /\ UNCHANGED <<now, proposals, playbooks>>
        BY <1>7 DEF Consult
    <2>3. CASE v = NoVersion
        BY <1>2, <2>1, <2>2, <2>3 DEF Onward
    <2>4. CASE v # NoVersion
        <3>1. /\ job'.step = "file" /\ job'.parent = job.current
              /\ job'.version = [rollback |-> FALSE, at |-> now]
            BY <2>1, <2>4
        <3>2. Onward
            BY <2>2, <3>1 DEF Onward
        <3>3. proposals' \in Seq(ProposalRow) /\ Chain' /\ Offers'
            BY <1>1, <2>2, <3>2, OffersUnchanged
        <3>4. job.current \in VersionType
            BY <2>2 DEF BookInv
        <3> QED BY <2>2, <3>1, <3>3, <3>4 DEF BookInv
    <2> QED BY <2>3, <2>4
<1>8. CASE ConsultFails
    <2>1. /\ job.step = "consult" /\ job' = [step |-> "calibrate"]
          /\ UNCHANGED <<now, proposals, playbooks>>
        BY <1>8 DEF ConsultFails, store
    <2> QED BY <1>2, <2>1 DEF Onward
<1>15. CASE Refused
    BY <1>2, <1>15, GoesOn DEF Onward
<1>9. CASE FileRules
    <2>0. PICK p : p = [kind |-> "playbook", version |-> job.version, rules |-> job.version,
                        parent |-> job.parent, rollbackTo |-> NoVersion]
        OBVIOUS
    <2>1. /\ job.step = "file" /\ File(p) /\ job' = [step |-> "calibrate"]
          /\ UNCHANGED <<now, playbooks>>
        BY <1>9, <2>0 DEF FileRules
    <2>2. job.parent \in VersionType /\ job.version = [rollback |-> FALSE, at |-> now]
        BY <2>1 DEF BookInv
    <2>3. job.version \in VersionType
        BY <1>1, <2>2, VersionAt
    <2>4. p \in Payload
        BY <2>0, <2>2, <2>3, PlaybookPayload, VersionAt
    <2>5. now > 0 /\ now \in Nat
        BY <2>1 DEF JobInv
    <2>6. /\ p.version = [rollback |-> FALSE, at |-> now] /\ p.rules = p.version
          /\ p.rollbackTo = NoVersion
        BY <2>0, <2>2
    <2>7. \A j \in PlaybookRows : proposals[j].payload.version # p.version
        <3> SUFFICES ASSUME NEW j \in PlaybookRows PROVE proposals[j].payload.version # p.version
            OBVIOUS
        <3>1. Sound(proposals[j].payload)
            BY <1>1, OfferType DEF Offers
        <3> QED BY <2>1, <2>6, <3>1 DEF Sound
    <2>8. Sound(p)'
        <3>1. now \in 1 .. now /\ job'.step = "calibrate" /\ now' = now
            BY <2>1, <2>5
        <3> QED BY <2>6, <3>1 DEF Sound
    <2>9. Onward
        BY <2>1 DEF Onward
    <2>10. proposals' \in Seq(ProposalRow) /\ Chain' /\ Offers'
        BY <1>1, <2>1, <2>4, <2>7, <2>8, <2>9, OffersFiled
    <2> QED BY <2>1, <2>10 DEF BookInv
<1>10. CASE Calibrate
    <2>1. /\ job.step = "calibrate" /\ job' = [step |-> "rollback"]
          /\ UNCHANGED <<now, playbooks>>
        BY <1>10 DEF Calibrate
    <2>2. Onward
        BY <2>1 DEF Onward
    <2>3. CASE UNCHANGED proposals
        BY <1>2, <2>1, <2>2, <2>3
    <2>4. CASE ~(UNCHANGED proposals)
        <3>1. PICK f \in Bands : File([kind |-> "param", floor |-> f])
            BY <1>10, <2>4, Floor
        <3> DEFINE p == [kind |-> "param", floor |-> f]
        <3>2. p \in Payload /\ p.kind # "playbook"
            BY ReflectionAssumption DEF Payload
        <3>3. File(p)
            BY <3>1
        <3> HIDE DEF p
        <3>4. proposals' \in Seq(ProposalRow) /\ Chain' /\ Offers'
            BY <1>1, <2>1, <2>2, <3>2, <3>3, OffersFiled
        <3> QED BY <2>1, <3>4 DEF BookInv
    <2> QED BY <2>3, <2>4
<1>11. CASE ProposeRollback
    <2>1. job.step = "rollback" /\ job' = Idle /\ UNCHANGED <<now, playbooks>>
        BY <1>11 DEF ProposeRollback
    <2>2. Onward /\ job'.step = "idle"
        BY <2>1 DEF Onward, Idle
    <2>3. CASE UNCHANGED proposals
        BY <1>2, <2>1, <2>2, <2>3
    <2>4. CASE ~(UNCHANGED proposals)
        <3> DEFINE n == Len(playbooks)
        <3>0. PICK p :
                  p = [kind |-> "playbook", version |-> [rollback |-> TRUE, at |-> now],
                       rules |-> playbooks[n - 1].rules, parent |-> playbooks[n].version,
                       rollbackTo |-> playbooks[n - 1].version]
            OBVIOUS
        <3>1. /\ n \in Nat /\ n > 1 /\ ~playbooks[n].version.rollback
              /\ playbooks[n - 1].version # NoVersion /\ File(p)
            BY <1>1, <1>11, <2>4, <3>0, Restoring
        <3>2. n - 1 \in 1 .. n /\ n \in 1 .. n /\ n \in 2 .. n
            BY <3>1
        <3>3. playbooks[n - 1] \in PlaybookRow /\ playbooks[n] \in PlaybookRow
            BY <1>1, <3>2 DEF Chain
        <3>4. [rollback |-> TRUE, at |-> now] \in VersionType
            BY <1>1, VersionAt
        <3>5. p \in Payload
            BY <3>0, <3>3, <3>4, PlaybookPayload DEF PlaybookRow
        <3>6. now > 0 /\ now \in Nat
            BY <2>1 DEF JobInv
        <3>7. \A j \in PlaybookRows : proposals[j].payload.version # p.version
            <4> SUFFICES ASSUME NEW j \in PlaybookRows
                         PROVE  proposals[j].payload.version # p.version
                OBVIOUS
            <4>1. Sound(proposals[j].payload)
                BY <1>1, OfferType DEF Offers
            <4> QED BY <2>1, <3>0, <4>1 DEF Sound
        <3>8. /\ p.version = [rollback |-> TRUE, at |-> now] /\ p.rollbackTo # NoVersion
              /\ \E k \in 2 .. n : /\ p.parent = playbooks[k].version
                                   /\ ~playbooks[k].version.rollback
                                   /\ p.rules = playbooks[k - 1].rules
            BY <3>0, <3>1, <3>2
        <3>9. Sound(p)'
            <4>1. now \in 1 .. now /\ now' = now /\ playbooks' = playbooks
                BY <2>1, <3>6
            <4> QED BY <2>2, <3>8, <4>1 DEF Sound
        <3>10. proposals' \in Seq(ProposalRow) /\ Chain' /\ Offers'
            BY <1>1, <2>1, <2>2, <3>5, <3>1, <3>7, <3>9, OffersFiled
        <3> QED BY <2>2, <3>10 DEF BookInv
    <2> QED BY <2>3, <2>4
<1>12. CASE \E o \in outcomes : Critique(o)
    <2>1. UNCHANGED <<now, job, proposals, playbooks>>
        BY <1>12 DEF Critique
    <2> QED BY <1>1, <1>3, <2>1, OffersUnchanged DEF Onward
<1>13. CASE \E i \in DOMAIN proposals : Reject(i) \/ Approve(i)
    <2>1. PICK i \in DOMAIN proposals : Reject(i) \/ Approve(i)
        BY <1>13
    <2>2. UNCHANGED <<now, job>>
        BY <2>1 DEF Reject, Approve
    <2> QED BY <1>1, <1>3, <2>1, <2>2, OffersRejected, OffersApproved
<1>14. CASE Crash
    <2>1. UNCHANGED <<now, proposals, playbooks>> /\ job' = Idle
        BY <1>14 DEF Crash, store
    <2> QED BY <1>2, <2>1 DEF Onward, Idle
<1> QED BY <1>4, <1>5, <1>6, <1>7, <1>8, <1>9, <1>10, <1>11, <1>12, <1>13, <1>14, <1>15
       DEF Next

LEMMA BookInvariant == Spec => []BookInv
<1>1. Init => BookInv
    <2> SUFFICES ASSUME Init PROVE BookInv
        OBVIOUS
    <2>1. playbooks = PastPlaybooks /\ proposals = <<>> /\ job.step = "idle"
        BY DEF Init, Idle
    <2>2. PlaybookRows = {} /\ proposals \in Seq(ProposalRow)
        BY <2>1 DEF PlaybookRows
    <2>3. playbooks \in Seq(PlaybookRow)
        BY <2>1, PlaybooksAssumption DEF PlaybookRow, VersionType
    <2>4. DOMAIN playbooks = 1 .. Len(playbooks)
        BY <2>3
    <2>5. ASSUME NEW i \in 1 .. Len(playbooks)
          PROVE  LET b == playbooks[i] IN
                 /\ b.version.at < Never /\ b.version # NoVersion
                 /\ b.retired = (i < Len(playbooks))
                 /\ b.parent = IF i = 1 THEN NoVersion ELSE playbooks[i - 1].version
                 /\ \A j \in 1 .. Len(playbooks) : b.version = playbooks[j].version => i = j
                 /\ IF b.version.rollback
                    THEN \E j \in 1 .. i - 1 : b.rules = playbooks[j].version
                    ELSE b.rules = b.version
        <3>1. LET b == playbooks[i] IN
              /\ b.version.at < Never /\ b.retired = (i < Len(playbooks))
              /\ b.parent = IF i = 1 THEN NoVersion ELSE playbooks[i - 1].version
              /\ \A j \in 1 .. Len(playbooks) : b.version = playbooks[j].version => i = j
              /\ IF b.version.rollback
                 THEN \E j \in 1 .. i - 1 : b.rules = playbooks[j].version
                 ELSE b.rules = b.version
            BY <2>1, <2>4, PlaybooksAssumption
        <3>2. playbooks[i].version # NoVersion
            BY <3>1 DEF NoVersion, Never
        <3> QED BY <3>1, <3>2
    <2>6. Chain
        BY <2>3, <2>5 DEF Chain
    <2>7. Offers
        BY <2>2, <2>5 DEF Offers
    <2> QED BY <2>1, <2>2, <2>6, <2>7 DEF BookInv
<1> QED BY <1>1, BookStep, JobInvariant, PTL DEF Spec

------------------------------------------------------------------------------
(* What is filed *)

\* Rules of a reflection, a confidence floor, or a rollback.
Written(p) == p.kind = "playbook" /\ p.rollbackTo = NoVersion
Calibrated(p) == p.kind = "param" /\ \A q \in Pending : q.payload.kind # "param"
Restored(p) ==
    LET n == Len(playbooks) IN
    /\ p.kind = "playbook" /\ p.rollbackTo # NoVersion /\ NotPending(p.rollbackTo)
    /\ n \in Nat /\ n > 1 /\ ~playbooks[n].version.rollback
    /\ p.rules = playbooks[n - 1].rules

LEMMA Filings ==
    ASSUME BookInv, [Next]_vars, now \in Int
    PROVE  \/ UNCHANGED proposals
           \/ \E i \in DOMAIN proposals : Reject(i) \/ Approve(i)
           \/ \E p \in Payload : File(p) /\ (Written(p) \/ Calibrated(p) \/ Restored(p))
<1>1. CASE FileRules
    <2> DEFINE p == [kind |-> "playbook", version |-> job.version, rules |-> job.version,
                     parent |-> job.parent, rollbackTo |-> NoVersion]
    <2>1. job.step = "file" /\ File(p)
        BY <1>1 DEF FileRules
    <2>2. job.parent \in VersionType /\ job.version = [rollback |-> FALSE, at |-> now]
        BY <2>1 DEF BookInv
    <2>3. job.version \in VersionType
        BY <2>2, VersionAt
    <2>4. p \in Payload
        BY <2>2, <2>3, PlaybookPayload, VersionAt
    <2>5. Written(p)
        BY DEF Written
    <2> HIDE DEF p
    <2> QED BY <2>1, <2>4, <2>5
<1>2. CASE Calibrate /\ ~(UNCHANGED proposals)
    <2>1. PICK f \in Bands : File([kind |-> "param", floor |-> f])
        BY <1>2, Floor
    <2> DEFINE p == [kind |-> "param", floor |-> f]
    <2>2. p \in Payload
        BY ReflectionAssumption DEF Payload
    <2>3. Calibrated(p)
        BY <1>2, Floor DEF Calibrated
    <2>4. File(p)
        BY <2>1
    <2> HIDE DEF p
    <2> QED BY <2>2, <2>3, <2>4
<1>3. CASE ProposeRollback /\ ~(UNCHANGED proposals)
    <2> DEFINE n == Len(playbooks)
               p == [kind |-> "playbook", version |-> [rollback |-> TRUE, at |-> now],
                     rules |-> playbooks[n - 1].rules, parent |-> playbooks[n].version,
                     rollbackTo |-> playbooks[n - 1].version]
    <2>1. Chain
        BY DEF BookInv
    <2>2. /\ n \in Nat /\ n > 1 /\ ~playbooks[n].version.rollback
          /\ playbooks[n - 1].version # NoVersion /\ NotPending(playbooks[n - 1].version)
          /\ File(p)
        BY <1>3, <2>1, Restoring
    <2>3. n - 1 \in 1 .. n /\ n \in 1 .. n
        BY <2>2
    <2>4. playbooks[n - 1] \in PlaybookRow /\ playbooks[n] \in PlaybookRow
        BY <2>1, <2>3 DEF Chain
    <2>5. [rollback |-> TRUE, at |-> now] \in VersionType
        BY VersionAt
    <2>6. p \in Payload
        BY <2>4, <2>5, PlaybookPayload DEF PlaybookRow
    <2>7. Restored(p)
        BY <2>2 DEF Restored
    <2> HIDE DEF p
    <2> QED BY <2>2, <2>6, <2>7
<1>4. CASE ~(FileRules \/ Calibrate \/ ProposeRollback)
    BY <1>4, GoesOn DEF Next, vars, store, Tick, Run, Consult, ConsultFails, Critique, Crash
<1> QED BY <1>1, <1>2, <1>3, <1>4

------------------------------------------------------------------------------
(* Nothing piles up *)

\* Two that are pending for the same thing.
Stacked(i, j) ==
    /\ i # j /\ proposals[i].status = "pending" /\ proposals[j].status = "pending"
    /\ proposals[i].payload.kind = proposals[j].payload.kind
    /\ \/ proposals[i].payload.kind = "param"
       \/ /\ proposals[i].payload.rollbackTo = proposals[j].payload.rollbackTo
          /\ proposals[i].payload.rollbackTo # NoVersion

\* A proposal like none that is pending.
LEMMA StackFiled ==
    ASSUME proposals \in Seq(ProposalRow), NothingStacked, NEW p \in Payload, File(p),
           \A q \in Pending :
              /\ p.kind = "param" => q.payload.kind # "param"
              /\ (p.kind = "playbook" /\ p.rollbackTo # NoVersion /\ q.payload.kind = "playbook")
                 => q.payload.rollbackTo # p.rollbackTo
    PROVE  NothingStacked'
<1> DEFINE m == Len(proposals)
<1>1. /\ proposals' \in Seq(ProposalRow) /\ m \in Nat /\ Len(proposals') = m + 1
      /\ \A i \in 1 .. m : proposals'[i] = proposals[i]
      /\ proposals'[m + 1].payload = p
    BY Filing
<1>2. DOMAIN proposals' = 1 .. m + 1 /\ DOMAIN proposals = 1 .. m
    BY <1>1
<1>3. \A i \in 1 .. m + 1 : i \in 1 .. m \/ i = m + 1
    BY <1>1
<1>4. p.kind \in {"param", "playbook"}
    BY DEF Payload
<1>5. ASSUME NEW i \in 1 .. m, proposals'[i].status = "pending" PROVE proposals[i] \in Pending
    BY <1>1, <1>2, <1>5 DEF Pending, RowsOf
<1>6. ASSUME NEW i \in 1 .. m, NEW j \in 1 .. m + 1, Stacked(i, j)' PROVE FALSE
    <2>1. CASE j \in 1 .. m
        BY <1>1, <1>2, <1>6, <2>1 DEF NothingStacked, Stacked
    <2>2. CASE j = m + 1
        BY <1>1, <1>4, <1>5, <1>6, <2>2 DEF Stacked
    <2> QED BY <1>3, <2>1, <2>2
<1>7. ASSUME NEW i \in 1 .. m, NEW j \in 1 .. m + 1, Stacked(j, i)' PROVE Stacked(i, j)'
    BY <1>7 DEF Stacked
<1>8. \A i, j \in 1 .. m + 1 : ~Stacked(i, j)'
    <2> SUFFICES ASSUME NEW i \in 1 .. m + 1, NEW j \in 1 .. m + 1, Stacked(i, j)' PROVE FALSE
        OBVIOUS
    <2>1. i # j
        BY DEF Stacked
    <2> QED BY <1>3, <1>6, <1>7, <2>1
<1>9. (\A i, j \in DOMAIN proposals : ~Stacked(i, j))'
    BY <1>2, <1>8
<1>10. (\A i, j \in DOMAIN proposals : ~Stacked(i, j))' => NothingStacked'
    BY DEF NothingStacked, Stacked
<1> QED BY <1>9, <1>10

\* Deciding leaves no more pending.
LEMMA StackDecided ==
    ASSUME proposals \in Seq(ProposalRow), NothingStacked, NEW i \in DOMAIN proposals,
           Reject(i) \/ Approve(i)
    PROVE  NothingStacked'
<1>1. PICK s \in {"approved", "rejected"} : proposals' = [proposals EXCEPT ![i].status = s]
    BY DEF Reject, Approve
<1>2. i \in 1 .. Len(proposals)
    OBVIOUS
<1>3. /\ proposals' \in Seq(ProposalRow) /\ Len(proposals') = Len(proposals)
      /\ \A j \in 1 .. Len(proposals) :
            /\ proposals'[j].payload = proposals[j].payload
            /\ proposals'[j].status = IF j = i THEN s ELSE proposals[j].status
    BY <1>1, <1>2, Deciding
<1>4. DOMAIN proposals' = DOMAIN proposals /\ DOMAIN proposals = 1 .. Len(proposals)
    BY <1>3
<1>5. \A j \in DOMAIN proposals :
          /\ proposals'[j].payload = proposals[j].payload
          /\ proposals'[j].status = "pending" => proposals[j].status = "pending"
    BY <1>3, <1>4
<1> QED BY <1>4, <1>5 DEF NothingStacked

\* However long an operator waits, and whatever he decides in between, the two mechanical
\* proposers (calibration.py:29-38, playbook_rollback.py:43-50) repeat nothing that is pending.
THEOREM ProposesOnce == Spec => []NothingStacked
<1>1. Init => NothingStacked
    BY DEF Init, NothingStacked
<1>2. JobInv /\ BookInv /\ NothingStacked /\ [Next]_vars => NothingStacked'
    <2> SUFFICES ASSUME JobInv, BookInv, NothingStacked, [Next]_vars PROVE NothingStacked'
        OBVIOUS
    <2>1. proposals \in Seq(ProposalRow) /\ now \in Int
        BY DEF BookInv, JobInv
    <2>2. CASE UNCHANGED proposals
        BY <2>2 DEF NothingStacked
    <2>3. CASE \E i \in DOMAIN proposals : Reject(i) \/ Approve(i)
        BY <2>1, <2>3, StackDecided
    <2>4. CASE \E p \in Payload : File(p) /\ (Written(p) \/ Calibrated(p) \/ Restored(p))
        <3>1. PICK p \in Payload : File(p) /\ (Written(p) \/ Calibrated(p) \/ Restored(p))
            BY <2>4
        <3>2. \A q \in Pending :
                  /\ p.kind = "param" => q.payload.kind # "param"
                  /\ (/\ p.kind = "playbook" /\ p.rollbackTo # NoVersion
                      /\ q.payload.kind = "playbook")
                     => q.payload.rollbackTo # p.rollbackTo
            BY <3>1 DEF Written, Calibrated, Restored, NotPending
        <3> QED BY <2>1, <3>1, <3>2, StackFiled
    <2> QED BY <2>1, <2>2, <2>3, <2>4, Filings
<1> QED BY <1>1, <1>2, JobInvariant, BookInvariant, PTL DEF Spec

------------------------------------------------------------------------------
(* No oscillation *)

\* Rules that have been rolled back from were in force; neither those in force now nor
\* those a rollback would restore are among them.
Kept ==
    LET n == Len(playbooks) IN
    /\ \A v \in abandoned : \E j \in 1 .. n : v = playbooks[j].version
    /\ n > 0 => playbooks[n].rules \notin abandoned
    /\ n > 1 /\ ~playbooks[n].version.rollback => playbooks[n - 1].rules \notin abandoned

\* Rules are named by a version that was in force.
LEMMA RulesOf ==
    ASSUME Chain, NEW k \in 1 .. Len(playbooks)
    PROVE  \E j \in 1 .. k : playbooks[k].rules = playbooks[j].version
<1>1. CASE playbooks[k].version.rollback
    <2>1. PICK j \in 1 .. k - 1 : playbooks[k].rules = playbooks[j].version
        BY <1>1 DEF Chain
    <2>2. j \in 1 .. k
        OBVIOUS
    <2> QED BY <2>1, <2>2
<1>2. CASE ~playbooks[k].version.rollback
    <2>1. playbooks[k].rules = playbooks[k].version /\ k \in 1 .. k
        BY <1>2 DEF Chain
    <2> QED BY <2>1
<1> QED BY <1>1, <1>2

LEMMA KeptStep == JobInv /\ BookInv /\ Kept /\ [Next]_vars => Kept'
<1> SUFFICES ASSUME JobInv, BookInv, Kept, [Next]_vars PROVE Kept'
    OBVIOUS
<1>1. proposals \in Seq(ProposalRow) /\ Chain /\ Offers
    BY DEF BookInv
<1>2. CASE UNCHANGED <<playbooks, abandoned>>
    BY <1>2 DEF Kept
<1>3. ASSUME NEW i \in DOMAIN proposals, Approve(i), proposals[i].payload.kind = "playbook"
      PROVE  Kept'
    <2> DEFINE p == proposals[i].payload
               n == Len(playbooks)
    <2>1. /\ i \in PlaybookRows /\ Sound(p)
          /\ n \in Nat /\ Len(playbooks') = n + 1 /\ Chain'
          /\ \A j \in 1 .. n : /\ playbooks'[j].version = playbooks[j].version
                               /\ playbooks'[j].rules = playbooks[j].rules
                               /\ playbooks[j].version # p.version
          /\ playbooks'[n + 1].version = p.version /\ playbooks'[n + 1].rules = p.rules
        BY <1>1, <1>3, Approving
    <2>2. /\ \A j \in 1 .. n : j \in 1 .. n + 1
          /\ (n + 1) - 1 = n /\ (n + 1 > 1 => n > 0) /\ (n > 0 => n \in 1 .. n)
        BY <2>1
    <2>3. abandoned' = IF p.rollbackTo = NoVersion THEN abandoned
                       ELSE (abandoned \ {p.rules}) \cup {Playbook(p.parent).rules}
        BY <1>3 DEF Approve
    <2>4. CASE p.rollbackTo = NoVersion
        <3>1. p.rules = p.version /\ ~p.version.rollback
            BY <2>1, <2>4 DEF Sound
        <3> HIDE DEF p
        <3>2. abandoned' = abandoned
            BY <2>3, <2>4
        <3>3. \A v \in abandoned : \E j \in 1 .. n + 1 : v = playbooks'[j].version
            BY <2>1, <2>2 DEF Kept
        <3>4. p.rules \notin abandoned
            BY <2>1, <3>1 DEF Kept
        <3>5. n > 0 => playbooks'[n].rules \notin abandoned
            BY <2>1, <2>2 DEF Kept
        <3> QED BY <2>1, <2>2, <3>2, <3>3, <3>4, <3>5 DEF Kept
    <2>5. CASE p.rollbackTo # NoVersion
        <3>1. PICK k \in 2 .. n : /\ p.parent = playbooks[k].version
                                  /\ ~playbooks[k].version.rollback
                                  /\ p.rules = playbooks[k - 1].rules
            BY <2>1, <2>5 DEF Sound
        <3>2. p.version.rollback
            BY <2>1, <2>5 DEF Sound
        <3>3. k \in 1 .. n /\ k - 1 \in 1 .. n
            BY <2>1
        <3>4. Playbook(p.parent) = playbooks[k]
            BY <1>1, <3>1, <3>3, InForce
        <3>5. playbooks[k].rules = playbooks[k].version
            BY <1>1, <3>1, <3>3 DEF Chain
        <3>6. PICK j \in 1 .. k - 1 : playbooks[k - 1].rules = playbooks[j].version
            BY <1>1, <3>3, RulesOf
        <3>7. j \in 1 .. n /\ j # k
            BY <2>1
        <3>8. p.rules # playbooks[k].version
            BY <1>1, <3>1, <3>3, <3>6, <3>7 DEF Chain
        <3> HIDE DEF p
        <3>9. abandoned' = (abandoned \ {p.rules}) \cup {playbooks[k].version}
            BY <2>3, <2>5, <3>4, <3>5
        <3>10. p.rules \notin abandoned'
            BY <3>8, <3>9
        <3>11. ASSUME NEW v \in abandoned' PROVE \E l \in 1 .. n + 1 : v = playbooks'[l].version
            <4>1. CASE v = playbooks[k].version
                BY <2>1, <2>2, <3>3, <4>1
            <4>2. CASE v \in abandoned
                BY <2>1, <2>2, <4>2 DEF Kept
            <4> QED BY <3>9, <4>1, <4>2
        <3> QED BY <2>1, <2>2, <3>2, <3>10, <3>11 DEF Kept
    <2> QED BY <2>4, <2>5
<1>4. CASE ~(UNCHANGED <<playbooks, abandoned>>)
    <2>1. PICK i \in DOMAIN proposals : Approve(i)
        BY <1>4, GoesOn DEF Next, vars, store, Tick, Run, Consult, ConsultFails, FileRules, Calibrate,
                    ProposeRollback, Critique, Reject, Crash
    <2>2. proposals[i].payload.kind = "playbook"
        BY <1>4, <2>1 DEF Approve
    <2> QED BY <1>3, <2>1, <2>2
<1> QED BY <1>2, <1>4

\* A rollback that is proposed (playbook_rollback.py:22-65) never restores rules that an
\* operator rolled back from and has not restored since.
THEOREM NeverWalksBack == Spec => NoWalkBack
<1> DEFINE A == \A i \in DOMAIN proposals' \ DOMAIN proposals :
                   LET p == proposals'[i].payload IN
                   p.kind = "playbook" /\ p.rollbackTo # NoVersion => p.rules \notin abandoned
<1>1. JobInv /\ BookInv /\ Kept /\ [Next]_vars => [A]_vars
    <2> SUFFICES ASSUME JobInv, BookInv, Kept, [Next]_vars PROVE A
        OBVIOUS
    <2>1. proposals \in Seq(ProposalRow) /\ now \in Int
        BY DEF BookInv, JobInv
    <2>2. CASE DOMAIN proposals' = DOMAIN proposals
        BY <2>2
    <2>3. CASE \E i \in DOMAIN proposals : Reject(i) \/ Approve(i)
        <3>1. PICK i \in DOMAIN proposals, s \in {"approved", "rejected"} :
                  proposals' = [proposals EXCEPT ![i].status = s]
            BY <2>3 DEF Reject, Approve
        <3> QED BY <2>2, <3>1
    <2>4. CASE \E p \in Payload : File(p) /\ (Written(p) \/ Calibrated(p) \/ Restored(p))
        <3>1. PICK p \in Payload : File(p) /\ (Written(p) \/ Calibrated(p) \/ Restored(p))
            BY <2>4
        <3> DEFINE m == Len(proposals)
        <3>2. /\ proposals' \in Seq(ProposalRow) /\ m \in Nat /\ Len(proposals') = m + 1
              /\ proposals'[m + 1].payload = p
            BY <2>1, <3>1, Filing
        <3>3. \A i \in DOMAIN proposals' \ DOMAIN proposals : i = m + 1
            <4>1. DOMAIN proposals' = 1 .. m + 1 /\ DOMAIN proposals = 1 .. m
                BY <2>1, <3>2
            <4>2. \A i \in 1 .. m + 1 : i \in 1 .. m \/ i = m + 1
                BY <3>2
            <4> QED BY <4>1, <4>2
        <3>4. p.kind = "playbook" /\ p.rollbackTo # NoVersion => p.rules \notin abandoned
            BY <3>1 DEF Written, Calibrated, Restored, Kept
        <3> QED BY <3>2, <3>3, <3>4
    <2> QED BY <2>1, <2>2, <2>3, <2>4, Filings
<1>2. Init => Kept
    <2> SUFFICES ASSUME Init PROVE Kept
        OBVIOUS
    <2> QED BY DEF Init, Kept
<1> QED BY <1>1, <1>2, KeptStep, JobInvariant, BookInvariant, PTL DEF Spec, NoWalkBack

------------------------------------------------------------------------------
(* The reflections and the trades they were about *)

PeriodicRows == {i \in DOMAIN reflections : reflections[i].kind = "periodic"}
\* The periodic reflections that were about an outcome.
Batches(o) == {r \in Periodic : o.id \in r.trades}

\* The periodic reflections end at ever later times; the outcomes are numbered.
LedgerInv ==
    /\ reflections \in Seq(ReflectionRow) /\ 1 \in PeriodicRows
    /\ \A i \in PeriodicRows : reflections[i].to \in 0 .. now
    /\ \A i, j \in PeriodicRows : i < j => reflections[i].to < reflections[j].to
    /\ job.step \in {"run", "consult"} => \A i \in PeriodicRows : reflections[i].to < now
    /\ job.step = "consult" => job.since \in Int
    /\ IsFiniteSet(outcomes)
    /\ \A o \in outcomes : o.id \in 1 .. Cardinality(outcomes) /\ o.at \in Int /\ o.at <= now
    /\ \A o, p \in outcomes : o.id = p.id => o = p

\* Each outcome behind the watermark was in one batch, and none ahead of it in any.
BatchInv ==
    /\ \A r \in Periodic : r.trades \subseteq 1 .. Cardinality(outcomes)
    /\ \A o \in outcomes :
          /\ o.at <= Watermark => \E r \in Periodic : Batches(o) = {r}
          /\ ~(o.at <= Watermark) => Batches(o) = {}
    /\ job.step = "consult" => job.batch = {o.id : o \in Fresh}

\* One row more.
LEMMA Reflected ==
    ASSUME reflections \in Seq(ReflectionRow), NEW row \in ReflectionRow,
           reflections' = Append(reflections, row)
    PROVE  LET m == Len(reflections) IN
           /\ reflections' \in Seq(ReflectionRow)
           /\ m \in Nat /\ Len(reflections') = m + 1
           /\ \A i \in 1 .. m : reflections'[i] = reflections[i]
           /\ reflections'[m + 1] = row
           /\ IF row.kind = "periodic"
              THEN PeriodicRows' = PeriodicRows \cup {m + 1} /\ Periodic' = Periodic \cup {row}
              ELSE PeriodicRows' = PeriodicRows /\ Periodic' = Periodic
<1> DEFINE m == Len(reflections)
<1>1. /\ reflections' \in Seq(ReflectionRow)
      /\ m \in Nat /\ Len(reflections') = m + 1
      /\ \A i \in 1 .. m : reflections'[i] = reflections[i]
      /\ reflections'[m + 1] = row
    OBVIOUS
<1>2. DOMAIN reflections = 1 .. m /\ DOMAIN reflections' = 1 .. m + 1
    BY <1>1
<1>3. \A i : i \in 1 .. m + 1 <=> i \in 1 .. m \/ i = m + 1
    BY <1>1
<1>4. m + 1 \notin 1 .. m
    BY <1>1
<1>5. Periodic = {reflections[i] : i \in PeriodicRows}
    BY DEF Periodic, PeriodicRows
<1>6. Periodic' = {reflections'[i] : i \in PeriodicRows'}
    BY DEF Periodic, PeriodicRows
<1>7. PeriodicRows \subseteq 1 .. m
    BY <1>2 DEF PeriodicRows
<1> HIDE DEF m
<1>8. CASE row.kind = "periodic"
    <2>1. PeriodicRows' = PeriodicRows \cup {m + 1}
        BY <1>1, <1>2, <1>3, <1>8 DEF PeriodicRows
    <2>2. Periodic' = Periodic \cup {row}
        BY <1>1, <1>5, <1>6, <1>7, <2>1
    <2> QED BY <1>1, <1>8, <2>1, <2>2 DEF m
<1>9. CASE row.kind # "periodic"
    <2>1. PeriodicRows' = PeriodicRows
        BY <1>1, <1>2, <1>3, <1>4, <1>9 DEF PeriodicRows
    <2>2. Periodic' = Periodic
        BY <1>1, <1>5, <1>6, <1>7, <2>1
    <2> QED BY <1>1, <1>9, <2>1, <2>2 DEF m
<1> QED BY <1>8, <1>9

\* The watermark is where the last of them ended.
LEMMA Mark ==
    reflections \in Seq(ReflectionRow) /\ 1 \in PeriodicRows
    => \E w \in PeriodicRows : /\ \A j \in PeriodicRows : j <= w
                               /\ Watermark = reflections[w].to
<1> SUFFICES ASSUME reflections \in Seq(ReflectionRow), 1 \in PeriodicRows
             PROVE  \E w \in PeriodicRows : /\ \A j \in PeriodicRows : j <= w
                                            /\ Watermark = reflections[w].to
    OBVIOUS
<1> DEFINE m == Len(reflections)
           T == {m - i : i \in PeriodicRows}
<1>1. m \in Nat /\ PeriodicRows \subseteq 1 .. m
    BY DEF PeriodicRows
<1> HIDE DEF m
<1>2. T \subseteq Nat /\ T # {}
    BY <1>1
<1>3. PICK k \in T : \A y \in T : <<y, k>> \notin OpToRel(<, Nat)
    <2> HIDE DEF T
    <2> QED BY <1>2, NatLessThanWellFounded, WFMin
<1>4. PICK w \in PeriodicRows : k = m - w
    OBVIOUS
<1>5. ASSUME NEW j \in PeriodicRows PROVE j <= w
    <2>1. <<m - j, k>> \notin OpToRel(<, Nat) /\ m - j \in Nat /\ k \in Nat
        BY <1>2, <1>3
    <2>2. ~(m - j < k)
        BY <2>1, Zenon DEF OpToRel
    <2>3. j \in Int /\ w \in Int
        BY <1>1
    <2> QED BY <1>1, <1>4, <2>2, <2>3
<1>6. Watermark = reflections[CHOOSE i \in PeriodicRows : \A j \in PeriodicRows : j <= i].to
    BY DEF Watermark, RowsOf, PeriodicRows
<1>7. ASSUME NEW v \in PeriodicRows, \A j \in PeriodicRows : j <= v PROVE v = w
    BY <1>1, <1>5, <1>7
<1>8. (CHOOSE i \in PeriodicRows : \A j \in PeriodicRows : j <= i) = w
    BY <1>5, <1>7
<1> QED BY <1>5, <1>6, <1>8

\* No periodic reflection ended after the watermark.
LEMMA MarkBounds ==
    ASSUME LedgerInv
    PROVE  /\ Watermark \in 0 .. now
           /\ job.step \in {"run", "consult"} => Watermark < now
<1>1. PICK w \in PeriodicRows : /\ \A j \in PeriodicRows : j <= w
                                /\ Watermark = reflections[w].to
    BY Mark DEF LedgerInv
<1> QED BY <1>1 DEF LedgerInv

LEMMA MarkNext ==
    (reflections \in Seq(ReflectionRow) /\ 1 \in PeriodicRows
     => \E w \in PeriodicRows : /\ \A j \in PeriodicRows : j <= w
                                /\ Watermark = reflections[w].to)'
    BY Mark, PTL

\* A periodic reflection that ends now moves the watermark to now, a critique does not.
LEMMA MarkMoves ==
    ASSUME LedgerInv, NEW row \in ReflectionRow, reflections' = Append(reflections, row)
    PROVE  Watermark' = IF row.kind = "periodic" THEN row.to ELSE Watermark
<1> DEFINE m == Len(reflections)
<1>1. /\ reflections \in Seq(ReflectionRow) /\ 1 \in PeriodicRows
      /\ PeriodicRows \subseteq 1 .. m
    BY DEF LedgerInv, PeriodicRows
<1>2. /\ reflections' \in Seq(ReflectionRow)
      /\ m \in Nat
      /\ \A i \in 1 .. m : reflections'[i] = reflections[i]
      /\ reflections'[m + 1] = row
      /\ IF row.kind = "periodic" THEN PeriodicRows' = PeriodicRows \cup {m + 1}
                                  ELSE PeriodicRows' = PeriodicRows
    BY <1>1, Reflected
<1>3. PICK w \in PeriodicRows : /\ \A j \in PeriodicRows : j <= w
                                /\ Watermark = reflections[w].to
    BY <1>1, Mark
<1>4. (\E u \in PeriodicRows : /\ \A j \in PeriodicRows : j <= u
                               /\ Watermark = reflections[u].to)'
    <2>1. (reflections \in Seq(ReflectionRow) /\ 1 \in PeriodicRows)'
        BY <1>1, <1>2
    <2> QED BY <2>1, MarkNext
<1>5. PICK u \in PeriodicRows' : /\ \A j \in PeriodicRows' : j <= u
                                 /\ Watermark' = reflections'[u].to
    BY <1>4
<1> HIDE DEF m
<1>6. CASE row.kind = "periodic"
    <2>1. m + 1 \in PeriodicRows'
        BY <1>2, <1>6
    <2>2. m + 1 <= u /\ (u \in 1 .. m \/ u = m + 1)
        BY <1>1, <1>2, <1>5, <1>6, <2>1
    <2>3. u = m + 1
        BY <1>2, <2>2
    <2> QED BY <1>2, <1>5, <1>6, <2>3
<1>7. CASE row.kind # "periodic"
    <2>1. u \in PeriodicRows /\ PeriodicRows' = PeriodicRows
        BY <1>2, <1>7
    <2>2. w <= u /\ u <= w /\ u \in 1 .. m /\ w \in 1 .. m
        BY <1>1, <1>3, <1>5, <2>1
    <2>3. u = w
        BY <1>2, <2>2
    <2> QED BY <1>1, <1>2, <1>3, <1>5, <1>7, <2>3
<1> QED BY <1>6, <1>7

LEMMA MarkStays ==
    UNCHANGED reflections
    => PeriodicRows' = PeriodicRows /\ Periodic' = Periodic /\ Watermark' = Watermark
<1> SUFFICES ASSUME UNCHANGED reflections
             PROVE  PeriodicRows' = PeriodicRows /\ Periodic' = Periodic /\ Watermark' = Watermark
    OBVIOUS
<1>1. PeriodicRows' = PeriodicRows /\ Periodic' = Periodic
    BY DEF PeriodicRows, Periodic
<1>2. Watermark = reflections[CHOOSE i \in PeriodicRows : \A j \in PeriodicRows : j <= i].to
    BY DEF Watermark, RowsOf, PeriodicRows
<1>3. Watermark' = reflections'[CHOOSE i \in PeriodicRows' : \A j \in PeriodicRows' : j <= i].to
    BY DEF Watermark, RowsOf, PeriodicRows
<1> QED BY <1>1, <1>2, <1>3

\* The ledger as it was, and no job that starts a consult.
LEMMA LedgerStays ==
    ASSUME LedgerInv, BatchInv, UNCHANGED <<now, outcomes, reflections>>,
           job'.step \in {"run", "consult"} => UNCHANGED job
    PROVE  LedgerInv' /\ BatchInv'
<1>1. PeriodicRows' = PeriodicRows /\ Periodic' = Periodic /\ Watermark' = Watermark
    BY MarkStays
<1>2. \A o : Batches(o)' = Batches(o)
    BY <1>1 DEF Batches
<1>3. Fresh' = Fresh
    BY <1>1 DEF Fresh
<1>4. LedgerInv'
    BY <1>1 DEF LedgerInv
<1>5. BatchInv'
    BY <1>1, <1>2, <1>3 DEF BatchInv
<1> QED BY <1>4, <1>5

\* A trade is realized.
LEMMA OutcomeAdded ==
    ASSUME LedgerInv, BatchInv, NEW o, outcomes' = outcomes \cup {o},
           o.id = Cardinality(outcomes) + 1, o.at = now + 1
    PROVE  LET c == Cardinality(outcomes) IN
           /\ c \in Nat /\ o \notin outcomes
           /\ IsFiniteSet(outcomes') /\ Cardinality(outcomes') = c + 1
           /\ \A p \in outcomes : p.id # o.id
           /\ Batches(o) = {}
<1> DEFINE c == Cardinality(outcomes)
<1>1. c \in Nat
    BY FS_CardinalityType DEF LedgerInv
<1>2. \A p \in outcomes : p.id # o.id
    BY <1>1 DEF LedgerInv
<1>3. o \notin outcomes
    BY <1>2
<1>4. IsFiniteSet(outcomes') /\ Cardinality(outcomes') = c + 1
    BY <1>3, FS_AddElement DEF LedgerInv
<1>5. c + 1 \notin 1 .. c
    BY <1>1
<1>6. Batches(o) = {}
    BY <1>5 DEF Batches, BatchInv
<1> QED BY <1>1, <1>2, <1>3, <1>4, <1>6

LEMMA TickLedger ==
    ASSUME JobInv, LedgerInv, BatchInv, Tick
    PROVE  LedgerInv' /\ BatchInv'
<1>1. now' = now + 1 /\ job' = [step |-> "run"] /\ UNCHANGED reflections /\ now \in Nat
    BY DEF Tick, JobInv
<1>2. job'.step = "run"
    BY <1>1
<1>3. PeriodicRows' = PeriodicRows /\ Periodic' = Periodic /\ Watermark' = Watermark
    BY <1>1, MarkStays
<1>4. \A o : Batches(o)' = Batches(o)
    BY <1>3 DEF Batches
<1>5. /\ reflections' \in Seq(ReflectionRow) /\ 1 \in PeriodicRows'
      /\ \A i \in PeriodicRows' : reflections'[i].to \in 0 .. now' /\ reflections'[i].to < now'
      /\ \A i, j \in PeriodicRows' : i < j => reflections'[i].to < reflections'[j].to
    BY <1>1, <1>3 DEF LedgerInv
<1>6. Watermark \in 0 .. now
    BY MarkBounds
<1>7. CASE UNCHANGED outcomes
    <2>1. \A o \in outcomes : o.at <= now'
        BY <1>1 DEF LedgerInv
    <2>2. LedgerInv'
        BY <1>2, <1>5, <1>7, <2>1 DEF LedgerInv
    <2>3. BatchInv'
        BY <1>2, <1>3, <1>4, <1>7 DEF BatchInv
    <2> QED BY <2>2, <2>3
<1>8. CASE ~(UNCHANGED outcomes)
    <2>1. PICK o : /\ outcomes' = outcomes \cup {o}
                   /\ o.id = Cardinality(outcomes) + 1 /\ o.at = now + 1
        BY <1>8 DEF Tick
    <2> DEFINE c == Cardinality(outcomes)
    <2>2. /\ c \in Nat /\ IsFiniteSet(outcomes') /\ Cardinality(outcomes') = c + 1
          /\ \A p \in outcomes : p.id # o.id
          /\ Batches(o) = {}
        BY <2>1, OutcomeAdded
    <2>3. \A i \in 1 .. c : i \in 1 .. c + 1
        BY <2>2
    <2>4. ASSUME NEW p \in outcomes'
          PROVE  p.id \in 1 .. c + 1 /\ p.at \in Int /\ p.at <= now'
        <3>1. CASE p \in outcomes
            <4>1. p.id \in 1 .. c /\ p.at \in Int /\ p.at <= now
                BY <3>1 DEF LedgerInv
            <4> QED BY <1>1, <2>3, <4>1
        <3>2. CASE p = o
            BY <1>1, <2>1, <2>2, <3>2
        <3> QED BY <2>1, <3>1, <3>2
    <2>5. \A p, q \in outcomes' : p.id = q.id => p = q
        BY <2>1, <2>2 DEF LedgerInv
    <2>6. LedgerInv'
        BY <1>2, <1>5, <2>2, <2>4, <2>5 DEF LedgerInv
    <2>7. \A r \in Periodic : r.trades \subseteq 1 .. c + 1
        BY <2>3 DEF BatchInv
    <2>8. ~(o.at <= Watermark)
        BY <1>1, <1>6, <2>1
    <2>9. ASSUME NEW p \in outcomes'
          PROVE  /\ p.at <= Watermark => \E r \in Periodic : Batches(p) = {r}
                 /\ ~(p.at <= Watermark) => Batches(p) = {}
        <3>1. CASE p \in outcomes
            BY <3>1 DEF BatchInv
        <3>2. CASE p = o
            BY <2>2, <2>8, <3>2
        <3> QED BY <2>1, <3>1, <3>2
    <2>10. BatchInv'
        BY <1>2, <1>3, <1>4, <2>2, <2>7, <2>9 DEF BatchInv
    <2> QED BY <2>6, <2>10
<1> QED BY <1>7, <1>8

LEMMA RunLedger ==
    ASSUME LedgerInv, BatchInv, Run
    PROVE  LedgerInv' /\ BatchInv'
<1>1. UNCHANGED <<now, outcomes, reflections>> /\ job.step = "run"
    BY DEF Run, store
<1>2. CASE job'.step # "consult"
    <2>1. job'.step \in {"idle", "calibrate"}
        BY <1>2 DEF Run, Idle
    <2> QED BY <1>1, <2>1, LedgerStays
<1>3. CASE job'.step = "consult"
    <2>1. job'.since = Watermark /\ job'.batch = {o.id : o \in Fresh}
        BY <1>3 DEF Run, Idle
    <2>2. Watermark \in Int
        BY MarkBounds
    <2>3. PeriodicRows' = PeriodicRows /\ Periodic' = Periodic /\ Watermark' = Watermark
        BY <1>1, MarkStays
    <2>4. Fresh' = Fresh /\ \A o : Batches(o)' = Batches(o)
        BY <1>1, <2>3 DEF Fresh, Batches
    <2>5. LedgerInv'
        BY <1>1, <2>1, <2>2, <2>3 DEF LedgerInv
    <2>6. BatchInv'
        BY <1>1, <2>1, <2>3, <2>4 DEF BatchInv
    <2> QED BY <2>5, <2>6
<1> QED BY <1>2, <1>3

\* The row a consult records.
LEMMA Consulted ==
    ASSUME JobInv, LedgerInv, BatchInv, Consult
    PROVE  \E row \in ReflectionRow :
              /\ row.kind = "periodic" /\ row.to = now /\ row.trades = job.batch
              /\ row.version \in {NoVersion, [rollback |-> FALSE, at |-> now]}
              /\ reflections' = Append(reflections, row)
              /\ job' = IF row.version = NoVersion THEN [step |-> "calibrate"]
                        ELSE [step |-> "file", version |-> row.version, parent |-> job.current]
<1>1. /\ job.step = "consult" /\ now \in Int
      /\ job.since \in Int /\ job.batch = {o.id : o \in Fresh}
    BY DEF Consult, JobInv, LedgerInv, BatchInv
<1>2. PICK v \in {NoVersion, [rollback |-> FALSE, at |-> now]} :
          /\ reflections' = Append(reflections,
                [kind |-> "periodic", from |-> job.since, to |-> now,
                 trades |-> job.batch, version |-> v])
          /\ job' = IF v = NoVersion THEN [step |-> "calibrate"]
                    ELSE [step |-> "file", version |-> v, parent |-> job.current]
    BY DEF Consult
<1>3. PICK row : row = [kind |-> "periodic", from |-> job.since, to |-> now,
                        trades |-> job.batch, version |-> v]
    OBVIOUS
<1>4. job.batch \subseteq Nat
    <2>1. \A o \in outcomes : o.id \in Nat
        BY DEF LedgerInv
    <2> QED BY <1>1, <2>1 DEF Fresh
<1>5. v \in VersionType
    <2>1. NoVersion \in VersionType /\ [rollback |-> FALSE, at |-> now] \in VersionType
        BY <1>1, VersionAt
    <2> QED BY <2>1
<1>6. row \in ReflectionRow
    BY <1>1, <1>3, <1>4, <1>5 DEF ReflectionRow
<1>7. /\ row.kind = "periodic" /\ row.to = now /\ row.trades = job.batch
      /\ row.version = v
    BY <1>3
<1>8. reflections' = Append(reflections, row)
    BY <1>2, <1>3
<1> QED BY <1>2, <1>6, <1>7, <1>8

LEMMA ConsultLedger ==
    ASSUME JobInv, LedgerInv, BatchInv, Consult
    PROVE  LedgerInv' /\ BatchInv'
<1> DEFINE m == Len(reflections)
<1>1. /\ job.step = "consult" /\ UNCHANGED <<now, outcomes>>
      /\ now \in Nat /\ job.batch = {o.id : o \in Fresh}
    BY DEF Consult, JobInv, BatchInv
<1>2. PICK row \in ReflectionRow :
          /\ row.kind = "periodic" /\ row.to = now /\ row.trades = job.batch
          /\ reflections' = Append(reflections, row)
          /\ job' = IF row.version = NoVersion THEN [step |-> "calibrate"]
                    ELSE [step |-> "file", version |-> row.version, parent |-> job.current]
    BY Consulted
<1>3. job.batch \subseteq 1 .. Cardinality(outcomes)
    BY <1>1 DEF Fresh, LedgerInv
<1>4. /\ reflections' \in Seq(ReflectionRow) /\ m \in Nat
      /\ \A i \in 1 .. m : reflections'[i] = reflections[i]
      /\ reflections'[m + 1] = row
      /\ PeriodicRows' = PeriodicRows \cup {m + 1} /\ Periodic' = Periodic \cup {row}
      /\ Watermark' = now
    BY <1>2, Reflected, MarkMoves DEF LedgerInv
<1>5. PeriodicRows \subseteq 1 .. m
    BY DEF PeriodicRows, LedgerInv
<1>6. job'.step \in {"calibrate", "file"}
    BY <1>2
<1> HIDE DEF m
<1>7. LedgerInv'
    <2>1. \A i \in PeriodicRows : /\ reflections'[i] = reflections[i]
                                  /\ i < m + 1 /\ i \in Int
                                  /\ reflections[i].to \in 0 .. now /\ reflections[i].to < now
        <3> SUFFICES ASSUME NEW i \in PeriodicRows
                     PROVE  /\ reflections'[i] = reflections[i]
                            /\ i < m + 1 /\ i \in Int
                            /\ reflections[i].to \in 0 .. now /\ reflections[i].to < now
            OBVIOUS
        <3>1. reflections[i].to \in 0 .. now /\ reflections[i].to < now
            BY <1>1 DEF LedgerInv
        <3>2. i \in 1 .. m
            BY <1>5
        <3> QED BY <1>4, <3>1, <3>2
    <2>2. \A i \in PeriodicRows' : reflections'[i].to \in 0 .. now
        <3>1. row.to \in 0 .. now
            BY <1>1, <1>2
        <3> QED BY <1>4, <2>1, <3>1
    <2>3. ASSUME NEW i \in PeriodicRows', NEW j \in PeriodicRows', i < j
          PROVE  reflections'[i].to < reflections'[j].to
        <3>1. CASE i \in PeriodicRows /\ j \in PeriodicRows
            BY <2>1, <2>3, <3>1 DEF LedgerInv
        <3>2. CASE i \in PeriodicRows /\ j = m + 1
            BY <1>2, <1>4, <2>1, <3>2
        <3>3. CASE i = m + 1
            <4>1. ~(i < j)
                BY <1>4, <2>1, <3>3
            <4> QED BY <2>3, <4>1
        <3> QED BY <1>4, <3>1, <3>2, <3>3
    <2>4. 1 \in PeriodicRows'
        BY <1>4 DEF LedgerInv
    <2> QED BY <1>1, <1>4, <1>6, <2>2, <2>3, <2>4 DEF LedgerInv
<1>8. BatchInv'
    <2>1. \A r \in Periodic' : r.trades \subseteq 1 .. Cardinality(outcomes')
        BY <1>1, <1>3, <1>2, <1>4 DEF BatchInv
    <2>2. ASSUME NEW o \in outcomes
          PROVE  o.at <= Watermark' /\ \E r \in Periodic' : Batches(o)' = {r}
        <3>1. o.at \in Int /\ o.at <= now /\ Watermark \in Int
            BY MarkBounds DEF LedgerInv
        <3>2. Batches(o)' = Batches(o) \cup (IF o.id \in job.batch THEN {row} ELSE {})
            BY <1>2, <1>4 DEF Batches
        <3>3. o.id \in job.batch <=> ~(o.at <= Watermark)
            <4>1. o.id \in job.batch <=> \E p \in Fresh : p.id = o.id
                BY <1>1
            <4>2. \A p \in Fresh : p \in outcomes /\ p.at > Watermark
                BY DEF Fresh
            <4>3. \A p \in outcomes : p.id = o.id => p = o
                BY DEF LedgerInv
            <4>4. o \in Fresh <=> ~(o.at <= Watermark)
                BY <3>1 DEF Fresh
            <4> QED BY <4>1, <4>2, <4>3, <4>4
        <3>4. CASE o.at <= Watermark
            <4>1. PICK r \in Periodic : Batches(o) = {r}
                BY <3>4 DEF BatchInv
            <4> QED BY <1>4, <3>1, <3>2, <3>3, <3>4, <4>1
        <3>5. CASE ~(o.at <= Watermark)
            <4>1. Batches(o) = {}
                BY <3>5 DEF BatchInv
            <4> QED BY <1>4, <3>1, <3>2, <3>3, <3>5, <4>1
        <3> QED BY <3>4, <3>5
    <2> QED BY <1>1, <1>6, <2>1, <2>2 DEF BatchInv
<1> QED BY <1>7, <1>8

LEMMA CritiqueLedger ==
    ASSUME LedgerInv, BatchInv, NEW o \in outcomes, Critique(o)
    PROVE  LedgerInv' /\ BatchInv'
<1> DEFINE m == Len(reflections)
<1>1. PICK row : row = [kind |-> "per_trade", from |-> 0, to |-> o.at, trades |-> {o.id},
                        version |-> NoVersion]
    OBVIOUS
<1>2. /\ UNCHANGED <<now, outcomes, job>> /\ job = Idle
      /\ reflections' = Append(reflections, row)
    BY <1>1 DEF Critique
<1>3. o.at \in Int /\ {o.id} \subseteq Nat
    BY DEF LedgerInv
<1>4. row \in ReflectionRow /\ row.kind # "periodic"
    BY <1>1, <1>3, VersionAt DEF ReflectionRow
<1>5. /\ reflections' \in Seq(ReflectionRow) /\ m \in Nat
      /\ \A i \in 1 .. m : reflections'[i] = reflections[i]
      /\ PeriodicRows' = PeriodicRows /\ Periodic' = Periodic /\ Watermark' = Watermark
    BY <1>2, <1>4, Reflected, MarkMoves DEF LedgerInv
<1>6. PeriodicRows \subseteq 1 .. m
    BY DEF PeriodicRows, LedgerInv
<1>7. \A p : Batches(p)' = Batches(p)
    BY <1>5 DEF Batches
<1>8. job.step = "idle"
    BY <1>2 DEF Idle
<1> HIDE DEF m
<1>9. \A i \in PeriodicRows : reflections'[i] = reflections[i]
    BY <1>5, <1>6
<1>10. LedgerInv'
    BY <1>2, <1>5, <1>8, <1>9 DEF LedgerInv
<1>11. BatchInv'
    BY <1>2, <1>5, <1>7, <1>8 DEF BatchInv
<1> QED BY <1>10, <1>11

LEMMA LedgerStep == JobInv /\ LedgerInv /\ BatchInv /\ [Next]_vars => LedgerInv' /\ BatchInv'
<1> SUFFICES ASSUME JobInv, LedgerInv, BatchInv, [Next]_vars PROVE LedgerInv' /\ BatchInv'
    OBVIOUS
<1>1. CASE UNCHANGED vars
    BY <1>1, LedgerStays DEF vars, store
<1>2. CASE Tick
    BY <1>2, TickLedger
<1>3. CASE Run
    BY <1>3, RunLedger
<1>4. CASE Consult
    BY <1>4, ConsultLedger
<1>5. CASE \E o \in outcomes : Critique(o)
    BY <1>5, CritiqueLedger
<1>6. CASE ConsultFails \/ FileRules \/ Calibrate \/ ProposeRollback \/ Crash \/ Refused
    <2>1. UNCHANGED <<now, outcomes, reflections>>
        BY <1>6, GoesOn DEF ConsultFails, FileRules, Calibrate, ProposeRollback, Crash, store
    <2>2. job'.step \notin {"run", "consult"}
        BY <1>6, GoesOn DEF ConsultFails, FileRules, Calibrate, ProposeRollback, Crash, Idle
    <2> QED BY <2>1, <2>2, LedgerStays
<1>7. CASE \E i \in DOMAIN proposals : Reject(i) \/ Approve(i)
    <2>1. UNCHANGED <<now, outcomes, reflections, job>>
        BY <1>7 DEF Reject, Approve
    <2> QED BY <2>1, LedgerStays
<1> QED BY <1>1, <1>2, <1>3, <1>4, <1>5, <1>6, <1>7 DEF Next

LEMMA LedgerInvariant == Spec => [](LedgerInv /\ BatchInv)
<1>1. Init => LedgerInv /\ BatchInv
    <2> SUFFICES ASSUME Init PROVE LedgerInv /\ BatchInv
        OBVIOUS
    <2> DEFINE c == Cardinality(PastOutcomes)
    <2>1. /\ now = 0 /\ outcomes = PastOutcomes /\ job.step = "idle"
          /\ reflections = <<[kind |-> "periodic", from |-> 0, to |-> 0,
                              trades |-> {o.id : o \in PastOutcomes}, version |-> NoVersion]>>
        BY DEF Init, Idle
    <2>2. PICK row : row = [kind |-> "periodic", from |-> 0, to |-> 0,
                            trades |-> {o.id : o \in PastOutcomes}, version |-> NoVersion]
        OBVIOUS
    <2>3. /\ IsFiniteSet(PastOutcomes)
          /\ \A o \in PastOutcomes : o.id \in 1 .. c /\ o.id \in Nat /\ o.at \in Int /\ o.at <= 0
          /\ \A o, p \in PastOutcomes : o.id = p.id => o = p
        BY OutcomesAssumption
    <2>4. /\ row.kind = "periodic" /\ row.to = 0 /\ row.version = NoVersion
          /\ row.trades = {o.id : o \in PastOutcomes}
        BY <2>2
    <2>5. row \in ReflectionRow
        BY <2>2, <2>3, VersionAt DEF ReflectionRow
    <2>6. /\ reflections \in Seq(ReflectionRow) /\ Len(reflections) = 1
          /\ DOMAIN reflections = {1} /\ reflections[1] = row
        <3>1. reflections = <<row>>
            BY <2>1, <2>2
        <3> QED BY <2>5, <3>1
    <2>7. PeriodicRows = {1} /\ Periodic = {row}
        BY <2>4, <2>6 DEF PeriodicRows, Periodic
    <2>8. Watermark = 0
        BY <2>4, <2>6, <2>7, Mark
    <2>9. LedgerInv
        <3>1. reflections[1].to \in 0 .. now
            BY <2>1, <2>4, <2>6
        <3> QED BY <2>1, <2>3, <2>6, <2>7, <3>1 DEF LedgerInv
    <2>10. \A o \in outcomes : o.at <= Watermark /\ Batches(o) = {row}
        BY <2>1, <2>3, <2>4, <2>7, <2>8 DEF Batches
    <2>11. row.trades \subseteq 1 .. Cardinality(outcomes)
        BY <2>1, <2>3, <2>4
    <2>12. BatchInv
        BY <2>1, <2>7, <2>10, <2>11 DEF BatchInv
    <2> QED BY <2>9, <2>12
<1> QED BY <1>1, LedgerStep, JobInvariant, PTL DEF Spec

\* The watermark (reflection.py:54-56) and the embargo partition the trades, whatever calls
\* fail and however often the process restarts.
THEOREM TradesReflectedOnce == Spec => []ReflectedOnce
<1>1. LedgerInv /\ BatchInv => ReflectedOnce
    <2> SUFFICES ASSUME LedgerInv, BatchInv, NEW o \in outcomes
                 PROVE  Cardinality({r \in Periodic : o.id \in r.trades})
                        = IF o.at <= Watermark THEN 1 ELSE 0
        BY DEF ReflectedOnce
    <2>1. Batches(o) = {r \in Periodic : o.id \in r.trades}
        BY DEF Batches
    <2>2. CASE o.at <= Watermark
        <3>1. PICK r : Batches(o) = {r}
            BY <2>2 DEF BatchInv
        <3> QED BY <2>1, <2>2, <3>1, FS_Singleton
    <2>3. CASE ~(o.at <= Watermark)
        BY <2>1, <2>3, FS_EmptySet DEF BatchInv
    <2> QED BY <2>2, <2>3
<1> QED BY <1>1, LedgerInvariant, PTL

------------------------------------------------------------------------------
(* The rules that were written, and filed *)

\* Versions of the playbook proposals, and the reflections whose rules are not among them.
Filed == {proposals[i].payload.version : i \in PlaybookRows}
Unfiled == {r \in Periodic : r.version # NoVersion /\ r.version \notin Filed}

\* What has come between the two commits: the process died, or the ledger was busy.
Losses == crashes + refused

LEMMA LossesType == JobInv => Losses \in Int
    BY DEF JobInv, Losses

\* A reflection's rules are named by the time it ended; but for those about to be filed,
\* something has come between the two commits.
FiledInv ==
    /\ \A r \in Periodic : r.version = NoVersion \/ r.version = [rollback |-> FALSE, at |-> r.to]
    /\ IsFiniteSet(Unfiled)
    /\ job.step # "file" => Cardinality(Unfiled) <= Losses
    /\ job.step = "file" => Cardinality({r \in Unfiled : r.version # job.version}) <= Losses

\* What has been filed stays filed.
LEMMA FiledStays ==
    ASSUME JobInv, BookInv, [Next]_vars
    PROVE  /\ Filed \subseteq Filed'
           /\ FileRules => job.version \in Filed'
<1>1. proposals \in Seq(ProposalRow) /\ now \in Int
    BY DEF BookInv, JobInv
<1> DEFINE m == Len(proposals)
<1>2. ASSUME NEW p \in Payload, File(p)
      PROVE  Filed \subseteq Filed' /\ (p.kind = "playbook" => p.version \in Filed')
    <2>1. /\ proposals' \in Seq(ProposalRow) /\ m \in Nat /\ Len(proposals') = m + 1
          /\ \A i \in 1 .. m : proposals'[i] = proposals[i]
          /\ proposals'[m + 1].payload = p
        BY <1>1, <1>2, Filing
    <2>2. /\ DOMAIN proposals = 1 .. m /\ DOMAIN proposals' = 1 .. m + 1
          /\ \A i \in 1 .. m : i \in 1 .. m + 1
          /\ m + 1 \in 1 .. m + 1
        BY <1>1, <2>1
    <2>3. \A i \in PlaybookRows :
              i \in PlaybookRows' /\ proposals'[i].payload = proposals[i].payload
        BY <2>1, <2>2 DEF PlaybookRows
    <2>4. p.kind = "playbook" => m + 1 \in PlaybookRows'
        BY <2>1, <2>2 DEF PlaybookRows
    <2> QED BY <2>1, <2>3, <2>4 DEF Filed
<1>3. Filed \subseteq Filed'
    <2>1. CASE UNCHANGED proposals
        BY <2>1 DEF Filed, PlaybookRows
    <2>2. CASE \E i \in DOMAIN proposals : Reject(i) \/ Approve(i)
        <3>1. PICK i \in DOMAIN proposals, s \in {"approved", "rejected"} :
                  proposals' = [proposals EXCEPT ![i].status = s]
            BY <2>2 DEF Reject, Approve
        <3>2. i \in 1 .. m
            BY <1>1
        <3>3. /\ proposals' \in Seq(ProposalRow) /\ Len(proposals') = m
              /\ \A j \in 1 .. m : proposals'[j].payload = proposals[j].payload
            BY <1>1, <3>1, <3>2, Deciding
        <3>4. DOMAIN proposals = 1 .. m /\ DOMAIN proposals' = 1 .. m
            BY <1>1, <3>3
        <3> QED BY <3>3, <3>4 DEF Filed, PlaybookRows
    <2>3. CASE \E p \in Payload : File(p) /\ (Written(p) \/ Calibrated(p) \/ Restored(p))
        BY <1>2, <2>3
    <2> QED BY <1>1, <2>1, <2>2, <2>3, Filings
<1>4. ASSUME FileRules PROVE job.version \in Filed'
    <2>1. PICK p : p = [kind |-> "playbook", version |-> job.version, rules |-> job.version,
                        parent |-> job.parent, rollbackTo |-> NoVersion]
        OBVIOUS
    <2>2. job.step = "file" /\ File(p)
        BY <1>4, <2>1 DEF FileRules
    <2>3. job.parent \in VersionType /\ job.version = [rollback |-> FALSE, at |-> now]
        BY <2>2 DEF BookInv
    <2>4. job.version \in VersionType
        BY <1>1, <2>3, VersionAt
    <2>5. p \in Payload /\ p.kind = "playbook" /\ p.version = job.version
        BY <2>1, <2>3, <2>4, PlaybookPayload, VersionAt
    <2> QED BY <1>2, <2>2, <2>5
<1> QED BY <1>3, <1>4

\* A part of a finite set has no more elements.
LEMMA NoMore ==
    ASSUME NEW S, IsFiniteSet(S), NEW T, T \subseteq S, NEW c \in Int, Cardinality(S) <= c
    PROVE  IsFiniteSet(T) /\ Cardinality(T) <= c
<1>1. IsFiniteSet(T) /\ Cardinality(T) <= Cardinality(S)
    BY FS_Subset
<1>2. Cardinality(S) \in Nat /\ Cardinality(T) \in Nat
    BY <1>1, FS_CardinalityType
<1> QED BY <1>1, <1>2

\* The rules about to be filed are of one reflection.
LEMMA OneBehind ==
    ASSUME JobInv, LedgerInv, BookInv, FiledInv, job.step = "file"
    PROVE  Cardinality(Unfiled) <= Losses + 1
<1> DEFINE Rest == {r \in Unfiled : r.version # job.version}
<1>1. IsFiniteSet(Rest) /\ Cardinality(Rest) <= Losses /\ Losses \in Int
    BY FS_Subset, LossesType DEF FiledInv
<1>2. ASSUME NEW r \in Unfiled, NEW s \in Unfiled,
             r.version = job.version, s.version = job.version
      PROVE  r = s
    <2>1. /\ r.version = [rollback |-> FALSE, at |-> r.to]
          /\ s.version = [rollback |-> FALSE, at |-> s.to]
        BY DEF Unfiled, FiledInv
    <2>2. r.to = s.to
        BY <1>2, <2>1
    <2>3. PICK i \in PeriodicRows : r = reflections[i]
        BY DEF Unfiled, Periodic, PeriodicRows
    <2>4. PICK j \in PeriodicRows : s = reflections[j]
        BY DEF Unfiled, Periodic, PeriodicRows
    <2>5. i \in Int /\ j \in Int
        BY DEF PeriodicRows, LedgerInv
    <2>6. r.to \in 0 .. now /\ s.to \in 0 .. now
        BY <2>3, <2>4 DEF LedgerInv
    <2>7. ~(i < j) /\ ~(j < i)
        BY <2>2, <2>3, <2>4, <2>6 DEF LedgerInv
    <2> QED BY <2>3, <2>4, <2>5, <2>7
<1>3. CASE \E r \in Unfiled : r.version = job.version
    <2>1. PICK r \in Unfiled : r.version = job.version
        BY <1>3
    <2>2. Unfiled = Rest \cup {r} /\ r \notin Rest
        BY <1>2, <2>1
    <2>3. Cardinality(Unfiled) = Cardinality(Rest) + 1 /\ Cardinality(Rest) \in Nat
        BY <1>1, <2>2, FS_AddElement, FS_CardinalityType
    <2> HIDE DEF Rest
    <2> QED BY <1>1, <2>3
<1>4. CASE ~\E r \in Unfiled : r.version = job.version
    <2>1. Unfiled = Rest
        BY <1>4
    <2>2. Cardinality(Rest) \in Nat
        BY <1>1, FS_CardinalityType
    <2> HIDE DEF Rest
    <2> QED BY <1>1, <2>1, <2>2
<1> QED BY <1>3, <1>4

LEMMA FiledStep ==
    JobInv /\ LedgerInv /\ BatchInv /\ BookInv /\ FiledInv /\ [Next]_vars => FiledInv'
<1> SUFFICES ASSUME JobInv, LedgerInv, BatchInv, BookInv, FiledInv, [Next]_vars PROVE FiledInv'
    OBVIOUS
<1>1. Filed \subseteq Filed' /\ Losses \in Int
    BY FiledStays, LossesType
<1>2. job.step # "file" => IsFiniteSet(Unfiled) /\ Cardinality(Unfiled) <= Losses
    BY DEF FiledInv
\* No reflection with rules: nothing more is left to file.
<1>3. ASSUME Periodic' = Periodic, UNCHANGED Losses, job.step # "file", job'.step # "file"
      PROVE  FiledInv'
    <2>1. Unfiled' \subseteq Unfiled
        BY <1>1, <1>3 DEF Unfiled
    <2>2. IsFiniteSet(Unfiled') /\ Cardinality(Unfiled') <= Losses
        BY <1>1, <1>2, <1>3, <2>1, NoMore
    <2> QED BY <1>3, <2>2 DEF FiledInv
<1>4. ASSUME Periodic' = Periodic, UNCHANGED <<Losses, job>>
      PROVE  FiledInv'
    <2>1. Unfiled' \subseteq Unfiled
        BY <1>1, <1>4 DEF Unfiled
    <2>2. IsFiniteSet(Unfiled')
        BY <2>1, FS_Subset DEF FiledInv
    <2>3. CASE job.step = "file"
        <3> DEFINE Rest == {r \in Unfiled : r.version # job.version}
                   Next1 == {r \in Unfiled' : r.version # job.version}
        <3>1. IsFiniteSet(Rest) /\ Cardinality(Rest) <= Losses
            BY <2>3, FS_Subset DEF FiledInv
        <3>2. Next1 \subseteq Rest
            BY <2>1
        <3> HIDE DEF Rest
        <3>3. Cardinality(Next1) <= Losses
            BY <1>1, <3>1, <3>2, NoMore
        <3> QED BY <1>4, <2>2, <2>3, <3>3 DEF FiledInv
    <2>4. CASE job.step # "file"
        BY <1>3, <1>4, <2>4
    <2> QED BY <2>3, <2>4
<1>5. CASE Consult
    <2>1. PICK row \in ReflectionRow :
              /\ row.kind = "periodic" /\ row.to = now /\ row.trades = job.batch
              /\ row.version \in {NoVersion, [rollback |-> FALSE, at |-> now]}
              /\ reflections' = Append(reflections, row)
              /\ job' = IF row.version = NoVersion THEN [step |-> "calibrate"]
                        ELSE [step |-> "file", version |-> row.version, parent |-> job.current]
        BY <1>5, Consulted
    <2>2. Periodic' = Periodic \cup {row}
        BY <2>1, Reflected DEF LedgerInv
    <2>3. UNCHANGED Losses /\ job.step # "file"
        BY <1>5 DEF Consult, Losses
    <2>4. \A r \in Periodic' :
              r.version = NoVersion \/ r.version = [rollback |-> FALSE, at |-> r.to]
        BY <2>1, <2>2 DEF FiledInv
    <2>5. Unfiled' \subseteq Unfiled \cup {row}
        BY <1>1, <2>2 DEF Unfiled
    <2>6. IsFiniteSet(Unfiled')
        BY <1>2, <2>3, <2>5, FS_AddElement, FS_Subset
    <2>7. CASE row.version = NoVersion
        <3>1. Unfiled' \subseteq Unfiled
            BY <2>5, <2>7 DEF Unfiled
        <3>2. Cardinality(Unfiled') <= Losses
            BY <1>1, <1>2, <2>3, <3>1, NoMore
        <3>3. job'.step = "calibrate"
            BY <2>1, <2>7
        <3> QED BY <2>3, <2>4, <2>6, <3>2, <3>3 DEF FiledInv
    <2>8. CASE row.version # NoVersion
        <3>1. job'.step = "file" /\ job'.version = row.version
            BY <2>1, <2>8
        <3> DEFINE Next1 == {r \in Unfiled' : r.version # row.version}
        <3>2. Next1 \subseteq Unfiled
            BY <2>5
        <3>3. Cardinality(Next1) <= Losses
            BY <1>1, <1>2, <2>3, <3>2, NoMore
        <3> QED BY <2>3, <2>4, <2>6, <3>1, <3>3 DEF FiledInv
    <2> QED BY <2>7, <2>8
<1>6. CASE FileRules
    <2>1. job.step = "file" /\ job'.step = "calibrate" /\ UNCHANGED <<reflections, Losses>>
        BY <1>6 DEF FileRules, Losses
    <2>2. Periodic' = Periodic
        BY <2>1, MarkStays
    <2> DEFINE Rest == {r \in Unfiled : r.version # job.version}
    <2>3. IsFiniteSet(Rest) /\ Cardinality(Rest) <= Losses
        BY <2>1, FS_Subset DEF FiledInv
    <2>4. Unfiled' \subseteq Rest
        BY <1>1, <1>6, <2>2, FiledStays DEF Unfiled
    <2> HIDE DEF Rest
    <2>5. IsFiniteSet(Unfiled') /\ Cardinality(Unfiled') <= Losses
        BY <1>1, <2>3, <2>4, NoMore
    <2> QED BY <2>1, <2>2, <2>5 DEF FiledInv
<1>7. CASE Crash \/ (Refused /\ job.step = "file")
    <2>1. Losses' = Losses + 1 /\ job'.step # "file" /\ UNCHANGED <<reflections, proposals>>
        <3>1. CASE Crash
            BY <3>1 DEF Crash, store, Idle, Losses, JobInv
        <3>2. CASE Refused /\ job.step = "file"
            BY <3>2, GoesOn DEF Losses, JobInv
        <3> QED BY <1>7, <3>1, <3>2
    <2>2. Periodic' = Periodic /\ job'.step # "file"
        BY <2>1, MarkStays
    <2>3. Unfiled' = Unfiled
        BY <2>1, <2>2 DEF Unfiled, Filed, PlaybookRows
    <2>4. Cardinality(Unfiled) <= Losses + 1
        <3>1. CASE job.step = "file"
            BY <3>1, OneBehind
        <3>2. CASE job.step # "file"
            <4>1. Cardinality(Unfiled) \in Nat
                BY <1>2, <3>2, FS_CardinalityType
            <4> QED BY <1>1, <1>2, <3>2, <4>1
        <3> QED BY <3>1, <3>2
    <2> QED BY <2>1, <2>2, <2>3, <2>4 DEF FiledInv
<1>8. CASE \E o \in outcomes : Critique(o)
    <2>1. Periodic' = Periodic
        <3>1. PICK o \in outcomes : Critique(o)
            BY <1>8
        <3>2. PICK row : row = [kind |-> "per_trade", from |-> 0, to |-> o.at, trades |-> {o.id},
                                version |-> NoVersion]
            OBVIOUS
        <3>3. reflections' = Append(reflections, row)
            BY <3>1, <3>2 DEF Critique
        <3>4. row \in ReflectionRow /\ row.kind # "periodic"
            BY <3>2, VersionAt DEF ReflectionRow, LedgerInv
        <3> QED BY <3>3, <3>4, Reflected DEF LedgerInv
    <2>2. UNCHANGED <<Losses, job>>
        BY <1>8 DEF Critique, Losses
    <2> QED BY <1>4, <2>1, <2>2
<1>9. CASE UNCHANGED vars \/ \E i \in DOMAIN proposals : Reject(i) \/ Approve(i)
    <2>1. UNCHANGED <<reflections, Losses, job>>
        BY <1>9 DEF vars, store, Reject, Approve, Losses
    <2> QED BY <1>4, <2>1, MarkStays
<1>10. CASE Tick \/ Run \/ ConsultFails \/ Calibrate \/ ProposeRollback
             \/ (Refused /\ job.step # "file")
    <2>1. UNCHANGED <<reflections, crashes, refused>>
        <3>1. CASE Refused /\ job.step # "file"
            BY <3>1, GoesOn DEF JobInv
        <3> QED BY <1>10, <3>1 DEF Tick, Run, ConsultFails, Calibrate, ProposeRollback, store
    <2>3. UNCHANGED Losses
        BY <2>1 DEF Losses
    <2>2. job.step # "file" /\ job'.step # "file"
        BY <1>10, GoesOn DEF Tick, Run, ConsultFails, Calibrate, ProposeRollback, Idle
    <2> QED BY <1>3, <2>1, <2>2, <2>3, MarkStays
<1> QED BY <1>5, <1>6, <1>7, <1>8, <1>9, <1>10 DEF Next

\* Rules that were written with a reflection (reflection.py:87) are proposed, in a commit of
\* their own (reflection.py:95), except where the process died in between, or a busy ledger refused
\* the proposal (swallowed, reflect_runner.py:51-54): one per crash and per refusal, no more.
THEOREM RulesReachTheOperator == Spec => []RulesAreFiled
<1>1. Init => FiledInv
    <2> SUFFICES ASSUME Init PROVE FiledInv
        OBVIOUS
    <2>1. /\ job.step = "idle" /\ Losses = 0
          /\ \A i \in DOMAIN reflections : reflections[i].version = NoVersion
        BY DEF Init, Idle, Losses
    <2>2. \A r \in Periodic : r.version = NoVersion
        BY <2>1 DEF Periodic
    <2>3. Unfiled = {}
        BY <2>2 DEF Unfiled
    <2> QED BY <2>1, <2>2, <2>3, FS_EmptySet DEF FiledInv
<1>2. JobInv /\ LedgerInv /\ BookInv /\ FiledInv => RulesAreFiled
    <2> SUFFICES ASSUME JobInv, LedgerInv, BookInv, FiledInv PROVE RulesAreFiled
        OBVIOUS
    <2> DEFINE filed(r) == \E i \in DOMAIN proposals :
                              /\ proposals[i].payload.kind = "playbook"
                              /\ proposals[i].payload.version = r.version
               left == {r \in {q \in Periodic : q.version # NoVersion} : ~filed(r)}
    <2>1. left = Unfiled
        BY DEF Unfiled, Filed, PlaybookRows
    <2>2. Cardinality(Unfiled) <= Losses + (IF job.step = "file" THEN 1 ELSE 0)
        <3>1. CASE job.step = "file"
            BY <3>1, OneBehind
        <3>2. CASE job.step # "file"
            BY <3>2, LossesType, FS_CardinalityType DEF FiledInv
        <3> QED BY <3>1, <3>2
    <2> QED BY <2>1, <2>2 DEF RulesAreFiled, Losses
<1> QED BY <1>1, <1>2, FiledStep, JobInvariant, LedgerInvariant, BookInvariant, PTL DEF Spec

\* The periodic job's account (reflect_runner.py:36-70, reflection.py:46-105): each trade
\* once, each rule filed (but for one per crash or refused proposal), each call in its turn,
\* whatever fails and whenever it restarts.
THEOREM ReflectionAccountsForAll == Spec => []ReflectionAccounted
<1>1. ReflectedOnce /\ RulesAreFiled /\ CadenceBoundsCalls => ReflectionAccounted
    BY DEF ReflectionAccounted
<1> QED BY <1>1, TradesReflectedOnce, RulesReachTheOperator, CallsArePaced, PTL
==============================================================================
