-------------------------- MODULE ProposalGateProofs --------------------------
(***************************************************************************)
(* Theorems about what waits for a human: a proposal at the gate           *)
(* (ProposalGate, for any proposals, strategies, versions, threads and     *)
(* bounds: lineage, application, finality and the chat cursor), and at the *)
(* end a change to the code itself (SelfModification, for any files,       *)
(* branches, provenances and number of edits: what a pull request shows).  *)
(***************************************************************************)
EXTENDS ProposalGate, SelfModification, TLAPS

\* The rows of a reader and an applier: what it applies was found appliable.
ReadFirst ==
    \A d \in Deciders : task[d].step = "apply" => payload[task[d].proposal].appliable

\* A version names one row, and a strategy that has a playbook has one in force.
OneVersion == \A b, c \in playbooks : b.version = c.version => b = c
InForce == \A b \in playbooks : \E c \in playbooks : c.strategy = b.strategy /\ ~c.retired

\* Every command names a proposal that was filed, and those the poll under way is past
\* have been acted on.
InboxKnown ==
    \A i \in 1 .. Len(inbox) : inbox[i] # BotPost => status[inbox[i].proposal] # "none"
Settled(n) ==
    \A i \in missed + 1 .. n : inbox[i] # BotPost /\ status[inbox[i].proposal] = "pending"
                                  => inbox[i].proposal \in refused
\* What the first read passed over is what came before ReadLimit others.
Passed == missed > 0 => missed + ReadLimit <= Len(inbox)
Acted == at > 0 => cursor < at /\ Settled(at - 1)

Lineage == OneVersion /\ InForce /\ OneActivePlaybook /\ TrueLineage
ChatInv == InboxKnown /\ Acted /\ Settled(cursor) /\ Passed
Inv == TypeOK /\ ReadFirst /\ Lineage /\ AppliedIffPublished /\ ChatInv

------------------------------------------------------------------------------
(* Types *)

\* An empty gate.
LEMMA GateInit == Init => Inv
<1> SUFFICES ASSUME Init PROVE Inv
    OBVIOUS
<1>1. TypeOK
    BY GateAssumption DEF Init, TypeOK, Idle
<1>2. ReadFirst
    BY DEF Init, ReadFirst, Idle
<1>3. Lineage
    BY DEF Init, Lineage, OneVersion, InForce, OneActivePlaybook, TrueLineage
<1>4. AppliedIffPublished
    BY DEF Init, AppliedIffPublished
<1>5. ChatInv
    BY DEF Init, ChatInv, InboxKnown, Acted, Settled, Passed
<1> QED BY <1>1, <1>2, <1>3, <1>4, <1>5 DEF Inv

\* A step of one thread leaves the others' tasks alone.
LEMMA TaskStep ==
    ASSUME TypeOK, NEW d \in Deciders, NEW t \in {Idle} \cup [step : {"read", "apply"}, proposal : Proposals],
           task' = [task EXCEPT ![d] = t]
    PROVE  /\ task' \in [Deciders -> {Idle} \cup [step : {"read", "apply"}, proposal : Proposals]]
           /\ task'[d] = t
           /\ \A e \in Deciders \ {d} : task'[e] = task[e]
BY DEF TypeOK

\* A thread that reads or applies has a proposal.
LEMMA AtWork ==
    ASSUME TypeOK, NEW d \in Deciders, task[d].step \in {"read", "apply"}
    PROVE  /\ task[d] \in [step : {"read", "apply"}, proposal : Proposals]
           /\ task[d].proposal \in Proposals
BY DEF TypeOK, Idle

\* A decision moves one pending proposal, and at most gives its decider something to apply.
LEMMA DecideTypes ==
    ASSUME TypeOK, NEW d \in Deciders, NEW verb, NEW p \in Proposals, Decide(d, verb, p)
    PROVE  /\ status' \in [Proposals -> {"none", "pending", "approved", "rejected"}]
           /\ task' \in [Deciders -> {Idle} \cup [step : {"read", "apply"}, proposal : Proposals]]
           /\ \A e \in Deciders : task'[e].step = "apply" => task'[e] = task[e]
           /\ \A q \in Proposals : /\ status'[q] # status[q] => status[q] = "pending"
                                   /\ status'[q] = "pending" => status[q] = "pending"
                                   /\ status'[q] = "none" => status[q] = "none"
<1>1. CASE ~Undecided(p)
    BY <1>1, TaskStep DEF Decide, Done, TypeOK, Idle
<1>2. CASE Undecided(p) /\ verb = "reject"
    <2>1. status' = [status EXCEPT ![p] = "rejected"] /\ task' = [task EXCEPT ![d] = Idle]
        BY <1>2 DEF Decide, Done
    <2> QED BY <1>2, <2>1, TaskStep DEF TypeOK, Idle, Undecided
<1>3. CASE Undecided(p) /\ verb # "reject"
    <2>1. /\ status' = [status EXCEPT ![p] = "approved"]
          /\ task' = [task EXCEPT ![d] = [step |-> "read", proposal |-> p]]
        BY <1>3 DEF Decide
    <2>2. /\ task' \in [Deciders -> {Idle} \cup [step : {"read", "apply"}, proposal : Proposals]]
          /\ task'[d] = [step |-> "read", proposal |-> p]
          /\ \A e \in Deciders \ {d} : task'[e] = task[e]
        BY <2>1, TaskStep
    <2> QED BY <1>3, <2>1, <2>2 DEF TypeOK, Undecided
<1> QED BY <1>1, <1>2, <1>3

\* Every step keeps the types.
LEMMA TypesNext == TypeOK /\ [Next]_vars => TypeOK'
<1> SUFFICES ASSUME TypeOK, [Next]_vars PROVE TypeOK'
    OBVIOUS
<1> DEFINE Steps == {Idle} \cup [step : {"read", "apply"}, proposal : Proposals]
<1>1. CASE \E p \in Proposals : File(p)
    BY <1>1 DEF File, TypeOK, chat, vars
<1>2. CASE \E h \in Handlers : WebDecide(h)
    <2>1. PICK h \in Handlers, c \in Commands :
              (Decide(h, c.verb, c.proposal) \/ DecideBusy(h, c.proposal)) /\ UNCHANGED chat
        BY <1>2 DEF WebDecide
    <2>2. h \in Deciders /\ c.proposal \in Proposals
        BY DEF Deciders, Commands
    <2>3. CASE Decide(h, c.verb, c.proposal)
        <3>1. status' \in [Proposals -> {"none", "pending", "approved", "rejected"}] /\ task' \in [Deciders -> Steps]
            BY <2>2, <2>3, DecideTypes
        <3>2. UNCHANGED <<payload, applied, playbooks, chat, crashes, refused>>
            BY <2>1, <2>3 DEF Decide
        <3> QED BY <3>1, <3>2 DEF TypeOK, chat
    <2>4. CASE DecideBusy(h, c.proposal)
        BY <2>1, <2>2, <2>4 DEF DecideBusy, TypeOK, chat, rows
    <2> QED BY <2>1, <2>3, <2>4
<1>3. CASE \E d \in Deciders : Advance(d)
    <2>1. PICK d \in Deciders : Advance(d)
        BY <1>3
    <2>2. CASE ReadForApply(d)
        <3>1. task[d] \in [step : {"read", "apply"}, proposal : Proposals]
            BY <2>2, AtWork DEF ReadForApply
        <3>2. PICK t \in Steps : task' = [task EXCEPT ![d] = t]
            <4>1. [task[d] EXCEPT !.step = "apply"] \in Steps /\ Idle \in Steps
                BY <3>1
            <4>2. task' = [task EXCEPT ![d] = [task[d] EXCEPT !.step = "apply"]] \/ task' = [task EXCEPT ![d] = Idle]
                BY <2>2 DEF ReadForApply, Done
            <4> QED BY <4>1, <4>2
        <3> QED BY <2>2, <3>2, TaskStep DEF ReadForApply, TypeOK, chat, rows
    <2>3. CASE Apply(d)
        <3>1. task[d].proposal \in Proposals
            BY <2>3, AtWork DEF Apply
        <3>2. task' = [task EXCEPT ![d] = Idle]
            BY <2>3 DEF Apply, Done
        <3>3. task' \in [Deciders -> Steps]
            BY <3>2, TaskStep
        <3>4. applied' \in [Proposals -> BOOLEAN]
            BY <2>3, <3>1 DEF Apply, TypeOK
        <3>5. playbooks' \subseteq Playbooks
            <4> DEFINE p == task[d].proposal
            <4>1. /\ payload[p].strategy \in Strategies /\ payload[p].version \in Versions
                BY <3>1, GateAssumption DEF TypeOK
            <4>2. Parent(payload[p].strategy) \in Versions \cup {NoVersion}
                <5>1. \A s : Active(s) \subseteq Playbooks
                    BY DEF Active, TypeOK
                <5>2. CASE Active(payload[p].strategy) # {}
                    <6>1. (CHOOSE b \in Active(payload[p].strategy) : TRUE) \in Active(payload[p].strategy)
                        BY <5>2
                    <6> QED BY <5>1, <5>2, <6>1 DEF Parent, Playbooks
                <5> QED BY <5>2 DEF Parent
            <4>3. \A v : Retired(v) \subseteq Playbooks
                <5> SUFFICES ASSUME NEW v, NEW b \in playbooks
                             PROVE  [b EXCEPT !.retired = b.retired \/ b.version = v] \in Playbooks
                    BY DEF Retired
                <5>1. b \in Playbooks
                    BY DEF TypeOK
                <5> QED BY <5>1 DEF Playbooks
            <4>4. \/ playbooks' = playbooks
                  \/ playbooks' = Retired(Parent(payload[p].strategy)) \cup
                       {[strategy |-> payload[p].strategy, version |-> payload[p].version,
                         parent |-> Parent(payload[p].strategy), retired |-> FALSE]}
                BY <2>3 DEF Apply
            <4>5. [strategy |-> payload[p].strategy, version |-> payload[p].version,
                   parent |-> Parent(payload[p].strategy), retired |-> FALSE] \in Playbooks
                BY <4>1, <4>2 DEF Playbooks
            <4> HIDE DEF p
            <4> QED BY <4>3, <4>4, <4>5 DEF TypeOK
        <3> QED BY <2>3, <3>3, <3>4, <3>5 DEF Apply, TypeOK, chat
    <2>4. CASE ApplyBusy(d)
        <3>1. task[d].proposal \in Proposals
            BY <2>4, AtWork DEF ApplyBusy
        <3>2. task' \in [Deciders -> Steps]
            BY <2>4, TaskStep DEF ApplyBusy, Done
        <3> QED BY <2>4, <3>1, <3>2 DEF ApplyBusy, TypeOK, chat, rows
    <2> QED BY <2>1, <2>2, <2>3, <2>4 DEF Advance
<1>4. CASE \E c \in Commands : Send(c)
    <2>1. PICK c \in Commands : Send(c)
        BY <1>4
    <2>2. inbox' \in Seq(Commands \cup {BotPost}) /\ Len(inbox') = Len(inbox) + 1
        BY <2>1 DEF Send, TypeOK
    <2> QED BY <2>1, <2>2, GateAssumption DEF Send, TypeOK, rows
<1>10. CASE Narrate
    <2>1. inbox' \in Seq(Commands \cup {BotPost}) /\ Len(inbox') = Len(inbox) + 1
        BY <1>10 DEF Narrate, TypeOK
    <2> QED BY <1>10, <2>1, GateAssumption DEF Narrate, TypeOK, rows
<1>5. CASE Poll
    <2>1. Before \in 0 .. Len(inbox)
        BY GateAssumption DEF Before, TypeOK
    <2>2. upto' \in Before + 1 .. Len(inbox)
        BY <1>5 DEF Poll, Read
    <2>3. at' = Before + 1 /\ missed' \in {missed, Before}
        BY <1>5 DEF Poll
    <2>4. Len(inbox) \in Nat /\ missed \in 0 .. Len(inbox) /\ Before \in Nat
        BY <2>1 DEF TypeOK
    <2>5. upto' \in 0 .. Len(inbox) /\ at' \in 0 .. upto' + 1
        <3>1. \A b, n \in Nat : \A u \in b + 1 .. n : u \in 0 .. n /\ b + 1 \in 0 .. u + 1
            OBVIOUS
        <3> QED BY <2>2, <2>3, <2>4, <3>1
    <2>6. missed' \in 0 .. Len(inbox)
        BY <2>1, <2>3, <2>4
    <2> QED BY <1>5, <2>5, <2>6 DEF Poll, TypeOK, rows
<1>11. CASE CommsDecide /\ inbox[at] = BotPost
    BY <1>11 DEF CommsDecide, TypeOK, rows
<1>6. CASE CommsDecide /\ inbox[at] # BotPost
    <2> DEFINE c == inbox[at]
    <2>1. at \in 1 .. Len(inbox) /\ c \in Commands /\ at' = at + 1 /\ at' \in 0 .. upto + 1
        BY <1>6 DEF CommsDecide, TypeOK
    <2>2. comms \in Deciders /\ c.proposal \in Proposals
        BY <2>1 DEF Deciders, Commands
    <2>3. CASE Decide(comms, c.verb, c.proposal)
        <3>1. status' \in [Proposals -> {"none", "pending", "approved", "rejected"}] /\ task' \in [Deciders -> Steps]
            BY <2>2, <2>3, DecideTypes
        <3>2. UNCHANGED <<payload, applied, playbooks, inbox, cursor, upto, missed, crashes, refused>>
            BY <1>6, <2>3 DEF Decide, CommsDecide
        <3> QED BY <2>1, <3>1, <3>2 DEF TypeOK
    <2>4. CASE DecideBusy(comms, c.proposal)
        BY <1>6, <2>1, <2>2, <2>4 DEF DecideBusy, CommsDecide, TypeOK, rows
    <2> QED BY <1>6, <2>3, <2>4 DEF CommsDecide
<1>7. CASE SetCursor
    BY <1>7 DEF SetCursor, TypeOK, rows
<1>8. CASE Crash
    BY <1>8, GateAssumption DEF Crash, TypeOK, rows, Idle
<1>9. CASE UNCHANGED vars
    BY <1>9 DEF vars, rows, chat, TypeOK
<1> QED BY <1>1, <1>2, <1>3, <1>4, <1>5, <1>6, <1>7, <1>8, <1>9, <1>10, <1>11 DEF Next

------------------------------------------------------------------------------
(* Decisions *)

\* What any step does to the statuses: a row is filed once, and decided once.
Moves(p) ==
    /\ status[p] \in {"approved", "rejected"} => status'[p] = status[p]
    /\ status[p] # "none" => status'[p] # "none"
    /\ status'[p] = "pending" => status[p] \in {"none", "pending"}

\* Every step moves every proposal forward or not at all.
LEMMA StatusNext == TypeOK /\ [Next]_vars => \A p \in Proposals : Moves(p)
<1> SUFFICES ASSUME TypeOK, [Next]_vars PROVE \A p \in Proposals : Moves(p)
    OBVIOUS
<1>1. CASE UNCHANGED status
    BY <1>1 DEF Moves
<1>2. CASE \E p \in Proposals : File(p)
    BY <1>2 DEF File, Moves, TypeOK
<1>3. CASE \E d \in Deciders, c \in Commands : Decide(d, c.verb, c.proposal)
    BY <1>3, DecideTypes DEF Moves, TypeOK, Commands
<1>4. CASE \E h \in Handlers : WebDecide(h)
    <2>1. PICK h \in Handlers, c \in Commands : Decide(h, c.verb, c.proposal) \/ DecideBusy(h, c.proposal)
        BY <1>4 DEF WebDecide
    <2>2. h \in Deciders
        BY DEF Deciders
    <2> QED BY <1>1, <1>3, <2>1, <2>2 DEF DecideBusy, rows
<1>5. CASE \E d \in Deciders : Advance(d)
    BY <1>1, <1>5 DEF Advance, ReadForApply, Apply, ApplyBusy, rows
<1>6. CASE CommsDecide /\ inbox[at] # BotPost
    <2>1. inbox[at] \in Commands
        BY <1>6 DEF CommsDecide, TypeOK
    <2>2. Decide(comms, inbox[at].verb, inbox[at].proposal) \/ DecideBusy(comms, inbox[at].proposal)
        BY <1>6 DEF CommsDecide
    <2>3. comms \in Deciders
        BY DEF Deciders
    <2> QED BY <1>1, <1>3, <2>1, <2>2, <2>3 DEF DecideBusy, rows
<1>7. CASE \/ (\E c \in Commands : Send(c)) \/ Narrate \/ Poll \/ SetCursor \/ Crash
           \/ (CommsDecide /\ inbox[at] = BotPost) \/ UNCHANGED vars
    BY <1>1, <1>7 DEF Send, Narrate, Poll, CommsDecide, SetCursor, Crash, vars, rows
<1> QED BY <1>2, <1>4, <1>5, <1>6, <1>7 DEF Next

\* Only an apply changes what is published and stamped, and no step changes a payload.
LEMMA OnlyApply ==
    [Next]_vars => UNCHANGED payload /\ (UNCHANGED <<applied, playbooks>> \/ \E d \in Deciders : Apply(d))
BY DEF Next, File, WebDecide, Decide, DecideBusy, Advance, ReadForApply, Apply, ApplyBusy,
       Send, Narrate, Poll, CommsDecide, SetCursor, Crash, vars, rows

\* Between the two looks of the applier nothing changes what it saw.
LEMMA ReadNext == TypeOK /\ ReadFirst /\ [Next]_vars => ReadFirst'
<1> SUFFICES ASSUME TypeOK, ReadFirst, [Next]_vars,
                    NEW d \in Deciders, task'[d].step = "apply"
             PROVE  payload'[task'[d].proposal].appliable
    BY DEF ReadFirst
<1>1. UNCHANGED payload
    BY OnlyApply
<1>2. CASE task'[d] = task[d]
    BY <1>1, <1>2 DEF ReadFirst
<1>3. CASE \E e \in Deciders, c \in Commands : Decide(e, c.verb, c.proposal)
    BY <1>2, <1>3, DecideTypes DEF Commands
<1>4. CASE \E h \in Handlers : WebDecide(h)
    <2>1. PICK h \in Handlers, c \in Commands : Decide(h, c.verb, c.proposal) \/ DecideBusy(h, c.proposal)
        BY <1>4 DEF WebDecide
    <2>2. h \in Deciders
        BY DEF Deciders
    <2> QED BY <1>2, <1>3, <2>1, <2>2 DEF DecideBusy
<1>5. CASE CommsDecide /\ inbox[at] # BotPost
    <2>1. inbox[at] \in Commands
        BY <1>5 DEF CommsDecide, TypeOK
    <2>2. Decide(comms, inbox[at].verb, inbox[at].proposal) \/ DecideBusy(comms, inbox[at].proposal)
        BY <1>5 DEF CommsDecide
    <2>3. comms \in Deciders
        BY DEF Deciders
    <2> QED BY <1>2, <1>3, <2>1, <2>2, <2>3 DEF DecideBusy
<1>6. CASE \E e \in Deciders : Advance(e)
    <2>1. PICK e \in Deciders : Advance(e)
        BY <1>6
    <2>2. CASE d # e
        BY <1>2, <2>1, <2>2 DEF Advance, ReadForApply, Apply, ApplyBusy, Done, TypeOK
    <2>3. CASE d = e /\ ReadForApply(e)
        <3>1. task[e] \in [step : {"read", "apply"}, proposal : Proposals]
            BY <2>3, AtWork DEF ReadForApply
        <3>2. CASE payload[task[e].proposal].appliable /\ task' = [task EXCEPT ![e].step = "apply"]
            BY <1>1, <2>3, <3>1, <3>2 DEF TypeOK
        <3>3. CASE task' = [task EXCEPT ![e] = Idle]
            BY <2>3, <3>3 DEF TypeOK, Idle
        <3> QED BY <2>3, <3>2, <3>3 DEF ReadForApply, Done
    <2>4. CASE d = e /\ (Apply(e) \/ ApplyBusy(e))
        BY <2>4 DEF Apply, ApplyBusy, Done, TypeOK, Idle
    <2> QED BY <2>1, <2>2, <2>3, <2>4 DEF Advance
<1>7. CASE Crash
    BY <1>7 DEF Crash, Idle
<1>8. CASE CommsDecide /\ inbox[at] = BotPost
    BY <1>2, <1>8 DEF CommsDecide
<1>9. CASE \/ (\E p \in Proposals : File(p)) \/ (\E c \in Commands : Send(c)) \/ Narrate \/ Poll
           \/ SetCursor \/ UNCHANGED vars
    BY <1>2, <1>9 DEF File, Send, Narrate, Poll, SetCursor, vars
<1> QED BY <1>4, <1>5, <1>6, <1>7, <1>8, <1>9 DEF Next

------------------------------------------------------------------------------
(* Publishing *)

\* A publication retires the version in force, if there is one, and adds one under it.
LEMMA PublishStep ==
    ASSUME TypeOK, ReadFirst, Lineage, NEW d \in Deciders, Apply(d), ~UNCHANGED <<applied, playbooks>>
    PROVE  \E p \in Proposals, parent \in Versions \cup {NoVersion} :
               /\ status[p] = "approved" /\ payload[p].appliable /\ ~applied[p]
               /\ applied' = [applied EXCEPT ![p] = TRUE]
               /\ \A b \in playbooks : b.version # payload[p].version
               /\ playbooks' = Retired(parent) \cup
                      {[strategy |-> payload[p].strategy, version |-> payload[p].version,
                        parent |-> parent, retired |-> FALSE]}
               /\ parent = NoVersion => \A b \in playbooks : b.strategy # payload[p].strategy
               /\ parent # NoVersion => \E a \in playbooks :
                      a.version = parent /\ a.strategy = payload[p].strategy /\ ~a.retired
<1> DEFINE p == task[d].proposal
           s == payload[p].strategy
           parent == Parent(s)
<1>1. p \in Proposals
    BY AtWork DEF Apply
<1>2. /\ status[p] = "approved" /\ ~applied[p] /\ payload[p].appliable
      /\ applied' = [applied EXCEPT ![p] = TRUE]
      /\ payload[p].version \notin {b.version : b \in playbooks}
      /\ playbooks' = Retired(parent) \cup
             {[strategy |-> s, version |-> payload[p].version, parent |-> parent, retired |-> FALSE]}
    BY DEF Apply, Applicable, ReadFirst
<1>3. CASE Active(s) = {}
    <2>1. parent = NoVersion
        BY <1>3 DEF Parent
    <2>2. \A b \in playbooks : b.strategy # s
        BY <1>3 DEF Active, Lineage, InForce
    <2> QED BY <1>1, <1>2, <2>1, <2>2
<1>4. CASE Active(s) # {}
    <2>1. PICK a \in Active(s) : parent = a.version
        <3>1. (CHOOSE b \in Active(s) : TRUE) \in Active(s)
            BY <1>4
        <3> QED BY <1>4, <3>1 DEF Parent
    <2>2. a \in playbooks /\ a.strategy = s /\ ~a.retired
        BY DEF Active
    <2>3. parent \in Versions /\ parent # NoVersion
        BY <2>1, <2>2, GateAssumption DEF TypeOK, Playbooks
    <2> HIDE DEF parent, s, p
    <2>4. parent # NoVersion => \E b \in playbooks : b.version = parent /\ b.strategy = payload[p].strategy /\ ~b.retired
        BY <2>1, <2>2 DEF s
    <2> QED BY <1>1, <1>2, <2>3, <2>4 DEF s
<1> QED BY <1>3, <1>4

\* Retiring version v keeps each row but for its flag, set where it names v.
Successor(c, b, v) ==
    /\ c.version = b.version /\ c.strategy = b.strategy /\ c.parent = b.parent
    /\ c.retired = (b.retired \/ b.version = v)

\* Retiring a version keeps each row but for its mark.
LEMMA RetiredRows ==
    ASSUME TypeOK, NEW v
    PROVE  /\ \A c \in Retired(v) : \E b \in playbooks : Successor(c, b, v)
           /\ \A b \in playbooks : \E c \in Retired(v) : Successor(c, b, v)
           /\ Retired(v) \subseteq Playbooks
<1>1. ASSUME NEW b \in playbooks
      PROVE  LET c == [b EXCEPT !.retired = b.retired \/ b.version = v]
             IN c \in Retired(v) /\ Successor(c, b, v) /\ c \in Playbooks
    <2>1. b \in Playbooks
        BY DEF TypeOK
    <2> QED BY <2>1 DEF Retired, Successor, Playbooks
<1> QED BY <1>1 DEF Retired

\* The rows after a publication: the old ones, the version in force retired, and the new one.
LEMMA LineageNext == TypeOK /\ ReadFirst /\ Lineage /\ [Next]_vars => Lineage'
<1> SUFFICES ASSUME TypeOK, ReadFirst, Lineage, [Next]_vars PROVE Lineage'
    OBVIOUS
<1>1. CASE UNCHANGED playbooks
    BY <1>1 DEF Lineage, OneVersion, InForce, OneActivePlaybook, TrueLineage
<1>2. CASE ~UNCHANGED <<applied, playbooks>>
    <2>1. PICK d \in Deciders : Apply(d)
        BY <1>2, OnlyApply
    <2>2. PICK p \in Proposals, parent \in Versions \cup {NoVersion} :
               /\ \A b \in playbooks : b.version # payload[p].version
               /\ playbooks' = Retired(parent) \cup
                      {[strategy |-> payload[p].strategy, version |-> payload[p].version,
                        parent |-> parent, retired |-> FALSE]}
               /\ parent = NoVersion => \A b \in playbooks : b.strategy # payload[p].strategy
               /\ parent # NoVersion => \E a \in playbooks :
                      a.version = parent /\ a.strategy = payload[p].strategy /\ ~a.retired
        BY <1>2, <2>1, PublishStep
    <2> DEFINE new == [strategy |-> payload[p].strategy, version |-> payload[p].version,
                       parent |-> parent, retired |-> FALSE]
    <2>3. /\ \A c \in playbooks' : c = new \/ \E b \in playbooks : Successor(c, b, parent)
          /\ \A b \in playbooks : \E c \in playbooks' : Successor(c, b, parent)
          /\ \A c \in playbooks' : c \in Playbooks
          /\ new \in playbooks'
        <3>1. new \in Playbooks
            BY GateAssumption DEF TypeOK, Playbooks
        <3> QED BY <2>2, <3>1, RetiredRows
    <2>4. /\ new.strategy = payload[p].strategy /\ new.version = payload[p].version
          /\ new.parent = parent /\ ~new.retired
        OBVIOUS
    <2>5. \A c, e \in playbooks' : c # new /\ e # new /\ c.version = e.version => c = e
        BY <2>3 DEF Lineage, OneVersion, Successor, Playbooks
    <2> HIDE DEF new
    <2>6. OneVersion'
        BY <2>2, <2>3, <2>4, <2>5 DEF OneVersion, Successor
    <2>7. \A c \in playbooks' : c # new /\ c.strategy = new.strategy => c.retired
        <3> SUFFICES ASSUME NEW c \in playbooks', c # new, c.strategy = new.strategy
                     PROVE  c.retired
            OBVIOUS
        <3>1. PICK b \in playbooks : Successor(c, b, parent)
            BY <2>3
        <3>2. PICK a \in playbooks : a.version = parent /\ a.strategy = new.strategy /\ ~a.retired
            BY <2>2, <2>4, <3>1 DEF Successor
        <3> QED BY <3>1, <3>2 DEF Successor, Lineage, OneActivePlaybook
    <2>8. OneActivePlaybook'
        <3> SUFFICES ASSUME NEW c \in playbooks', NEW e \in playbooks', c.strategy = e.strategy,
                            ~c.retired, ~e.retired
                     PROVE  c = e
            BY DEF OneActivePlaybook
        <3>1. CASE c # new /\ e # new
            <4>1. PICK b \in playbooks : Successor(c, b, parent)
                BY <2>3, <3>1
            <4>2. PICK a \in playbooks : Successor(e, a, parent)
                BY <2>3, <3>1
            <4>3. ~b.retired /\ ~a.retired
                <5>1. \A x \in playbooks : x.retired \in BOOLEAN
                    BY DEF TypeOK, Playbooks
                <5> QED BY <4>1, <4>2, <5>1 DEF Successor
            <4>4. c.version = e.version
                BY <4>1, <4>2, <4>3 DEF Successor, Lineage, OneActivePlaybook
            <4> QED BY <2>5, <3>1, <4>4
        <3> QED BY <2>7, <3>1
    <2>9. InForce'
        <3> SUFFICES ASSUME NEW c \in playbooks'
                     PROVE  \E e \in playbooks' : e.strategy = c.strategy /\ ~e.retired
            BY DEF InForce
        <3>1. CASE c.strategy = new.strategy
            BY <2>3, <2>4, <3>1
        <3>2. CASE c.strategy # new.strategy
            <4>1. PICK b \in playbooks : b.strategy = c.strategy
                BY <2>3, <3>2 DEF Successor
            <4>2. PICK a \in playbooks : a.strategy = c.strategy /\ ~a.retired
                BY <4>1 DEF Lineage, InForce
            <4>3. a.version # parent
                BY <2>2, <2>4, <3>2, <4>2, GateAssumption DEF Lineage, OneVersion, TypeOK, Playbooks
            <4>4. PICK e \in playbooks' : Successor(e, a, parent)
                BY <2>3
            <4>5. e.strategy = c.strategy /\ ~e.retired
                BY <4>2, <4>3, <4>4 DEF Successor
            <4> QED BY <4>5
        <3> QED BY <3>1, <3>2
    <2>10. TrueLineage'
        <3>1. ASSUME NEW c \in playbooks', c # new, c.strategy = new.strategy PROVE c.parent # parent
            <4>1. PICK b \in playbooks : Successor(c, b, parent)
                BY <2>3, <3>1
            <4>2. PICK a \in playbooks : a.version = parent /\ a.strategy = new.strategy /\ ~a.retired
                BY <2>2, <2>4, <3>1, <4>1 DEF Successor
            <4>3. parent # NoVersion
                BY <4>2, GateAssumption DEF TypeOK, Playbooks
            <4>4. b.parent # parent
                BY <4>2, <4>3 DEF Lineage, TrueLineage, OneVersion
            <4> QED BY <4>1, <4>4 DEF Successor
        <3>2. ASSUME NEW c \in playbooks', NEW e \in playbooks', c.strategy = e.strategy,
                     c.parent = e.parent
              PROVE  c = e
            <4>1. CASE c # new /\ e # new
                <5>1. c.version = e.version
                    BY <2>3, <3>2, <4>1 DEF Successor, Lineage, TrueLineage
                <5> QED BY <2>5, <4>1, <5>1
            <4> QED BY <2>4, <3>1, <3>2, <4>1
        <3>3. ASSUME NEW c \in playbooks', c.parent # NoVersion
              PROVE  \E e \in playbooks' : e.version = c.parent /\ e.strategy = c.strategy /\ e.retired
            <4>1. CASE c = new
                <5>1. PICK a \in playbooks : a.version = parent /\ a.strategy = new.strategy
                    BY <2>2, <2>4, <3>3, <4>1
                <5>2. PICK e \in playbooks' : Successor(e, a, parent)
                    BY <2>3
                <5>3. e.version = c.parent /\ e.strategy = c.strategy /\ e.retired
                    BY <2>4, <4>1, <5>1, <5>2 DEF Successor
                <5> QED BY <5>3
            <4>2. CASE c # new
                <5>1. PICK b \in playbooks : Successor(c, b, parent)
                    BY <2>3, <4>2
                <5>2. PICK a \in playbooks : a.version = b.parent /\ a.strategy = b.strategy /\ a.retired
                    BY <3>3, <5>1 DEF Successor, Lineage, TrueLineage
                <5>3. PICK e \in playbooks' : Successor(e, a, parent)
                    BY <2>3
                <5>4. e.version = c.parent /\ e.strategy = c.strategy /\ e.retired
                    BY <5>1, <5>2, <5>3 DEF Successor
                <5> QED BY <5>4
            <4> QED BY <4>1, <4>2
        <3> QED BY <3>2, <3>3 DEF TrueLineage
    <2> QED BY <2>6, <2>8, <2>9, <2>10 DEF Lineage
<1> QED BY <1>1, <1>2

\* The stamp and the publication come in one step.
LEMMA AppliedNext ==
    TypeOK /\ ReadFirst /\ Lineage /\ AppliedIffPublished /\ [Next]_vars => AppliedIffPublished'
<1> SUFFICES ASSUME TypeOK, ReadFirst, Lineage, AppliedIffPublished, [Next]_vars
             PROVE  AppliedIffPublished'
    OBVIOUS
<1>1. UNCHANGED payload /\ \A p \in Proposals : status[p] = "approved" => status'[p] = "approved"
    BY OnlyApply, StatusNext DEF Moves
<1>2. CASE UNCHANGED <<applied, playbooks>>
    BY <1>1, <1>2 DEF AppliedIffPublished, Publishes
<1>3. CASE ~UNCHANGED <<applied, playbooks>>
    <2>1. PICK d \in Deciders : Apply(d)
        BY <1>3, OnlyApply
    <2>2. PICK p \in Proposals, parent \in Versions \cup {NoVersion} :
               /\ status[p] = "approved" /\ payload[p].appliable /\ ~applied[p]
               /\ applied' = [applied EXCEPT ![p] = TRUE]
               /\ \A b \in playbooks : b.version # payload[p].version
               /\ playbooks' = Retired(parent) \cup
                      {[strategy |-> payload[p].strategy, version |-> payload[p].version,
                        parent |-> parent, retired |-> FALSE]}
        BY <1>3, <2>1, PublishStep
    <2> DEFINE new == [strategy |-> payload[p].strategy, version |-> payload[p].version,
                       parent |-> parent, retired |-> FALSE]
    <2>3. /\ \A c \in playbooks' : c = new \/ \E b \in playbooks : Successor(c, b, parent)
          /\ \A b \in playbooks : \E c \in playbooks' : Successor(c, b, parent)
          /\ new \in playbooks'
        BY <2>2, RetiredRows
    <2>4. new.strategy = payload[p].strategy /\ new.version = payload[p].version
        OBVIOUS
    <2> HIDE DEF new
    <2>5. applied'[p] /\ \A q \in Proposals : q # p => applied'[q] = applied[q]
        BY <2>2 DEF TypeOK
    <2>6. \A q \in Proposals : applied[q] => payload[q].version # payload[p].version
        BY <2>2 DEF AppliedIffPublished, Publishes
    <2>7. ASSUME NEW q \in Proposals, applied'[q]
          PROVE  /\ status'[q] = "approved" /\ payload'[q].appliable
                 /\ \E b \in playbooks' : Publishes(q, b)'
                 /\ \A r \in Proposals \ {q} : applied'[r] => payload'[r].version # payload'[q].version
        <3>1. CASE q = p
            BY <1>1, <2>2, <2>3, <2>4, <2>5, <2>6, <3>1 DEF Publishes
        <3>2. CASE q # p
            <4>1. applied[q]
                BY <2>5, <2>7, <3>2
            <4>2. PICK b \in playbooks : Publishes(q, b)
                BY <4>1 DEF AppliedIffPublished
            <4>3. \E c \in playbooks' : Publishes(q, c)'
                BY <1>1, <2>3, <4>2 DEF Publishes, Successor
            <4>4. \A r \in Proposals \ {q} : applied'[r] => payload[r].version # payload[q].version
                BY <2>5, <2>6, <4>1 DEF AppliedIffPublished
            <4> QED BY <1>1, <4>1, <4>3, <4>4 DEF AppliedIffPublished
        <3> QED BY <3>1, <3>2
    <2>8. ASSUME NEW c \in playbooks'
          PROVE  \E q \in Proposals : applied'[q] /\ Publishes(q, c)'
        <3>1. CASE c = new
            BY <1>1, <2>4, <2>5, <3>1 DEF Publishes
        <3>2. CASE c # new
            <4>1. PICK b \in playbooks : Successor(c, b, parent)
                BY <2>3, <3>2
            <4>2. PICK q \in Proposals : applied[q] /\ Publishes(q, b)
                BY DEF AppliedIffPublished
            <4> QED BY <1>1, <2>5, <4>1, <4>2 DEF Publishes, Successor
        <3> QED BY <3>1, <3>2
    <2> QED BY <2>7, <2>8 DEF AppliedIffPublished
<1> QED BY <1>2, <1>3

------------------------------------------------------------------------------
(* The chat *)

\* What is in the inbox and not the bot's are commands, on proposals.
LEMMA InboxTypes ==
    ASSUME TypeOK, NEW i \in 1 .. Len(inbox), inbox[i] # BotPost
    PROVE  inbox[i] \in Commands /\ inbox[i].proposal \in Proposals
<1>1. inbox[i] \in Commands
    BY DEF TypeOK
<1> QED BY <1>1 DEF Commands

\* Commands once settled stay so: what is filed is decided once, and refusals are kept.
LEMMA SettledStays ==
    ASSUME TypeOK, InboxKnown, [Next]_vars, UNCHANGED <<inbox, missed>>,
           NEW n \in Nat, n <= Len(inbox), Settled(n)
    PROVE  \A i \in missed' + 1 .. n :
               inbox'[i] # BotPost /\ status'[inbox'[i].proposal] = "pending"
                   => inbox'[i].proposal \in refused'
<1> SUFFICES ASSUME NEW i \in missed + 1 .. n, inbox[i] # BotPost,
                    status'[inbox'[i].proposal] = "pending"
             PROVE  inbox[i].proposal \in refused'
    OBVIOUS
<1>1. i \in 1 .. Len(inbox)
    BY DEF TypeOK
<1>2. /\ inbox[i] \in Commands /\ inbox[i].proposal \in Proposals
      /\ status[inbox[i].proposal] # "none"
    BY <1>1, InboxTypes DEF InboxKnown
<1>3. status[inbox[i].proposal] = "pending"
    BY <1>2, StatusNext DEF Moves
<1>4. inbox[i].proposal \in refused
    BY <1>3 DEF Settled
<1>5. refused \subseteq refused'
    BY DEF Next, File, WebDecide, Decide, DecideBusy, Advance, ReadForApply, Apply, ApplyBusy,
           Send, Narrate, Poll, CommsDecide, SetCursor, Crash, vars, rows
<1> QED BY <1>4, <1>5

\* The chat's commands: a step of anyone else keeps the account, and its own steps extend it.
LEMMA ChatNext == TypeOK /\ ChatInv /\ [Next]_vars => ChatInv'
<1> SUFFICES ASSUME TypeOK, ChatInv, [Next]_vars PROVE ChatInv'
    OBVIOUS
<1> USE DEF ChatInv
<1>1. /\ at \in Nat /\ cursor \in Nat /\ upto \in Nat /\ upto <= Len(inbox) /\ at <= upto + 1
      /\ cursor <= Len(inbox) /\ Len(inbox) \in Nat /\ inbox \in Seq(Commands \cup {BotPost})
      /\ missed \in Nat /\ ReadLimit \in Nat
    BY GateAssumption DEF TypeOK
<1>2. ASSUME UNCHANGED inbox
      PROVE  InboxKnown'
    <2>1. \A i \in 1 .. Len(inbox) : inbox[i] # BotPost => inbox[i].proposal \in Proposals
        BY InboxTypes
    <2> QED BY <1>2, <2>1, StatusNext DEF Moves, InboxKnown
<1>3. ASSUME UNCHANGED <<inbox, missed>>, NEW n \in Nat, n <= Len(inbox), Settled(n)
      PROVE  \A i \in missed' + 1 .. n :
                 inbox'[i] # BotPost /\ status'[inbox'[i].proposal] = "pending"
                     => inbox'[i].proposal \in refused'
    BY <1>3, SettledStays
<1>4. CASE UNCHANGED <<inbox, at, cursor, missed>>
    <2>1. InboxKnown' /\ Passed'
        BY <1>2, <1>4 DEF Passed
    <2>2. Settled(cursor)'
        BY <1>1, <1>3, <1>4 DEF Settled
    <2>3. ASSUME at > 0 PROVE Settled(at - 1)'
        <3>1. Settled(at - 1) /\ at' = at
            BY <1>4, <2>3 DEF Acted
        <3>2. at - 1 \in Nat /\ at - 1 <= Len(inbox)
            BY <1>1, <2>3
        <3> QED BY <1>3, <1>4, <3>1, <3>2 DEF Settled
    <2>4. Acted'
        BY <1>4, <2>3 DEF Acted
    <2> QED BY <2>1, <2>2, <2>4
<1>5. CASE (\E c \in Commands : Send(c)) \/ Narrate
    <2>1. PICK m \in Commands \cup {BotPost} :
              /\ inbox' = Append(inbox, m) /\ UNCHANGED <<status, at, cursor, refused, missed>>
              /\ m # BotPost => status[m.proposal] # "none"
        BY <1>5 DEF Send, Narrate, rows
    <2>2. /\ Len(inbox') = Len(inbox) + 1 /\ inbox'[Len(inbox) + 1] = m
          /\ \A i \in 1 .. Len(inbox) : inbox'[i] = inbox[i]
        BY <1>1, <2>1
    <2>3. InboxKnown' /\ Passed'
        BY <1>1, <2>1, <2>2 DEF InboxKnown, Passed
    <2>4. Acted' /\ Settled(cursor)'
        BY <1>1, <2>1, <2>2 DEF Acted, Settled
    <2> QED BY <2>3, <2>4
<1>6. CASE Poll
    <2>1. /\ Before \in Nat /\ at' = Before + 1
          /\ UNCHANGED <<status, inbox, cursor, refused>>
        BY <1>1, <1>6 DEF Poll, Before, rows
    <2>2. CASE cursor = 0
        <3>1. missed' = Before
            BY <1>6, <2>2 DEF Poll
        <3>2. Passed'
            BY <1>1, <2>1, <2>2, <3>1 DEF Before, Passed
        <3>3. Settled(cursor)' /\ Acted'
            BY <1>1, <2>1, <2>2, <3>1 DEF Settled, Acted
        <3> QED BY <1>2, <2>1, <3>2, <3>3
    <2>3. CASE cursor # 0
        <3>1. missed' = missed /\ at' - 1 = cursor
            BY <1>1, <1>6, <2>1, <2>3 DEF Poll, Before
        <3>2. Settled(cursor)' /\ Acted' /\ Passed'
            BY <1>1, <2>1, <3>1 DEF Settled, Acted, Passed
        <3> QED BY <1>2, <2>1, <3>2
    <2> QED BY <2>2, <2>3
<1>7. CASE CommsDecide
    <2>1. /\ at > 0 /\ at \in 1 .. Len(inbox) /\ at' = at + 1
          /\ UNCHANGED <<inbox, cursor, missed>>
        BY <1>1, <1>7 DEF CommsDecide
    <2>2. inbox[at] # BotPost /\ status'[inbox[at].proposal] = "pending"
              => inbox[at].proposal \in refused'
        <3> SUFFICES ASSUME inbox[at] # BotPost
                     PROVE  status'[inbox[at].proposal] = "pending"
                                => inbox[at].proposal \in refused'
            OBVIOUS
        <3>1. CASE Decide(comms, inbox[at].verb, inbox[at].proposal)
            BY <2>1, <3>1, InboxTypes DEF Decide, Undecided, TypeOK
        <3>2. CASE DecideBusy(comms, inbox[at].proposal)
            BY <3>2 DEF DecideBusy
        <3> QED BY <1>7, <3>1, <3>2 DEF CommsDecide
    <2>3. \A i \in missed' + 1 .. at - 1 :
              inbox'[i] # BotPost /\ status'[inbox'[i].proposal] = "pending"
                  => inbox'[i].proposal \in refused'
        BY <1>1, <1>3, <2>1 DEF Acted
    <2>4. \A i \in missed' + 1 .. at :
              inbox'[i] # BotPost /\ status'[inbox'[i].proposal] = "pending"
                  => inbox'[i].proposal \in refused'
        BY <1>1, <2>1, <2>2, <2>3
    <2>5. Acted'
        BY <1>1, <2>1, <2>4 DEF Acted, Settled
    <2>6. Settled(cursor)' /\ Passed'
        BY <1>1, <1>3, <2>1 DEF Settled, Passed
    <2> QED BY <1>2, <2>1, <2>5, <2>6
<1>8. CASE SetCursor
    <2>1. /\ at > 0 /\ at - 1 = upto /\ at' = 0 /\ cursor' \in {upto, cursor}
          /\ UNCHANGED <<inbox, missed>>
        BY <1>1, <1>8 DEF SetCursor
    <2>2. Settled(upto)
        BY <2>1 DEF Acted
    <2>3. Settled(cursor)'
        BY <1>1, <1>3, <2>1, <2>2 DEF Settled
    <2> QED BY <1>2, <2>1, <2>3 DEF Acted, Passed
<1>9. CASE Crash
    <2>1. UNCHANGED <<inbox, cursor, missed>> /\ at' = 0
        BY <1>9 DEF Crash
    <2>2. Settled(cursor)'
        BY <1>1, <1>3, <2>1 DEF Settled
    <2> QED BY <1>2, <2>1, <2>2 DEF Acted, Passed
<1>10. CASE \/ (\E p \in Proposals : File(p)) \/ (\E h \in Handlers : WebDecide(h))
            \/ (\E d \in Deciders : Advance(d)) \/ UNCHANGED vars
    <2>1. UNCHANGED <<inbox, at, cursor, missed>>
        BY <1>10 DEF File, WebDecide, Advance, ReadForApply, Apply, ApplyBusy, vars, chat
    <2> QED BY <1>4, <2>1
<1> QED BY <1>5, <1>6, <1>7, <1>8, <1>9, <1>10 DEF Next

------------------------------------------------------------------------------
(* Theorems *)

\* What the other theorems rest on: the inductive invariant holds.
THEOREM GateInvariant == Spec => []Inv
<1>1. Inv /\ [Next]_vars => Inv'
    BY TypesNext, ReadNext, LineageNext, AppliedNext, ChatNext DEF Inv
<1> QED BY <1>1, GateInit, PTL DEF Spec

\* Every variable of the gate keeps its type.
THEOREM GateTypes == Spec => []TypeOK
<1>1. Inv => TypeOK
    BY DEF Inv
<1> QED BY <1>1, GateInvariant, PTL

\* Whoever applies what at once, a strategy has one playbook in force and one chain of
\* retired ones behind it.
THEOREM LineageKept == Spec => []OneLineage
<1>1. Inv => OneLineage
    BY DEF Inv, Lineage, OneLineage
<1> QED BY <1>1, GateInvariant, PTL

\* An approval is applied once and in full, or not at all.
THEOREM AppliedInFull == Spec => []AppliedIffPublished
<1>1. Inv => AppliedIffPublished
    BY DEF Inv
<1> QED BY <1>1, GateInvariant, PTL

\* Behind the cursor no command is lost but to a locked ledger, or for being older than the
\* newest ReadLimit messages when the chat was read for the first time.
THEOREM CommandsSettled == Spec => []NoCommandLost
<1>1. Inv => NoCommandLost
    BY DEF Inv, ChatInv, Settled, Passed, NoCommandLost
<1> QED BY <1>1, GateInvariant, PTL

\* The first decision on a proposal is the last.
THEOREM FirstDecisionStands == Spec => DecisionFinal
<1>1. Inv /\ [Next]_vars =>
          [\A p \in Proposals :
              status[p] \in {"approved", "rejected"} => status'[p] = status[p]]_vars
    BY StatusNext DEF Inv, Moves
<1> QED BY <1>1, GateInvariant, PTL DEF Spec, DecisionFinal

------------------------------------------------------------------------------
(* The other way to a human: a pull request *)

\* What git keeps of the files at one moment, what a call under way carries, and a pull
\* request as gh keeps it.
Snapshots == [Files -> Nat]
Paths == SUBSET Pathspecs
Requests == [step : {"gate", "plan", "checkout", "add", "commit"}, paths : Paths,
             branch : Branches, leftover : SUBSET Files]
Commits == [step : {"push", "pr", "link"}, paths : Paths,
            branch : Branches, leftover : SUBSET Files, parent : Snapshots]
PullRequests == [branch : Branches, paths : Paths, parent : Snapshots, base : Snapshots,
                 leftover : SUBSET Files]

\* Whatever is pushed has a local branch, and whatever is up for review was pushed.
RepositoryOK ==
    /\ tree \in Snapshots /\ index \in Snapshots /\ edits \in Nat
    /\ tip \in [DOMAIN tip -> Snapshots] /\ origin \in [DOMAIN origin -> Snapshots]
    /\ head \in DOMAIN tip
    /\ Main \in DOMAIN origin /\ DOMAIN origin \subseteq DOMAIN tip
    /\ prs \subseteq PullRequests /\ merged \subseteq prs
    /\ \A pr \in prs : pr.branch \in DOMAIN origin

JobOK == job \in {NoCall} \cup Requests \cup Commits

\* The commands run on the call's own branch, which is nowhere else until it is pushed.
OwnBranch ==
    /\ job.step \in {"add", "commit", "push", "pr", "link"} => head = job.branch
    /\ job.step \in {"add", "commit", "push"} => job.branch \notin DOMAIN origin
    /\ job.step = "pr" => /\ job.branch \in DOMAIN origin
                          /\ origin[job.branch] = tip[job.branch]

\* What is staged or committed was tested or put there by hand, and so is what is about
\* to be staged.
Vouched(s) == \A f \in Files : s[f] # 0 => <<f, s[f]>> \in tested \cup byHand
Gated ==
    /\ Vouched(index) /\ \A b \in DOMAIN tip : Vouched(tip[b])
    /\ \A b \in DOMAIN origin : Vouched(origin[b])
    /\ job.step \in {"plan", "checkout", "add"} =>
           \A f \in Covered(job.paths) : <<f, tree[f]>> \in tested \cup byHand

\* Between the checkout and the pull request, the branch moves by what the declared paths
\* match, by what was staged before and by what is staged by hand.
Kept(new, old, but) == \A f \in Files \ but : new[f] = old[f] \/ <<f, new[f]>> \in byHand
Declared ==
    /\ job.step = "add" => Kept(index, tip[head], job.leftover)
    /\ job.step = "commit" => Kept(index, tip[head], Covered(job.paths) \cup job.leftover)
    /\ job.step \in {"push", "pr"} =>
           Kept(tip[job.branch], job.parent, Covered(job.paths) \cup job.leftover)
    /\ CommitIsDeclared

Linked ==
    /\ job.step = "link" => \E pr \in prs : pr.branch = job.branch
    /\ LinksAreReal

ReviewInv ==
    /\ RepositoryOK /\ JobOK /\ OwnBranch
    /\ Gated /\ Declared /\ MainIsReviewed /\ Linked

------------------------------------------------------------------------------
(* Steps that leave the repository as it is *)

\* The states of a call are told apart by its step.
LEMMA ReviewSteps ==
    ASSUME JobOK
    PROVE  /\ job # NoCall => job \in Requests \cup Commits
           /\ job.step \in {"gate", "plan", "checkout", "add", "commit"} => job \in Requests
           /\ job.step \in {"push", "pr", "link"} => job \in Commits
           /\ job = NoCall => job.step = "idle"
BY DEF JobOK, NoCall, Requests, Commits

\* A first checkout.
LEMMA ReviewInit == ModInit => ReviewInv
<1> SUFFICES ASSUME ModInit PROVE ReviewInv
    OBVIOUS
<1> USE DEF ModInit, Main
<1>1. RepositoryOK
    BY DEF RepositoryOK, Snapshots
<1>2. JobOK /\ OwnBranch
    BY DEF JobOK, OwnBranch, NoCall
<1>3. Gated /\ Declared
    BY DEF Gated, Vouched, Declared, NoCall, CommitIsDeclared
<1>4. MainIsReviewed /\ Linked
    BY DEF MainIsReviewed, Linked, NoCall, LinksAreReal
<1> QED BY <1>1, <1>2, <1>3, <1>4 DEF ReviewInv

\* What git and gh hold is as good as it was while only the call moves on and more is
\* known to be tested.
LEMMA ReviewStill ==
    ASSUME ReviewInv, UNCHANGED <<tree, index, tip, head, origin, prs, merged, edits, byHand>>,
           tested \subseteq tested'
    PROVE  /\ RepositoryOK' /\ MainIsReviewed' /\ CommitIsDeclared'
           /\ Vouched(index)' /\ (\A b \in DOMAIN tip : Vouched(tip[b]))'
           /\ (\A b \in DOMAIN origin : Vouched(origin[b]))'
<1>1. RepositoryOK'
    BY DEF ReviewInv, RepositoryOK
<1>2. MainIsReviewed'
    BY DEF ReviewInv, MainIsReviewed
<1>3. CommitIsDeclared'
    BY DEF ReviewInv, Declared, CommitIsDeclared, Differing
<1>4. /\ Vouched(index)' /\ (\A b \in DOMAIN tip : Vouched(tip[b]))'
      /\ (\A b \in DOMAIN origin : Vouched(origin[b]))'
    BY DEF ReviewInv, Gated, Vouched
<1> QED BY <1>1, <1>2, <1>3, <1>4

\* A call that ends.
LEMMA ReviewEnds ==
    ASSUME ReviewInv, UNCHANGED <<tree, index, tip, head, origin, prs, merged, edits, byHand>>,
           tested \subseteq tested', job' = NoCall, LinksAreReal'
    PROVE  ReviewInv'
<1>1. job'.step = "idle"
    BY DEF NoCall
<1>2. JobOK' /\ OwnBranch'
    BY <1>1 DEF JobOK, OwnBranch
<1>3. Gated'
    BY <1>1, ReviewStill DEF Gated
<1>4. Declared' /\ Linked'
    BY <1>1, ReviewStill DEF Declared, Linked
<1> QED BY <1>2, <1>3, <1>4, ReviewStill DEF ReviewInv

LEMMA ReviewPropose ==
    ASSUME ReviewInv, NEW paths \in Paths, NEW branch \in Branches \cup {Main},
           Propose(paths, branch)
    PROVE  ReviewInv'
<1> USE DEF Propose, AcceptableBranch, git
<1>1. job' \in Requests /\ job'.step = "gate"
    BY DEF Requests
<1>2. JobOK' /\ OwnBranch'
    BY <1>1 DEF JobOK, OwnBranch
<1>3. Gated'
    BY <1>1, ReviewStill DEF Gated
<1>4. Declared' /\ Linked'
    BY <1>1, ReviewStill DEF ReviewInv, Declared, Linked, LinksAreReal
<1> QED BY <1>2, <1>3, <1>4, ReviewStill DEF ReviewInv

\* The contents declared are on record as tested from the gate on.
LEMMA ReviewGate ==
    ASSUME ReviewInv, NEW green \in BOOLEAN, Gate(green)
    PROVE  ReviewInv'
<1> USE DEF Gate, git
<1>1. LinksAreReal'
    BY DEF ReviewInv, Linked, LinksAreReal
<1>2. CASE job' = NoCall
    <2>1. tested \subseteq tested'
        OBVIOUS
    <2> QED BY <1>1, <1>2, <2>1, ReviewEnds
<1>3. CASE job' # NoCall
    <2>1. /\ job \in Requests /\ Goto("plan")
          /\ tested' = tested \cup {<<f, tree[f]>> : f \in Covered(job.paths)}
        <3>1. job \in Requests /\ Goto("plan") /\ tested' = tested \cup Green
            BY <1>3, ReviewSteps DEF ReviewInv
        <3>2. Violations(job.paths) = {}
            BY <1>3
        <3>3. job.paths \ Protected = job.paths
            BY <3>2 DEF Violations
        <3> QED BY <3>1, <3>3 DEF Green
    <2>2. job' \in Requests /\ job'.step = "plan" /\ job'.paths = job.paths
        BY <2>1 DEF Goto, Requests
    <2>3. JobOK' /\ OwnBranch'
        BY <2>2 DEF JobOK, OwnBranch
    <2>4. tested \subseteq tested'
        BY <2>1
    <2>5. Gated'
        BY <2>1, <2>2, <2>4, ReviewStill DEF Gated
    <2>6. Declared' /\ Linked'
        BY <1>1, <2>2, <2>4, ReviewStill DEF Declared, Linked
    <2> QED BY <2>3, <2>4, <2>5, <2>6, ReviewStill DEF ReviewInv
<1> QED BY <1>2, <1>3

LEMMA ReviewPlan ==
    ASSUME ReviewInv, NEW dry \in BOOLEAN, Plan(dry)
    PROVE  ReviewInv'
<1> USE DEF Plan, git
<1>1. LinksAreReal'
    BY DEF ReviewInv, Linked, LinksAreReal
<1>2. CASE job' = NoCall
    BY <1>1, <1>2, ReviewEnds
<1>3. CASE job' # NoCall
    <2>1. job \in Requests /\ Goto("checkout")
        BY <1>3, ReviewSteps DEF ReviewInv
    <2>2. job' \in Requests /\ job'.step = "checkout" /\ job'.paths = job.paths
        BY <2>1 DEF Goto, Requests
    <2>3. JobOK' /\ OwnBranch'
        BY <2>2 DEF JobOK, OwnBranch
    <2>4. Gated'
        BY <2>2, ReviewStill DEF ReviewInv, Gated
    <2>5. Declared' /\ Linked'
        BY <1>1, <2>2, ReviewStill DEF Declared, Linked
    <2> QED BY <2>3, <2>4, <2>5, ReviewStill DEF ReviewInv
<1> QED BY <1>2, <1>3

\* A row recorded points at the pull request just opened.
LEMMA ReviewLink ==
    ASSUME ReviewInv, NEW row \in Provenances, Link(row) \/ LinkFails(row) \/ Abandon
    PROVE  ReviewInv'
<1>1. /\ job' = NoCall
      /\ UNCHANGED <<tree, index, tip, head, origin, prs, merged, edits, byHand, tested>>
    BY DEF Link, LinkFails, Abandon, git
<1>2. LinksAreReal'
    <2>1. CASE Link(row)
        <3>1. \E pr \in prs : pr.branch = job.branch
            BY <2>1 DEF Link, ReviewInv, Linked
        <3>2. \A link \in links' : \/ link \in links
                                   \/ link.row \in Filed /\ link.branch = job.branch
            BY <2>1 DEF Link, Record
        <3> QED BY <1>1, <3>1, <3>2 DEF ReviewInv, Linked, LinksAreReal
    <2>2. CASE LinkFails(row) \/ Abandon
        BY <1>1, <2>2 DEF LinkFails, Abandon, ReviewInv, Linked,
                          LinksAreReal
    <2> QED BY <2>1, <2>2
<1> QED BY <1>1, <1>2, ReviewEnds
------------------------------------------------------------------------------
(* The commands *)

\* A new branch holds what the checkout stood on, and no one else has it.
LEMMA ReviewCheckout ==
    ASSUME ReviewInv, Checkout
    PROVE  ReviewInv'
<1> USE DEF Checkout
<1> DEFINE left == Differing(index, tip[head])
<1>1. job \in Requests
    BY ReviewSteps DEF ReviewInv
<1>2. /\ job' \in Requests /\ job'.step = "add" /\ job'.branch = job.branch
      /\ job'.paths = job.paths /\ job'.leftover = left
    <2>1. left \in SUBSET Files
        BY DEF Differing
    <2>2. /\ job' = [job EXCEPT !.step = "add", !.leftover = left]
          /\ job' = [step |-> "add", paths |-> job.paths, branch |-> job.branch,
                     leftover |-> left]
        BY <1>1 DEF Requests
    <2> HIDE DEF left
    <2> QED BY <1>1, <2>1, <2>2 DEF Requests
<1>3. /\ DOMAIN tip' = DOMAIN tip \cup {job.branch} /\ head' = job.branch
      /\ tip'[job.branch] = tip[head]
      /\ \A b \in DOMAIN tip : tip'[b] = tip[b]
      /\ tip' \in [DOMAIN tip' -> Snapshots]
    BY DEF Forked, ReviewInv, RepositoryOK
<1>4. head \in DOMAIN tip /\ Main \in DOMAIN tip /\ job.branch \notin DOMAIN origin
    BY DEF ReviewInv, RepositoryOK
<1>5. RepositoryOK'
    BY <1>3, <1>4 DEF ReviewInv, RepositoryOK
<1>6. JobOK' /\ OwnBranch'
    BY <1>2, <1>3, <1>4 DEF JobOK, OwnBranch
<1>7. Gated'
    <2>1. \A f \in Covered(job.paths) : <<f, tree[f]>> \in tested \cup byHand
        BY DEF ReviewInv, Gated
    <2>2. (\A b \in DOMAIN tip : Vouched(tip[b]))'
        BY <1>3, <1>4 DEF ReviewInv, Gated, Vouched
    <2>3. Vouched(index)' /\ (\A b \in DOMAIN origin : Vouched(origin[b]))'
        BY DEF ReviewInv, Gated, Vouched
    <2> QED BY <1>2, <2>1, <2>2, <2>3 DEF Gated
<1>8. Declared'
    <2>1. Kept(index, tip[head], left)
        BY DEF Kept, Differing
    <2>2. Kept(index, tip[head], job.leftover)'
        BY <1>2, <1>3, <2>1 DEF Kept
    <2>3. CommitIsDeclared'
        BY DEF ReviewInv, Declared, CommitIsDeclared, Differing
    <2> QED BY <1>2, <2>2, <2>3 DEF Declared
<1>9. MainIsReviewed' /\ Linked'
    BY <1>2, <1>3, <1>4 DEF ReviewInv, MainIsReviewed, Linked, LinksAreReal
<1> QED BY <1>5, <1>6, <1>7, <1>8, <1>9 DEF ReviewInv

\* What is staged is the declared content that was tested, on top of what was staged.
LEMMA ReviewAdd ==
    ASSUME ReviewInv, Add
    PROVE  ReviewInv'
<1> USE DEF Add, Goto
<1>1. job \in Requests
    BY ReviewSteps DEF ReviewInv
<1>2. /\ job' \in Requests /\ job'.step = "commit" /\ job'.branch = job.branch
      /\ job'.paths = job.paths /\ job'.leftover = job.leftover
    BY <1>1 DEF Requests
<1>3. RepositoryOK'
    BY DEF ReviewInv, RepositoryOK, Snapshots
<1>4. JobOK' /\ OwnBranch'
    BY <1>2 DEF ReviewInv, JobOK, OwnBranch
<1>5. Gated'
    <2>1. \A f \in Covered(job.paths) : <<f, tree[f]>> \in tested \cup byHand
        BY DEF ReviewInv, Gated
    <2>2. Vouched(index)'
        BY <2>1 DEF ReviewInv, Gated, Vouched
    <2>3. /\ (\A b \in DOMAIN tip : Vouched(tip[b]))'
          /\ (\A b \in DOMAIN origin : Vouched(origin[b]))'
        BY DEF ReviewInv, Gated, Vouched
    <2> QED BY <1>2, <2>2, <2>3 DEF Gated
<1>6. Declared'
    <2>1. Kept(index, tip[head], job.leftover)
        BY DEF ReviewInv, Declared
    <2>2. Kept(index, tip[head], Covered(job.paths) \cup job.leftover)'
        BY <1>2, <2>1 DEF Kept
    <2>3. CommitIsDeclared'
        BY DEF ReviewInv, Declared, CommitIsDeclared, Differing
    <2> QED BY <1>2, <2>2, <2>3 DEF Declared
<1>7. MainIsReviewed' /\ Linked'
    BY <1>2 DEF ReviewInv, MainIsReviewed, Linked, LinksAreReal
<1> QED BY <1>3, <1>4, <1>5, <1>6, <1>7 DEF ReviewInv

\* A commit moves the call's own branch, never main.
LEMMA ReviewCommit ==
    ASSUME ReviewInv, Commit
    PROVE  ReviewInv'
<1> USE DEF Commit
<1>1. job \in Requests /\ head = job.branch /\ head \in DOMAIN tip /\ head # Main
    BY ReviewSteps, SelfModAssumption
       DEF ReviewInv, OwnBranch, RepositoryOK, Requests, Main
<1>2. /\ job'.step = "push" /\ job'.branch = job.branch /\ job'.parent = tip[head]
      /\ job'.paths = job.paths /\ job'.leftover = job.leftover
    OBVIOUS
<1>3. job' \in Commits
    BY <1>1 DEF ReviewInv, RepositoryOK, Requests, Commits
<1>4. /\ DOMAIN tip' = DOMAIN tip /\ tip'[head] = index
      /\ \A b \in DOMAIN tip \ {head} : tip'[b] = tip[b]
      /\ tip' \in [DOMAIN tip' -> Snapshots]
    BY <1>1 DEF ReviewInv, RepositoryOK
<1>5. RepositoryOK'
    BY <1>4 DEF ReviewInv, RepositoryOK
<1>6. JobOK' /\ OwnBranch'
    BY <1>1, <1>2, <1>3 DEF ReviewInv, JobOK, OwnBranch
<1>7. Gated'
    <2>1. (\A b \in DOMAIN tip : Vouched(tip[b]))'
        BY <1>4 DEF ReviewInv, Gated, Vouched
    <2>2. Vouched(index)' /\ (\A b \in DOMAIN origin : Vouched(origin[b]))'
        BY DEF ReviewInv, Gated, Vouched
    <2> QED BY <1>2, <2>1, <2>2 DEF Gated
<1>8. Declared'
    <2>1. Kept(index, tip[head], Covered(job.paths) \cup job.leftover)
        BY DEF ReviewInv, Declared
    <2>2. Kept(tip[job.branch], job.parent, Covered(job.paths) \cup job.leftover)'
        BY <1>1, <1>2, <1>4, <2>1 DEF Kept
    <2>3. CommitIsDeclared'
        BY DEF ReviewInv, Declared, CommitIsDeclared, Differing
    <2> QED BY <1>2, <2>2, <2>3 DEF Declared
<1>9. MainIsReviewed' /\ Linked'
    <2>1. tip'[Main] = tip[Main]
        BY <1>1, <1>4 DEF ReviewInv, RepositoryOK
    <2> QED BY <1>2, <2>1 DEF ReviewInv, MainIsReviewed, Linked, LinksAreReal
<1> QED BY <1>5, <1>6, <1>7, <1>8, <1>9 DEF ReviewInv

\* A push makes a branch known that was not, and changes no other.
LEMMA ReviewPush ==
    ASSUME ReviewInv, Push
    PROVE  ReviewInv' /\ \A b \in DOMAIN origin : origin'[b] = origin[b]
<1> USE DEF Push, Goto, git
<1>1. /\ job \in Commits /\ job.branch \in DOMAIN tip /\ job.branch # Main
      /\ job.branch \notin DOMAIN origin
    BY ReviewSteps, SelfModAssumption
       DEF ReviewInv, OwnBranch, RepositoryOK, Commits, Main
<1>2. /\ job' \in Commits /\ job'.step = "pr" /\ job'.branch = job.branch
      /\ job'.parent = job.parent /\ job'.paths = job.paths /\ job'.leftover = job.leftover
    BY <1>1 DEF Commits
<1>3. /\ DOMAIN origin' = DOMAIN origin \cup {job.branch}
      /\ origin'[job.branch] = tip[job.branch]
      /\ \A b \in DOMAIN origin : origin'[b] = origin[b]
      /\ origin' \in [DOMAIN origin' -> Snapshots]
    BY <1>1 DEF ReviewInv, RepositoryOK
<1>4. RepositoryOK'
    BY <1>1, <1>3 DEF ReviewInv, RepositoryOK
<1>5. JobOK' /\ OwnBranch'
    BY <1>2, <1>3 DEF ReviewInv, JobOK, OwnBranch
<1>6. Gated'
    <2>1. (\A b \in DOMAIN origin : Vouched(origin[b]))'
        BY <1>1, <1>3 DEF ReviewInv, Gated, Vouched
    <2>2. Vouched(index)' /\ (\A b \in DOMAIN tip : Vouched(tip[b]))'
        BY DEF ReviewInv, Gated, Vouched
    <2> QED BY <1>2, <2>1, <2>2 DEF Gated
<1>7. Declared'
    <2>1. Kept(tip[job.branch], job.parent, Covered(job.paths) \cup job.leftover)'
        BY <1>2 DEF ReviewInv, Declared, Kept
    <2>2. CommitIsDeclared'
        BY <1>3 DEF ReviewInv, RepositoryOK, Declared, CommitIsDeclared,
                    Differing
    <2> QED BY <1>2, <2>1, <2>2 DEF Declared
<1>8. MainIsReviewed'
    <2>1. origin'[Main] = origin[Main]
        BY <1>3 DEF ReviewInv, RepositoryOK
    <2>2. \A pr \in merged : origin'[pr.branch] = origin[pr.branch]
        BY <1>3 DEF ReviewInv, RepositoryOK
    <2>3. {tip[Main], origin[Main]}' = {tip[Main], origin[Main]}
        BY <2>1 DEF Main
    <2>4. merged' = merged
        OBVIOUS
    <2>5. MainIsReviewed
        BY DEF ReviewInv
    <2> HIDE DEF Push
    <2> QED BY <2>2, <2>3, <2>4, <2>5 DEF MainIsReviewed
<1>9. Linked'
    BY <1>2 DEF ReviewInv, Linked, LinksAreReal
<1> QED BY <1>3, <1>4, <1>5, <1>6, <1>7, <1>8, <1>9 DEF ReviewInv

\* The pull request shows what was pushed, against what the branch held before.
LEMMA ReviewCreatePr ==
    ASSUME ReviewInv, CreatePr
    PROVE  ReviewInv'
<1> USE DEF CreatePr, Goto, git
<1> DEFINE pr == [branch |-> job.branch, paths |-> job.paths, parent |-> job.parent,
                  base |-> origin[Main], leftover |-> job.leftover]
<1>1. /\ job \in Commits /\ job.branch \in DOMAIN origin
      /\ origin[job.branch] = tip[job.branch]
    BY ReviewSteps DEF ReviewInv, OwnBranch
<1>2. job' \in Commits /\ job'.step = "link" /\ job'.branch = job.branch
    BY <1>1 DEF Commits
<1>3. prs' = prs \cup {pr} /\ pr \in PullRequests
    BY <1>1 DEF ReviewInv, RepositoryOK, Commits, PullRequests
<1>4. /\ pr.branch = job.branch /\ pr.paths = job.paths /\ pr.parent = job.parent
      /\ pr.leftover = job.leftover
    OBVIOUS
<1> HIDE DEF pr
<1>5. RepositoryOK'
    BY <1>1, <1>3, <1>4 DEF ReviewInv, RepositoryOK
<1>6. JobOK' /\ OwnBranch'
    BY <1>2 DEF ReviewInv, JobOK, OwnBranch
<1>7. Gated'
    BY <1>2 DEF ReviewInv, Gated, Vouched
<1>8. Declared'
    <2>1. Kept(tip[job.branch], job.parent, Covered(job.paths) \cup job.leftover)
        BY DEF ReviewInv, Declared
    <2>2. \A f \in Differing(origin[pr.branch], pr.parent) \ (Covered(pr.paths) \cup pr.leftover) :
              <<f, origin[pr.branch][f]>> \in byHand
        BY <1>1, <1>4, <2>1 DEF Kept, Differing
    <2>3. CommitIsDeclared'
        BY <1>3, <2>2 DEF ReviewInv, Declared, CommitIsDeclared, Differing
    <2> QED BY <1>2, <2>3 DEF Declared
<1>9. MainIsReviewed' /\ Linked'
    BY <1>2, <1>3, <1>4 DEF ReviewInv, MainIsReviewed, Linked, LinksAreReal
<1> QED BY <1>5, <1>6, <1>7, <1>8, <1>9 DEF ReviewInv
------------------------------------------------------------------------------
(* By hand *)

\* An edit while a call runs is on record as made by hand.
LEMMA ReviewEdit ==
    ASSUME ReviewInv, NEW f \in Files, Edit(f)
    PROVE  ReviewInv'
<1> USE DEF Edit
<1>1. RepositoryOK'
    BY DEF ReviewInv, RepositoryOK, Snapshots
<1>2. JobOK' /\ OwnBranch'
    BY DEF ReviewInv, JobOK, OwnBranch
<1>3. byHand \subseteq byHand'
    OBVIOUS
<1>4. Gated'
    <2>1. ASSUME job.step \in {"plan", "checkout", "add"}, NEW g \in Covered(job.paths)
          PROVE  <<g, tree'[g]>> \in tested \cup byHand'
        <3>1. job # NoCall
            BY <2>1 DEF NoCall
        <3>2. CASE g = f
            BY <3>1, <3>2 DEF ReviewInv, RepositoryOK, Snapshots
        <3>3. CASE g # f
            BY <2>1, <3>3, <1>3 DEF ReviewInv, RepositoryOK, Snapshots, Gated
        <3> QED BY <3>2, <3>3
    <2>2. /\ Vouched(index)' /\ (\A b \in DOMAIN tip : Vouched(tip[b]))'
          /\ (\A b \in DOMAIN origin : Vouched(origin[b]))'
        BY <1>3 DEF ReviewInv, Gated, Vouched
    <2> QED BY <2>1, <2>2 DEF Gated
<1>5. Declared'
    <2>1. CommitIsDeclared'
        BY <1>3 DEF ReviewInv, Declared, CommitIsDeclared, Differing
    <2>2. /\ (job.step = "add" => Kept(index, tip[head], job.leftover))'
          /\ (job.step = "commit" => Kept(index, tip[head], Covered(job.paths) \cup job.leftover))'
          /\ (job.step \in {"push", "pr"} =>
                  Kept(tip[job.branch], job.parent, Covered(job.paths) \cup job.leftover))'
        BY <1>3 DEF ReviewInv, Declared, Kept
    <2> QED BY <2>1, <2>2 DEF Declared
<1>6. MainIsReviewed' /\ Linked'
    BY DEF ReviewInv, MainIsReviewed, Linked, LinksAreReal
<1> QED BY <1>1, <1>2, <1>4, <1>5, <1>6 DEF ReviewInv

LEMMA ReviewStage ==
    ASSUME ReviewInv, NEW f \in Files, Stage(f)
    PROVE  ReviewInv'
<1> USE DEF Stage
<1>1. /\ byHand \subseteq byHand' /\ <<f, tree[f]>> \in byHand'
      /\ index' = [index EXCEPT ![f] = tree[f]]
    OBVIOUS
<1>2. /\ index' \in Snapshots /\ index'[f] = tree[f]
      /\ \A g \in Files \ {f} : index'[g] = index[g]
    BY DEF ReviewInv, RepositoryOK, Snapshots
<1>3. RepositoryOK'
    BY <1>2 DEF ReviewInv, RepositoryOK
<1>4. JobOK' /\ OwnBranch'
    BY DEF ReviewInv, JobOK, OwnBranch
<1>5. Gated'
    <2>1. Vouched(index)'
        BY <1>1, <1>2 DEF ReviewInv, Gated, Vouched
    <2>2. /\ (\A b \in DOMAIN tip : Vouched(tip[b]))'
          /\ (\A b \in DOMAIN origin : Vouched(origin[b]))'
        BY <1>1 DEF ReviewInv, Gated, Vouched
    <2>3. (job.step \in {"plan", "checkout", "add"} =>
               \A g \in Covered(job.paths) : <<g, tree[g]>> \in tested \cup byHand)'
        BY <1>1 DEF ReviewInv, Gated
    <2> QED BY <2>1, <2>2, <2>3 DEF Gated
<1>6. Declared'
    <2>1. CommitIsDeclared'
        BY <1>1 DEF ReviewInv, Declared, CommitIsDeclared, Differing
    <2>2. /\ (job.step = "add" => Kept(index, tip[head], job.leftover))'
          /\ (job.step = "commit" => Kept(index, tip[head], Covered(job.paths) \cup job.leftover))'
        BY <1>1, <1>2 DEF ReviewInv, Declared, Kept
    <2>3. (job.step \in {"push", "pr"} =>
               Kept(tip[job.branch], job.parent, Covered(job.paths) \cup job.leftover))'
        BY <1>1 DEF ReviewInv, Declared, Kept
    <2> QED BY <2>1, <2>2, <2>3 DEF Declared
<1>7. MainIsReviewed' /\ Linked'
    BY DEF ReviewInv, MainIsReviewed, Linked, LinksAreReal
<1> QED BY <1>3, <1>4, <1>5, <1>6, <1>7 DEF ReviewInv

\* Between calls the checkout goes from commit to commit.
LEMMA ReviewReset ==
    ASSUME ReviewInv, BackToMain \/ Discard
    PROVE  ReviewInv'
<1>1. /\ job.step = "idle"
      /\ UNCHANGED <<tip, origin, prs, merged, links, job, edits, tested, byHand>>
    BY DEF BackToMain, Discard, NoCall
<1>2. /\ head' \in DOMAIN tip /\ tree' \in Snapshots /\ index' \in Snapshots
      /\ \A f \in Files : \/ index'[f] = index[f]
                          \/ \E b \in DOMAIN tip : index'[f] = tip[b][f]
    <2>1. /\ head \in DOMAIN tip /\ Main \in DOMAIN tip
          /\ \A b \in DOMAIN tip : tip[b] \in Snapshots
          /\ tree \in Snapshots /\ index \in Snapshots
        BY DEF ReviewInv, RepositoryOK
    <2>2. CASE Discard
        BY <2>1, <2>2 DEF Discard
    <2>3. CASE BackToMain
        <3> DEFINE moving == Differing(tip[head], tip[Main])
        <3>1. /\ head' = Main
              /\ tree' = [f \in Files |-> IF f \in moving THEN tip[Main][f] ELSE tree[f]]
              /\ index' = [f \in Files |-> IF f \in moving THEN tip[Main][f]
                                           ELSE index[f]]
            BY <2>3 DEF BackToMain
        <3> HIDE DEF moving
        <3> QED BY <2>1, <3>1 DEF Snapshots
    <2> QED BY <2>2, <2>3
<1>3. RepositoryOK'
    BY <1>1, <1>2 DEF ReviewInv, RepositoryOK
<1>4. JobOK' /\ OwnBranch'
    BY <1>1 DEF ReviewInv, JobOK, OwnBranch
<1>5. Gated'
    <2>1. Vouched(index)'
        BY <1>1, <1>2 DEF ReviewInv, Gated, Vouched
    <2> QED BY <1>1, <2>1 DEF ReviewInv, Gated, Vouched
<1>6. Declared'
    BY <1>1 DEF ReviewInv, Declared, CommitIsDeclared, Differing
<1>7. MainIsReviewed' /\ Linked'
    BY <1>1 DEF ReviewInv, MainIsReviewed, Linked, LinksAreReal
<1> QED BY <1>3, <1>4, <1>5, <1>6, <1>7 DEF ReviewInv

\* A merge brings main what the pull request's branch holds, and leaves every branch up
\* for review alone.
LEMMA ReviewMerge ==
    ASSUME ReviewInv, NEW pr \in prs, NEW state,
           Merge(pr, state)
    PROVE  /\ ReviewInv'
           /\ \A b \in DOMAIN origin \ {Main} : origin'[b] = origin[b]
<1> DEFINE brought == Differing(origin[pr.branch], pr.base)
           now == [f \in Files |-> IF f \in brought THEN origin[pr.branch][f]
                                   ELSE origin[Main][f]]
<1>1. /\ job.step = "idle" /\ merged' = merged \cup {pr}
      /\ UNCHANGED <<tree, index, head, prs, links, job, edits, tested, byHand>>
    BY DEF Merge, NoCall
<1>2. /\ Main \in DOMAIN origin /\ DOMAIN origin \subseteq DOMAIN tip
      /\ pr.branch \in DOMAIN origin /\ pr.branch # Main
      /\ \A b \in DOMAIN origin : origin[b] \in Snapshots
    BY SelfModAssumption DEF ReviewInv, RepositoryOK, PullRequests, Main
<1>3. now \in Snapshots
    BY <1>2 DEF Snapshots
<1>4. origin' = [origin EXCEPT ![Main] = now] /\ tip' = [tip EXCEPT ![Main] = origin'[Main]]
    BY DEF Merge
<1>5. \A f \in Files : now[f] \in {origin[pr.branch][f], origin[Main][f]}
    OBVIOUS
<1> HIDE DEF now
<1>6. /\ DOMAIN origin' = DOMAIN origin /\ origin'[Main] = now
      /\ \A b \in DOMAIN origin \ {Main} : origin'[b] = origin[b]
      /\ origin' \in [DOMAIN origin' -> Snapshots]
    BY <1>2, <1>3, <1>4 DEF ReviewInv, RepositoryOK
<1>7. /\ DOMAIN tip' = DOMAIN tip /\ tip'[Main] = now
      /\ \A b \in DOMAIN tip \ {Main} : tip'[b] = tip[b]
      /\ tip' \in [DOMAIN tip' -> Snapshots]
    BY <1>2, <1>3, <1>4, <1>6 DEF ReviewInv, RepositoryOK
<1>8. \A p \in prs : p.branch \in DOMAIN origin /\ p.branch # Main
    BY SelfModAssumption DEF ReviewInv, RepositoryOK, PullRequests, Main
<1>9. \A p \in prs : origin'[p.branch] = origin[p.branch]
    BY <1>6, <1>8
<1>10. RepositoryOK'
    BY <1>1, <1>6, <1>7 DEF ReviewInv, RepositoryOK
<1>11. JobOK' /\ OwnBranch'
    BY <1>1 DEF ReviewInv, JobOK, OwnBranch
<1>12. Gated'
    <2>1. Vouched(now)
        BY <1>2, <1>5 DEF ReviewInv, Gated, Vouched
    <2>2. /\ \A b \in DOMAIN tip' : Vouched(tip'[b])
          /\ \A b \in DOMAIN origin' : Vouched(origin'[b])
        BY <1>6, <1>7, <2>1 DEF ReviewInv, Gated
    <2> QED BY <1>1, <2>2 DEF ReviewInv, Gated, Vouched
<1>13. Declared'
    <2>1. CommitIsDeclared'
        BY <1>1, <1>9 DEF ReviewInv, Declared, CommitIsDeclared, Differing
    <2> QED BY <1>1, <2>1 DEF Declared
<1>14. MainIsReviewed'
    <2>1. \A f \in Files : now[f] # 0 =>
              \E p \in merged' : origin'[p.branch][f] = now[f]
        <3> SUFFICES ASSUME NEW f \in Files, now[f] # 0
                     PROVE  \E p \in merged' : origin'[p.branch][f] = now[f]
            OBVIOUS
        <3>1. CASE now[f] = origin[pr.branch][f]
            BY <1>1, <1>9, <3>1
        <3>2. CASE now[f] = origin[Main][f]
            <4>1. PICK p \in merged : origin[p.branch][f] = now[f]
                BY <3>2 DEF ReviewInv, MainIsReviewed, Main
            <4> QED BY <1>1, <1>9, <4>1 DEF ReviewInv, RepositoryOK
        <3> QED BY <1>5, <3>1, <3>2
    <2>2. {tip[Main], origin[Main]}' = {now}
        BY <1>6, <1>7 DEF Main
    <2> QED BY <2>1, <2>2 DEF MainIsReviewed, Main
<1>15. Linked'
    BY <1>1 DEF ReviewInv, Linked, LinksAreReal
<1> QED BY <1>6, <1>10, <1>11, <1>12, <1>13, <1>14, <1>15 DEF ReviewInv, Main
------------------------------------------------------------------------------
(* Every step *)

\* What a step of the pipeline or of the operator leaves behind, and the branches it
\* does not touch.
LEMMA ReviewStep ==
    ASSUME ReviewInv, [ModNext]_modVars
    PROVE  /\ ReviewInv'
           /\ \A b \in DOMAIN origin \ {Main} : origin'[b] = origin[b]
<1>1. ASSUME NEW paths \in SUBSET Pathspecs, NEW branch \in Branches \cup {Main},
             Propose(paths, branch)
      PROVE  ReviewInv' /\ origin' = origin
    BY <1>1, ReviewPropose DEF Propose, Paths
<1>2. ASSUME NEW green \in BOOLEAN, Gate(green)
      PROVE  ReviewInv' /\ origin' = origin
    BY <1>2, ReviewGate DEF Gate
<1>3. ASSUME NEW dry \in BOOLEAN, Plan(dry)
      PROVE  ReviewInv' /\ origin' = origin
    BY <1>3, ReviewPlan DEF Plan
<1>4. CASE Checkout
    BY <1>4, ReviewCheckout DEF Checkout
<1>5. CASE Add
    BY <1>5, ReviewAdd DEF Add
<1>6. CASE Commit
    BY <1>6, ReviewCommit DEF Commit
<1>7. CASE Push
    BY <1>7, ReviewPush
<1>8. CASE CreatePr
    BY <1>8, ReviewCreatePr DEF CreatePr
<1>9. ASSUME NEW row \in Provenances, Link(row) \/ LinkFails(row) \/ Abandon
      PROVE  ReviewInv' /\ origin' = origin
    BY <1>9, ReviewLink DEF Link, LinkFails, Abandon
<1>14. CASE Abandon
    BY <1>9, <1>14 DEF Provenances
<1>10. ASSUME NEW f \in Files, Edit(f) \/ Stage(f)
       PROVE  ReviewInv' /\ origin' = origin
    BY <1>10, ReviewEdit, ReviewStage DEF Edit, Stage
<1>11. CASE BackToMain \/ Discard
    BY <1>11, ReviewReset DEF BackToMain, Discard
<1>12. ASSUME NEW pr \in prs, NEW state \in {"pass", "fail", "missing"},
              Merge(pr, state)
       PROVE  /\ ReviewInv'
              /\ \A b \in DOMAIN origin \ {Main} : origin'[b] = origin[b]
    BY <1>12, ReviewMerge
<1>13. CASE UNCHANGED modVars
    <2>1. UNCHANGED <<tree, index, tip, head, origin, prs, merged, links, job, edits, tested,
                      byHand>>
        BY <1>13 DEF modVars
    <2>2. OwnBranch' /\ JobOK' /\ Linked'
        BY <2>1 DEF ReviewInv, OwnBranch, JobOK, Linked, LinksAreReal
    <2>3. Gated' /\ Declared'
        BY <2>1, ReviewStill DEF ReviewInv, Gated, Declared, Kept
    <2> QED BY <2>1, <2>2, <2>3, ReviewStill DEF ReviewInv
<1> QED BY <1>1, <1>2, <1>3, <1>4, <1>5, <1>6, <1>7, <1>8, <1>9, <1>10, <1>11, <1>12,
        <1>13, <1>14 DEF ModNext, Pipeline, ByHand

\* For any files, pathspecs, branches, provenances and number of edits: whatever is on origin
\* was matched by a declared, unprotected path and tested as it is, or put there by hand; a
\* pull request's commit holds what its declared paths match and what was staged by hand or
\* before it; main holds only what merged pull requests brought; every link leads from a real
\* row to a real pull request; and a branch once pushed never changes, whichever command
\* fails and whatever is edited or staged meanwhile.
THEOREM ReviewCanBeTrusted == ModSpec => ReviewHolds
<1>1. ModInit => ReviewInv
    BY ReviewInit
<1>2. ReviewInv /\ [ModNext]_modVars => ReviewInv'
    BY ReviewStep
<1>3. /\ ReviewInv /\ [ModNext]_modVars
      => [\A b \in DOMAIN origin \ {Main} : origin'[b] = origin[b]]_modVars
    BY ReviewStep
<1>4. ReviewInv => /\ OnlyGatedLeaves /\ CommitIsDeclared
                   /\ MainIsReviewed /\ LinksAreReal
    BY DEF ReviewInv, Gated, Vouched, Declared, Linked, OnlyGatedLeaves
<1> QED BY <1>1, <1>2, <1>3, <1>4, PTL
        DEF ModSpec, ReviewHolds, ReviewedIsFinal
==============================================================================
