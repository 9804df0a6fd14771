----------------------------- MODULE ProposalGate -----------------------------
(***************************************************************************)
(* The human-approval gate: proposals wait as 'pending' rows until an      *)
(* operator decides them, through the web UI (Controller.decide_proposal,  *)
(* one thread per request) or by a chat command (CommsApprovalRunner, in   *)
(* the engine's thread).  An approval is committed first and applied in a  *)
(* second transaction; either may find the database locked, and the        *)
(* process may die in between.                                             *)
(***************************************************************************)
EXTENDS Integers, Sequences

CONSTANTS
    Proposals, Strategies, Versions,
    Payloads,       \* by proposal, what it may ask for
    Handlers,       \* threads of the web server
    comms,          \* the chat poller, a decider like the handlers
    NoVersion,
    ReadLimit,      \* messages a poll is given at most (20)
    MaxMessages, MaxCrashes     \* bounds

ASSUME GateAssumption ==
    /\ comms \notin Handlers
    /\ NoVersion \notin Versions
    \* What apply() tells apart: the wired kind with clean rules, or not.
    /\ Payloads \subseteq [Proposals -> [strategy : Strategies, version : Versions,
                                         appliable : BOOLEAN]]
    /\ ReadLimit \in Nat \ {0} /\ MaxMessages \in Nat /\ MaxCrashes \in Nat

Deciders == Handlers \cup {comms}

VARIABLES
    status,     \* proposals.status, "none" before the row exists
    payload,    \* proposals.strategy / payload_json
    applied,    \* proposals.applied_ts is set
    playbooks,  \* rows of playbooks: strategy, version, parent, retired
    task,       \* by decider: what its thread is doing, and on which proposal
    inbox,      \* the channel: commands, and what the bot itself posts, oldest first
    cursor,     \* state['comms_after_id']: messages done with
    at, upto,   \* the poll under way: next message and last of its batch
    missed,     \* history: how many messages were too old for the read without a cursor
    crashes,
    refused     \* history: proposals the chat could not decide, or an approver could
                \* not apply, because the ledger was locked

rows == <<status, payload, applied, playbooks>>
chat == <<inbox, cursor, at, upto, missed>>
vars == <<rows, task, chat, crashes, refused>>

Idle == [step |-> "idle"]
Commands == [verb : {"approve", "reject"}, proposal : Proposals]
BotPost == [verb |-> "post"]

Init ==
    /\ status = [p \in Proposals |-> "none"]
    /\ payload \in Payloads
    /\ applied = [p \in Proposals |-> FALSE]
    /\ playbooks = {}
    /\ task = [d \in Deciders |-> Idle]
    /\ inbox = <<>> /\ cursor = 0 /\ at = 0 /\ upto = 0 /\ missed = 0
    /\ crashes = 0 /\ refused = {}

Done(d) == task' = [task EXCEPT ![d] = Idle]

\* create_proposal, by reflection, research, calibration or rollback.
File(p) ==
    /\ status[p] = "none"
    /\ status' = [status EXCEPT ![p] = "pending"]
    /\ UNCHANGED <<payload, applied, playbooks, task, chat, crashes, refused>>

------------------------------------------------------------------------------
(* Deciding: UPDATE ... WHERE status = 'pending', committed by itself *)

Known(p) == status[p] # "none"      \* mutant: UPDATE ... WHERE id = ? alone
Undecided(p) == status[p] = "pending"

Decide(d, verb, p) ==
    /\ task[d] = Idle
    /\ IF ~Undecided(p)
       THEN Done(d) /\ UNCHANGED status
       ELSE IF verb = "reject"
       THEN /\ status' = [status EXCEPT ![p] = "rejected"]
            /\ Done(d)
       ELSE /\ status' = [status EXCEPT ![p] = "approved"]
            /\ task' = [task EXCEPT ![d] = [step |-> "read", proposal |-> p]]
    /\ UNCHANGED <<payload, applied, playbooks, crashes, refused>>

\* The UPDATE waits out busy_timeout and raises OperationalError.
DecideBusy(d, p) ==
    /\ task[d] = Idle
    /\ refused' = IF d = comms THEN refused \cup {p} ELSE refused
    /\ UNCHANGED <<rows, task, crashes>>

WebDecide(h) ==
    /\ \E c \in Commands : Decide(h, c.verb, c.proposal) \/ DecideBusy(h, c.proposal)
    /\ UNCHANGED chat

------------------------------------------------------------------------------
(* ProposalApplier.apply *)

\* mutant: the chat approves without applying
ReadForApplyWebOnly(d) ==
    /\ task[d].step = "read"
    /\ IF d # comms /\ payload[task[d].proposal].appliable
       THEN task' = [task EXCEPT ![d].step = "apply"]
       ELSE Done(d)
    /\ UNCHANGED <<rows, chat, crashes, refused>>

\* Its own look at the row, outside any transaction.
ReadForApply(d) ==
    /\ task[d].step = "read"
    /\ LET p == task[d].proposal IN
       IF status[p] = "approved" /\ ~applied[p] /\ payload[p].appliable
       THEN task' = [task EXCEPT ![d].step = "apply"]
       ELSE Done(d)
    /\ UNCHANGED <<rows, chat, crashes, refused>>

\* latest_playbook: the strategy's row that is not retired.
Active(s) == {b \in playbooks : b.strategy = s /\ ~b.retired}
\* mutant: the active version of any strategy
ParentOfAny(s) ==
    IF playbooks = {} THEN NoVersion
                      ELSE (CHOOSE b \in playbooks : ~b.retired).version
Parent(s) == IF Active(s) = {} THEN NoVersion ELSE (CHOOSE b \in Active(s) : TRUE).version

NoneRetired(v) == playbooks      \* mutant: publishes beside the active version
Retired(v) == {[b EXCEPT !.retired = b.retired \/ b.version = v] : b \in playbooks}

Applicable(p) == status[p] = "approved" /\ ~applied[p]

\* mutant: stamps the proposal although its version is already published
ApplyOrIgnore(d) ==
    /\ task[d].step = "apply"
    /\ LET p == task[d].proposal
           b == [strategy |-> payload[p].strategy, version |-> payload[p].version,
                 parent |-> Parent(payload[p].strategy), retired |-> FALSE]
       IN /\ playbooks' = IF payload[p].version \in {c.version : c \in playbooks}
                          THEN playbooks ELSE Retired(b.parent) \cup {b}
          /\ applied' = [applied EXCEPT ![p] = TRUE]
          /\ Done(d)
    /\ UNCHANGED <<status, payload, chat, crashes, refused>>

\* apply_playbook_proposal, one BEGIN IMMEDIATE transaction: re-verify, publish with
\* the active version as parent, retire that one, stamp the proposal.
Apply(d) ==
    /\ task[d].step = "apply"
    /\ LET p == task[d].proposal
           s == payload[p].strategy
           v == payload[p].version
       IN IF Applicable(p) /\ v \notin {b.version : b \in playbooks}
          THEN /\ playbooks' = Retired(Parent(s)) \cup
                      {[strategy |-> s, version |-> v, parent |-> Parent(s),
                        retired |-> FALSE]}
               /\ applied' = [applied EXCEPT ![p] = TRUE]
               /\ Done(d)
          ELSE /\ Done(d)
               /\ UNCHANGED <<playbooks, applied>>
    /\ UNCHANGED <<status, payload, chat, crashes, refused>>

ApplyBusy(d) ==
    /\ task[d].step = "apply"
    /\ refused' = refused \cup {task[d].proposal}
    /\ Done(d)
    /\ UNCHANGED <<rows, chat, crashes>>

------------------------------------------------------------------------------
(* The chat *)

\* The operator names a proposal he has been shown.
Send(c) ==
    /\ Len(inbox) < MaxMessages /\ status[c.proposal] # "none"
    /\ inbox' = Append(inbox, c)
    /\ UNCHANGED <<rows, task, cursor, at, upto, missed, crashes, refused>>

\* Replies and alerts go to the same channel.
Narrate ==
    /\ Len(inbox) < MaxMessages /\ inbox' = Append(inbox, BotPost)
    /\ UNCHANGED <<rows, task, cursor, at, upto, missed, crashes, refused>>

\* comms.read: the messages after the cursor, ReadLimit at most, or without a cursor the
\* newest ones; what bots posted is dropped only then.
Before == IF cursor > 0 THEN cursor
          ELSE IF Len(inbox) > ReadLimit THEN Len(inbox) - ReadLimit ELSE 0
Read == {i \in Before + 1 .. Len(inbox) : i <= Before + ReadLimit /\ inbox[i] # BotPost}

\* mutant: the cursor moves as the batch is read
PollAndMove ==
    /\ at = 0 /\ \E last \in Read : (\A i \in Read : i <= last) /\ upto' = last
    /\ at' = Before + 1 /\ cursor' = upto' /\ missed' = IF cursor = 0 THEN Before ELSE missed
    /\ UNCHANGED <<rows, task, inbox, crashes, refused>>

\* poll_once: nothing read, nothing done.  Otherwise it acts on what it read ...
Poll ==
    /\ at = 0 /\ \E last \in Read : (\A i \in Read : i <= last) /\ upto' = last
    /\ at' = Before + 1
    /\ missed' = IF cursor = 0 THEN Before ELSE missed
    /\ UNCHANGED <<rows, task, inbox, cursor, crashes, refused>>

\* ... command by command, swallowing what it raises ...
CommsDecide ==
    /\ at > 0 /\ at <= upto
    /\ IF inbox[at] = BotPost
       THEN UNCHANGED <<rows, task, crashes, refused>>
       ELSE LET c == inbox[at] IN
            Decide(comms, c.verb, c.proposal) \/ DecideBusy(comms, c.proposal)
    /\ at' = at + 1
    /\ UNCHANGED <<inbox, cursor, upto, missed>>

\* ... and moves the cursor past the batch, unless that write is busy: then run
\* swallows the error and the next poll reads the batch again.
SetCursor ==
    /\ at > upto /\ at > 0 /\ task[comms] = Idle
    /\ at' = 0
    /\ cursor' = upto \/ UNCHANGED cursor
    /\ UNCHANGED <<rows, task, inbox, upto, missed, crashes, refused>>

------------------------------------------------------------------------------
\* The process dies: threads and the poll under way are gone.
Crash ==
    /\ crashes < MaxCrashes
    /\ crashes' = crashes + 1
    /\ task' = [d \in Deciders |-> Idle]
    /\ at' = 0
    /\ UNCHANGED <<rows, inbox, cursor, upto, missed, refused>>

Advance(d) == ReadForApply(d) \/ Apply(d) \/ ApplyBusy(d)

Next ==
    \/ \E p \in Proposals : File(p)
    \/ \E h \in Handlers : WebDecide(h)
    \/ \E d \in Deciders : Advance(d)
    \/ (\E c \in Commands : Send(c)) \/ Narrate
    \/ Poll \/ CommsDecide \/ SetCursor
    \/ Crash

\* Threads that have work go on; the engine keeps polling.  People are not fair.
Fairness ==
    /\ \A d \in Deciders : WF_vars(Advance(d))
    /\ WF_vars(Poll) /\ WF_vars(CommsDecide) /\ WF_vars(SetCursor)

Spec == Init /\ [][Next]_vars /\ Fairness

------------------------------------------------------------------------------
(* Properties *)

Playbooks == [strategy : Strategies, version : Versions,
              parent : Versions \cup {NoVersion}, retired : BOOLEAN]

\* Every variable has the type its comment says.
TypeOK ==
    /\ status \in [Proposals -> {"none", "pending", "approved", "rejected"}]
    /\ payload \in Payloads /\ applied \in [Proposals -> BOOLEAN]
    /\ playbooks \subseteq Playbooks
    /\ task \in [Deciders -> {Idle} \cup [step : {"read", "apply"}, proposal : Proposals]]
    /\ inbox \in Seq(Commands \cup {BotPost}) /\ Len(inbox) <= MaxMessages
    /\ cursor \in 0 .. Len(inbox) /\ upto \in 0 .. Len(inbox) /\ at \in 0 .. upto + 1
    /\ missed \in 0 .. Len(inbox)
    /\ crashes \in 0 .. MaxCrashes /\ refused \subseteq Proposals

\* A strategy has at most one playbook in force, so latest_playbook's ORDER BY
\* never has to choose, whoever applies what in which order.
OneActivePlaybook ==
    \A b, c \in playbooks : b.strategy = c.strategy /\ ~b.retired /\ ~c.retired => b = c

\* The playbooks of a strategy form one chain: its versions have different
\* parents (one root among them), each parent is a retired version of the same
\* strategy.
TrueLineage ==
    /\ \A b, c \in playbooks : b.strategy = c.strategy /\ b.parent = c.parent => b = c
    /\ \A b \in playbooks : b.parent # NoVersion =>
          \E c \in playbooks : c.version = b.parent /\ c.strategy = b.strategy /\ c.retired

\* What the applier reads and builds on: one version in force, one history behind it.
OneLineage == OneActivePlaybook /\ TrueLineage

Publishes(p, b) == b.version = payload[p].version /\ b.strategy = payload[p].strategy

\* All or nothing, and never twice: a proposal is stamped applied exactly when it
\* was approved and published a version of its own.
AppliedIffPublished ==
    /\ \A p \in Proposals : applied[p] =>
          /\ status[p] = "approved" /\ payload[p].appliable
          /\ \E b \in playbooks : Publishes(p, b)
          /\ \A q \in Proposals \ {p} : applied[q] => payload[q].version # payload[p].version
    /\ \A b \in playbooks : \E p \in Proposals : applied[p] /\ Publishes(p, b)

\* The first decision stands, whichever of the web's threads and the chat made it.
DecisionFinal ==
    [][\A p \in Proposals :
          status[p] \in {"approved", "rejected"} => status'[p] = status[p]]_vars

\* A chat command behind the cursor has had its effect (or came too late to have one): no
\* crash loses it, since the cursor moves last.  A locked ledger does, and so does the read
\* without a cursor: of more than ReadLimit messages it is given the newest, and the cursor
\* then moves past the others.
NoCommandLost ==
    /\ \A i \in missed + 1 .. cursor :
           inbox[i] # BotPost /\ status[inbox[i].proposal] = "pending"
               => inbox[i].proposal \in refused
    /\ missed > 0 => missed + ReadLimit <= Len(inbox)

\* Until a crash, an approval that can take effect does, unless another proposal has
\* taken its version: whoever approved it goes on to apply it.  Only a ledger locked at
\* the apply strands it.
ApprovalTakesEffect ==
    \A p \in Proposals :
        status[p] = "approved" /\ payload[p].appliable /\ crashes = 0
            ~> \/ applied[p] \/ payload[p].version \in {b.version : b \in playbooks}
               \/ crashes > 0 \/ p \in refused
==============================================================================
