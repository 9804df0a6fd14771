---------------------------- MODULE LedgerCommits ----------------------------
(***************************************************************************)
(* PositionManager.open and close at the granularity of their SQLite       *)
(* commits (db.py: set_balance, open_position / close_position,            *)
(* record_trade each commit on their own), with the process dying between  *)
(* any two of them: a kill, or a "database is locked" that leaves          *)
(* process_tick and ends engine.run.  The next run finds what was          *)
(* committed and goes on from there.                                       *)
(***************************************************************************)
EXTENDS Integers, FiniteSets

CONSTANTS
    Strategies,
    Balance,        \* cfg.starting_balance
    Fee,            \* fee of the entry fill
    Nets,           \* what a close may book: pnl - fee
    MaxPositions, MaxCrashes    \* bounds

ASSUME LedgerAssumption ==
    /\ Balance \in Int /\ Fee \in Nat /\ Nets \subseteq Int
    /\ MaxPositions \in Nat /\ MaxCrashes \in Nat

VARIABLES
    wallet,         \* wallets.balance
    status,         \* positions: id -> "none", "open" or "closed"
    owner,          \* positions: id -> strategy
    nextId,
    opens, closes,  \* trades: number of OPEN / CLOSE rows of a position
    booked,         \* trades: sum of pnl by strategy
    pc,             \* next commit of the operation under way, "idle" or "down"
    op,             \* its arguments, in memory only
    crashes,
    torn,           \* history: crashes that cut an operation short
    unbooked        \* history, by strategy: what those operations were to book, added up

ledger == <<wallet, status, owner, nextId, opens, closes, booked>>
vars == <<ledger, pc, op, crashes, torn, unbooked>>

Ids == 1 .. MaxPositions
NoOp == [strategy |-> "none", id |-> 0, net |-> 0]

Init ==
    /\ wallet = [s \in Strategies |-> Balance]
    /\ status = [i \in Ids |-> "none"]
    /\ owner = [i \in Ids |-> "none"]
    /\ nextId = 1
    /\ opens = [i \in Ids |-> 0] /\ closes = [i \in Ids |-> 0]
    /\ booked = [s \in Strategies |-> 0]
    /\ pc = "idle" /\ op = NoOp /\ crashes = 0 /\ torn = 0
    /\ unbooked = booked

\* get_open_position finds the newest open row of the strategy.
OpenIds(s) == {i \in Ids : status[i] = "open" /\ owner[i] = s}
Newest(S) == CHOOSE i \in S : \A j \in S : j <= i

------------------------------------------------------------------------------
(* PositionManager.open: set_balance, open_position, record_trade *)

\* mutant: opens without asking for the open position
OpenWalletAgain(s) ==
    /\ pc = "idle" /\ nextId \in Ids
    /\ wallet' = [wallet EXCEPT ![s] = @ - Fee]
    /\ pc' = "insert" /\ op' = [strategy |-> s, id |-> nextId, net |-> -Fee]
    /\ UNCHANGED <<status, owner, nextId, opens, closes, booked, crashes, torn, unbooked>>

OpenWallet(s) ==
    /\ pc = "idle" /\ OpenIds(s) = {} /\ nextId \in Ids
    /\ wallet' = [wallet EXCEPT ![s] = @ - Fee]
    /\ pc' = "insert" /\ op' = [strategy |-> s, id |-> nextId, net |-> -Fee]
    /\ UNCHANGED <<status, owner, nextId, opens, closes, booked, crashes, torn, unbooked>>

OpenInsert ==
    /\ pc = "insert"
    /\ status' = [status EXCEPT ![op.id] = "open"]
    /\ owner' = [owner EXCEPT ![op.id] = op.strategy]
    /\ nextId' = nextId + 1
    /\ pc' = "openRow"
    /\ UNCHANGED <<wallet, opens, closes, booked, op, crashes, torn, unbooked>>

OpenRow ==
    /\ pc = "openRow"
    /\ opens' = [opens EXCEPT ![op.id] = @ + 1]
    /\ booked' = [booked EXCEPT ![op.strategy] = @ + op.net]
    /\ pc' = "idle" /\ op' = NoOp
    /\ UNCHANGED <<wallet, status, owner, nextId, closes, crashes, torn, unbooked>>

(* PositionManager.close: set_balance, close_position, record_trade *)

CloseWallet(s) ==
    /\ pc = "idle" /\ OpenIds(s) # {}
    /\ \E net \in Nets :
         /\ wallet' = [wallet EXCEPT ![s] = @ + net]
         /\ op' = [strategy |-> s, id |-> Newest(OpenIds(s)), net |-> net]
    /\ pc' = "mark"
    /\ UNCHANGED <<status, owner, nextId, opens, closes, booked, crashes, torn, unbooked>>

\* mutant: returns before the trade is recorded
CloseMarkReturns ==
    /\ pc = "mark"
    /\ status' = [status EXCEPT ![op.id] = "closed"]
    /\ pc' = "idle" /\ op' = NoOp
    /\ UNCHANGED <<wallet, owner, nextId, opens, closes, booked, crashes, torn, unbooked>>

CloseMark ==
    /\ pc = "mark"
    /\ status' = [status EXCEPT ![op.id] = "closed"]
    /\ pc' = "closeRow"
    /\ UNCHANGED <<wallet, owner, nextId, opens, closes, booked, op, crashes, torn, unbooked>>

\* mutant: records the pnl before the fee
CloseRowGross ==
    /\ pc = "closeRow"
    /\ closes' = [closes EXCEPT ![op.id] = @ + 1]
    /\ booked' = [booked EXCEPT ![op.strategy] = @ + op.net + Fee]
    /\ pc' = "idle" /\ op' = NoOp
    /\ UNCHANGED <<wallet, status, owner, nextId, opens, crashes, torn, unbooked>>

CloseRow ==
    /\ pc = "closeRow"
    /\ closes' = [closes EXCEPT ![op.id] = @ + 1]
    /\ booked' = [booked EXCEPT ![op.strategy] = @ + op.net]
    /\ pc' = "idle" /\ op' = NoOp
    /\ UNCHANGED <<wallet, status, owner, nextId, opens, crashes, torn, unbooked>>

------------------------------------------------------------------------------
(* The process dies and comes back: memory is lost, commits are not *)

InFlight == pc \in {"insert", "openRow", "mark", "closeRow"}

Crash ==
    /\ pc # "down" /\ crashes < MaxCrashes
    /\ torn' = IF InFlight THEN torn + 1 ELSE torn
    /\ unbooked' = IF InFlight THEN [unbooked EXCEPT ![op.strategy] = @ + op.net] ELSE unbooked
    /\ pc' = "down" /\ op' = NoOp /\ crashes' = crashes + 1
    /\ UNCHANGED ledger

Restart ==
    /\ pc = "down" /\ pc' = "idle"
    /\ UNCHANGED <<ledger, op, crashes, torn, unbooked>>

Next ==
    \/ \E s \in Strategies : OpenWallet(s) \/ CloseWallet(s)
    \/ OpenInsert \/ OpenRow \/ CloseMark \/ CloseRow
    \/ Crash \/ Restart

Spec == Init /\ [][Next]_vars

------------------------------------------------------------------------------
(* Properties *)

\* Every variable has the type its comment says.
TypeOK ==
    /\ wallet \in [Strategies -> Int] /\ booked \in [Strategies -> Int]
    /\ unbooked \in [Strategies -> Int]
    /\ status \in [Ids -> {"none", "open", "closed"}]
    /\ owner \in [Ids -> Strategies \cup {"none"}]
    /\ nextId \in 1 .. MaxPositions + 1
    /\ opens \in [Ids -> Nat] /\ closes \in [Ids -> Nat]
    /\ pc \in {"idle", "insert", "openRow", "mark", "closeRow", "down"}
    /\ op \in [strategy : Strategies \cup {"none"}, id : Nat, net : Int]
    /\ crashes \in Nat /\ torn \in Nat

\* A retried open or close never leaves a strategy with two open rows, nor a
\* position with two OPEN or two CLOSE trades, nor a closing trade of a position
\* that is still open: what a crash spoils is an amount or a missing row, never a
\* double one.
NeverRecordedTwice ==
    /\ \A i, j \in Ids : /\ status[i] = "open" /\ status[j] = "open"
                         /\ owner[i] = owner[j]
                         => i = j
    /\ \A i \in Ids : /\ opens[i] <= 1 /\ closes[i] <= 1
                      /\ closes[i] = 1 => status[i] = "closed"
                      /\ opens[i] = 1 => status[i] # "none"

\* rebuild_trade_outcomes: one row per position with an OPEN and a CLOSE trade.
Outcomes == {i \in Ids : opens[i] > 0 /\ closes[i] > 0}

Drift(s) == wallet[s] - Balance - booked[s]

\* While no operation has been cut short the wallets are the starting balance plus
\* the trades, and the closed positions are exactly the completed round trips.
WholeLedgerReconciles ==
    torn = 0 /\ ~InFlight =>
        /\ \A s \in Strategies : Drift(s) = 0
        /\ Outcomes = {i \in Ids : status[i] = "closed"}

MissingRows == {i \in Ids : status[i] # "none" /\ opens[i] = 0}
MissingCloses == {i \in Ids : status[i] = "closed" /\ closes[i] = 0}

\* Each crash costs at most one trade row, over any number of retries.
OneRowPerCrash ==
    ~InFlight => Cardinality(MissingRows) + Cardinality(MissingCloses) <= torn

\* Each crash leaves one amount out, for the wallet commit comes first: a wallet is off its
\* trades by what the operations cut short were to book, each once, whatever was retried.
OneAmountPerCrash == ~InFlight => \A s \in Strategies : Drift(s) = unbooked[s]

\* A ledger that no crash has touched reconciles, and one that was touched is short of no
\* more than the crashes explain, in rows and in money.
CrashCost == WholeLedgerReconciles /\ OneRowPerCrash /\ OneAmountPerCrash

\* The promise: seen through the operation under way, every commit is a step of
\* LedgerPromise or a stutter.
Unfinished(s) == IF InFlight /\ s = op.strategy THEN op.net ELSE 0

Held == CASE pc = "openRow"  -> {s \in Strategies : OpenIds(s) # {}} \ {op.strategy}
          [] pc = "closeRow" -> {s \in Strategies : OpenIds(s) # {}} \cup {op.strategy}
          [] OTHER           -> {s \in Strategies : OpenIds(s) # {}}

Promise == INSTANCE LedgerPromise WITH
    wallet <- [s \in Strategies |-> wallet[s] - Unfinished(s)],
    held <- Held

KeepsPromise == Promise!Spec
==============================================================================
