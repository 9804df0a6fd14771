----------------------------- MODULE MemoryLedger -----------------------------
(***************************************************************************)
(* The backtester's in-memory Ledger beside the SQLite one: every call     *)
(* PositionManager makes of its ledger is made of both, so that a backtest *)
(* and a paper run given the same decisions can be compared call by call.  *)
(* A crash ends the backtest, and what it held is gone.                    *)
(***************************************************************************)
EXTENDS LedgerCommits, Sequences

VARIABLES
    balances,       \* _balance
    openBy,         \* _open: strategy -> id of its open position, 0 for none
    memNextId,      \* _next_id
    memTrades       \* trades

memory == <<balances, openBy, memNextId, memTrades>>
bothVars == <<vars, memory>>

NewBalances == [s \in Strategies |-> Balance]
NewOpen == [s \in Strategies |-> 0]

MemInit == balances = NewBalances /\ openBy = NewOpen /\ memNextId = 1 /\ memTrades = <<>>

\* A new backtest starts from nothing.
MemNew == balances' = NewBalances /\ openBy' = NewOpen /\ memNextId' = 1 /\ memTrades' = <<>>

\* set_balance
MemBalance(s, balance) ==
    balances' = [balances EXCEPT ![s] = balance] /\ UNCHANGED <<openBy, memNextId, memTrades>>

\* open_position: the entry of the strategy, whatever it held before.
MemOpen(s) ==
    /\ openBy' = [openBy EXCEPT ![s] = memNextId] /\ memNextId' = memNextId + 1
    /\ UNCHANGED <<balances, memTrades>>

MemCloseKeeps(id) == UNCHANGED memory   \* mutant: marks the position, keeps the entry

\* close_position: the first entry with this id.
MemClose(id) ==
    /\ openBy' = [s \in Strategies |-> IF openBy[s] = id THEN 0 ELSE openBy[s]]
    /\ UNCHANGED <<balances, memNextId, memTrades>>

\* record_trade
MemRecord(action, pnl) ==
    /\ memTrades' = Append(memTrades, [strategy |-> op.strategy, id |-> op.id,
                                       action |-> action, pnl |-> pnl])
    /\ UNCHANGED <<balances, openBy, memNextId>>

BothInit == Init /\ MemInit

\* get_balance, then set_balance, each of its own ledger.
BothNext ==
    \/ \E s \in Strategies :
         /\ OpenWallet(s) \/ CloseWallet(s)
         /\ MemBalance(s, balances[s] + op'.net)
    \/ OpenInsert /\ MemOpen(op.strategy)
    \/ CloseMark /\ MemClose(op.id)
    \/ OpenRow /\ MemRecord("OPEN", op.net)
    \/ CloseRow /\ MemRecord("CLOSE", op.net)
    \/ Crash /\ UNCHANGED memory
    \/ Restart /\ MemNew

BothSpec == BothInit /\ [][BothNext]_bothVars

------------------------------------------------------------------------------
(* Properties *)

MemRows(action, id) ==
    Cardinality({k \in DOMAIN memTrades : memTrades[k].action = action /\ memTrades[k].id = id})

\* The sum of pnl over the trades of a strategy.
Booked(trades, s) ==
    LET sum[k \in 0 .. Len(trades)] ==
            IF k = 0 THEN 0
            ELSE sum[k - 1] + (IF trades[k].strategy = s THEN trades[k].pnl ELSE 0)
    IN  sum[Len(trades)]

MemBooked(s) == Booked(memTrades, s)

\* The two backends are interchangeable: after every single call, of any sequence that no
\* crash cuts short, they hold the same balances, name the same open position of each
\* strategy by the same id, and have the same rows and the same realized sum to report.
SameBooks ==
    crashes = 0 =>
        /\ balances = wallet /\ memNextId = nextId
        /\ \A s \in Strategies :
               openBy[s] = IF OpenIds(s) = {} THEN 0 ELSE Newest(OpenIds(s))
        /\ \A i \in Ids : opens[i] = MemRows("OPEN", i) /\ closes[i] = MemRows("CLOSE", i)
        /\ \A s \in Strategies : booked[s] = MemBooked(s)
==============================================================================
