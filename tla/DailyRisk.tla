------------------------------ MODULE DailyRisk ------------------------------
(***************************************************************************)
(* homing_trade/risk.py: the in-memory DailyRiskGuard, as pure operators   *)
(* on a guard record.  Days are small integers; 0 stands for `_day = None` *)
(* (no call has reached the guard yet), so every wall-clock day is >= 1.   *)
(* `halted` says that halted_reason is set; its text is left out.          *)
(***************************************************************************)
EXTENDS Integers

CONSTANTS
    MaxDailyLoss,     \* max_daily_loss: 0 = no kill switch
    MaxTradePerDay,   \* max_trade_amount_per_day: 0 = no cap
    TradingEnabled    \* trading_enabled, the master switch

ASSUME RiskAssumption ==
    /\ MaxDailyLoss \in Nat
    /\ MaxTradePerDay \in Nat
    /\ TradingEnabled \in BOOLEAN

FreshGuard == [day |-> 0, traded |-> 0, realized |-> 0, halted |-> FALSE]

\* mutant: a new day keeps the totals
RollKeepsTotals(g, d) == IF d # g.day THEN [g EXCEPT !.day = d, !.halted = FALSE] ELSE g

\* A new day resets the totals and clears the kill switch.
Roll(g, d) ==
    IF d # g.day THEN [day |-> d, traded |-> 0, realized |-> 0, halted |-> FALSE]
                 ELSE g

CheckLossStrictly(g) ==      \* mutant: > for >=
    IF MaxDailyLoss > 0 /\ -g.realized > MaxDailyLoss
    THEN [g EXCEPT !.halted = TRUE]
    ELSE g

CheckLoss(g) ==
    IF MaxDailyLoss > 0 /\ -g.realized >= MaxDailyLoss
    THEN [g EXCEPT !.halted = TRUE]
    ELSE g

\* What can_open leaves in the guard: with the master switch off it returns
\* right after the roll.
CanOpenGuard(g, d) ==
    IF TradingEnabled THEN CheckLoss(Roll(g, d)) ELSE Roll(g, d)

CanOpenUnderCap(g, notional) ==      \* mutant: ignores the halt
    /\ TradingEnabled
    /\ MaxTradePerDay > 0 => g.traded + notional <= MaxTradePerDay

\* The verdict of can_open, given the guard CanOpenGuard left.
CanOpen(g, notional) ==
    /\ TradingEnabled
    /\ ~g.halted
    /\ MaxTradePerDay > 0 => g.traded + notional <= MaxTradePerDay

RecordLastOpen(g, notional, d) == [Roll(g, d) EXCEPT !.traded = notional]      \* mutant
RecordOpen(g, notional, d) == [Roll(g, d) EXCEPT !.traded = @ + notional]

RecordClose(g, pnl, d) == CheckLoss([Roll(g, d) EXCEPT !.realized = @ + pnl])
==============================================================================
