----------------------------- MODULE PaperBroker -----------------------------
(***************************************************************************)
(* homing_trade/broker.py on an integer price grid.  The percentages of    *)
(* the code become distances: slippage moves a fill Slip grid points, a    *)
(* stop lies StopDist from the entry fill, and liquidation (1/leverage of  *)
(* the entry away) LiqDist from it.  Fee is the fee of one fill.           *)
(***************************************************************************)
EXTENDS Integers

CONSTANTS Slip, Fee, StopDist, LiqDist

ASSUME BrokerAssumption ==
    /\ Slip \in Nat
    /\ Fee \in Nat
    /\ StopDist \in Nat \ {0}
    /\ LiqDist \in Nat \ {0}

LONG == "LONG"
SHORT == "SHORT"
Sides == {LONG, SHORT}

\* A buy fills above the quoted price, a sell below it.
FillPrice(price, side, isEntry) ==
    IF (side = LONG) = isEntry THEN price + Slip ELSE price - Slip

StopPrice(pos) ==
    IF pos.side = LONG THEN pos.entry - StopDist ELSE pos.entry + StopDist

LiquidationPrice(pos) ==
    IF pos.side = LONG THEN pos.entry - LiqDist ELSE pos.entry + LiqDist

HitStop(pos, candle) ==
    IF pos.side = LONG THEN candle.low <= StopPrice(pos)
                       ELSE candle.high >= StopPrice(pos)

HitLiquidation(pos, candle) ==
    IF pos.side = LONG THEN candle.low <= LiquidationPrice(pos)
                       ELSE candle.high >= LiquidationPrice(pos)

RealizedPnl(pos, exitFill) ==
    IF pos.side = LONG THEN pos.size * (exitFill - pos.entry)
                       ELSE pos.size * (pos.entry - exitFill)

\* pnl - fee, the amount a close books for a position exited at `price`.
NetPnl(pos, price) == RealizedPnl(pos, FillPrice(price, pos.side, FALSE)) - Fee

\* manage_risk acts on a position the candle crossed: liquidation is looked at
\* first and fills at the liquidation price, otherwise the stop fills at its own.
Crossed(pos, candle) == HitLiquidation(pos, candle) \/ HitStop(pos, candle)

RiskExitPrice(pos, candle) ==
    IF HitLiquidation(pos, candle) THEN LiquidationPrice(pos) ELSE StopPrice(pos)
==============================================================================
