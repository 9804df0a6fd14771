---------------------------- MODULE MCPaperEngine ----------------------------
(* Instances of PaperEngine for TLC. *)
EXTENDS PaperEngine, TLC

CONSTANTS m1, a1

MCStrategies2 == {m1, a1}
MCRostersDemote == {<<m1>>, <<>>}
MCAi == <<a1>>

\* StopDist 1, LiqDist 2: around an entry at 4 these are a quiet candle, one that
\* liquidates a long after passing its stop, and one that stops a short.
MCShapes == {[low |-> 4, close |-> 4, high |-> 4],
             [low |-> 2, close |-> 3, high |-> 4],
             [low |-> 4, close |-> 5, high |-> 5]}
MCShapesStop == {[low |-> 4, close |-> 4, high |-> 4],
                 [low |-> 2, close |-> 4, high |-> 4]}
Gate == BOOLEAN
NoGate == {TRUE}
==============================================================================
