--------------------------- MODULE MCLedgerCommits ---------------------------
(* Instances of LedgerCommits and of MemoryLedger beside it for TLC. *)
EXTENDS MemoryLedger, TLC

CONSTANTS s1, s2

MCStrategies == {s1, s2}
MCNets == {-3, 2}
==============================================================================
