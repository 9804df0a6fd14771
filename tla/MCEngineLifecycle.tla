-------------------------- MODULE MCEngineLifecycle --------------------------
(* Instance of EngineLifecycle for TLC. *)
EXTENDS EngineLifecycle

CONSTANTS h1, h2

MCHandlers == {h1, h2}
==============================================================================
