------------------------------ MODULE MCAlwaysOn ------------------------------
(* Instance of AlwaysOn for TLC. *)
EXTENDS AlwaysOn

MCOpeners == {engine, tool}
==============================================================================
