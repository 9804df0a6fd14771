-------------------------- MODULE MCSchemaMigrations --------------------------
(* Instance of SchemaMigrations for TLC: all released versions, two openers. *)
EXTENDS SchemaMigrations

MCOpeners == {"engine", "request"}
==============================================================================
