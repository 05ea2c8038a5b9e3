-------------------------- MODULE MCSchemaMigrations --------------------------
(* Two processes that connect at the same time, for TLC. *)
EXTENDS SchemaMigrations, TLC

CONSTANTS p1, p2
===============================================================================
