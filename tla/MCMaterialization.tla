-------------------------- MODULE MCMaterialization --------------------------
(* A small instance of Materialization for TLC.                             *)
EXTENDS Materialization
=============================================================================
