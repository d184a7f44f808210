---------------------------- MODULE MCEngineRunner ----------------------------
(* A small instance of EngineRunner for TLC.                               *)
EXTENDS EngineRunner
===============================================================================
