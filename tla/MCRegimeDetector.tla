-------------------------- MODULE MCRegimeDetector --------------------------
(* RegimeDetector as TLC runs it; the constants are in the .cfg file.      *)
EXTENDS RegimeDetector
============================================================================
