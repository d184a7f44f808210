--------------------------- MODULE MCSymbolEngine ---------------------------
(* SymbolEngine as TLC runs it; the constants are in the .cfg files.       *)
EXTENDS SymbolEngine
============================================================================
