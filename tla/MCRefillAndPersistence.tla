---------------------- MODULE MCRefillAndPersistence ----------------------
(* A small instance of RefillAndPersistence for TLC.                       *)
EXTENDS RefillAndPersistence

MCPrices == {1, 2}
MCSteps == {1, 2}
============================================================================
