------------------------ MODULE MCTradingDiscipline ------------------------
(* A small instance of TradingDiscipline and TradingLiveness for TLC.      *)
EXTENDS TradingLiveness

MCCritical == {"FEED_GAP"}
MCOther == {"WARMUP"}
============================================================================
