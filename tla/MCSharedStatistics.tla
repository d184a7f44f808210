------------------------- MODULE MCSharedStatistics -------------------------
(* A small instance of SharedStatistics for TLC.                           *)
EXTENDS SharedStatistics

MCBids == {2, 3, 5}
MCSpreads == {1, 2}
MCSamples == {0} \cup {2 * b + s : b \in MCBids, s \in MCSpreads}
MCRounding == {-1, 1}
============================================================================
