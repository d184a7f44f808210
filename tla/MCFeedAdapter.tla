--------------------------- MODULE MCFeedAdapter ---------------------------
(* FeedAdapter as TLC runs it; the constants are in the .cfg files.        *)
EXTENDS FeedAdapter
============================================================================
