-------------------------- MODULE MCSnapshotQueue --------------------------
(* A small instance of SnapshotQueue for TLC: one or two feed threads; the *)
(* main thread and the feed thread both call close().                      *)
EXTENDS SnapshotQueue

MCProducers == {"feed", "other"}
MCOneProducer == {"feed"}
MCClosers == {"main", "supervisor"}
============================================================================
