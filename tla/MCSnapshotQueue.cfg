SPECIFICATION FairSpec
CONSTANTS
    Producers <- MCProducers
    Closers <- MCClosers
    Capacity = 2
    MaxPuts = 3
CHECK_DEADLOCK FALSE
INVARIANTS EverySnapshotAccountedFor DropsAreCounted
PROPERTIES DeliveredInOrder CloseReleasesConsumer
