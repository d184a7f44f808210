SPECIFICATION Spec
CONSTANTS
    Producers <- MCOneProducer
    Closers <- MCClosers
    Capacity = 2
    MaxPuts = 3
CHECK_DEADLOCK FALSE
INVARIANT AcceptedIsNotDiscarded
