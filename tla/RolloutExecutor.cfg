\* Three workers, three calls.  After an exception the next call waits for ever.
SPECIFICATION FairRpcSpec
CONSTANTS
    TP = 3
    MaxCalls = 3
INVARIANTS
    NoStaleReply
PROPERTIES
    ImplementsCollectiveCall
    CallsEnd
CHECK_DEADLOCK FALSE
