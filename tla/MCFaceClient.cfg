SPECIFICATION FairSpec
CONSTANTS
    Call <- MCCall
    KindOf <- MCKindOf
INVARIANTS
    TypeOK
    OneBlockPerCall
    CompletionContract
PROPERTIES
    EveryCallAnswered
    ImplementsAsyncCalls
\* After the last call, or after a crash, nothing more happens.
CHECK_DEADLOCK FALSE
