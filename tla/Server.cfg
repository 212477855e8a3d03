SPECIFICATION FairSpec
CONSTANTS
    Shards = {h, b}
    Shard0 = h
    Listeners = {h}
    Services <- MCServices
    Unknown <- MCUnknown
    Plans <- MCPlans
    Urls <- MCUrls
INVARIANTS
    RegisteredRunsOwn
    AnsweredInOrder
    RequestAsSent
    StreamsAlive
PROPERTIES
    KeptOnceRegistered
    ClosedIsFreed
CHECK_DEADLOCK FALSE
