SPECIFICATION Spec
CONSTANTS
    Shards = {h, b}
    Shard0 = h
    Listeners = {h}
    Services <- MCServices
    Unknown <- MCUnknown
    Plans <- MCPlans
    Urls <- MCUrls
INVARIANT LocalIsInitialized
