\* One process, authorized twice, perhaps while a call is refreshing.
CONSTANTS
    Processes = {p1}
    NoTokens = NoTokens
    Skew = 1
    RequestTimeout = 1
    StoreDelay = 1
    Lifetime = 2
    StatedLifetime = 2
    MaxTime = 3
    MaxGrants = 2
SPECIFICATION FairSpec
INVARIANTS DeadTokenExplained
PROPERTIES CallsFinish SavedTokensAreUsable ImplementsRotation
