\* Two processes with overlapping refreshes; one authorization.
CONSTANTS
    Processes = {p1, p2}
    NoTokens = NoTokens
    Skew = 2
    RequestTimeout = 1
    StoreDelay = 1
    Lifetime = 3
    StatedLifetime = 3
    MaxTime = 4
    MaxGrants = 1
SPECIFICATION Spec
SYMMETRY Interchangeable
INVARIANTS TypeOK DeadTokenExplained
PROPERTIES ReturnedTokenCoversCall SavesMoveForward SavedTokensAreUsable ImplementsRotation
