\* One process, re-authorized while a call is refreshing: the ask and the
\* auth thread save into the same record.
CONSTANTS
    Processes = {p1}
    NoTokens = NoTokens
    Skew = 2
    RequestTimeout = 1
    StoreDelay = 1
    Lifetime = 3
    StatedLifetime = 3
    MaxTime = 4
    MaxGrants = 2
SPECIFICATION Spec
PROPERTIES ReauthorizationSticks
