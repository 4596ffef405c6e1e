\* One process, one user; two questions, since the page may give up on one.
CONSTANTS
    Processes = {p1}
    Server = p1
    NoTokens = NoTokens
    Skew = 0
    RequestTimeout = 1
    StoreDelay = 0
    Lifetime = 1
    StatedLifetime = 1
    MaxTime = 1
    MaxGrants = 3
    Reserve = 2
    Environments <- OneFlaw
    Pages = {u1}
    Jobs = {j1, j2}
    Probe = Probe
    ProbeTurns = 2
    Nobody = Nobody
    MaxRounds = 2
SPECIFICATION AskFairSpec
INVARIANTS AskTypeOK
PROPERTIES  CureLasts AdviceLeadsToAnswer
CHECK_DEADLOCK FALSE
