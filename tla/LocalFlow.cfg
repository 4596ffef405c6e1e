\* Three runs of the command, one of them with the hosted redirect URI in its
\* environment.
CONSTANTS
    Runs = {r1, r2, r3}
    Misdirected = {r3}
    Nothing = Nothing
SPECIFICATION FairSpec
INVARIANTS TypeOK ExchangesOwnCode
PROPERTIES ListeningEnds
CHECK_DEADLOCK FALSE
