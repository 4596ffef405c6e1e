\* Two processes migrate the key file of the older version at once.
CONSTANTS
    Processes = {p1, p2}
    Tokens = {t1, t2}
    NoTokens = NoTokens
    Unreadable = Unreadable
    NoWrite = NoWrite
    NoKey = NoKey
    Absent = Absent
    Torn = Torn
    Keys = {k1, k2, k3, k4}
    Setups <- LegacyKey
SPECIFICATION Spec
INVARIANTS DecryptableAtRest
