\* One process, in every kind of installation: no pair, one or all fit the
\* keyring, which may fail or not.
CONSTANTS
    Processes = {p1}
    Tokens = {t1, t2}
    NoTokens = NoTokens
    Unreadable = Unreadable
    NoWrite = NoWrite
    NoKey = NoKey
    Absent = Absent
    Torn = Torn
    Keys = {k1, k2, k3}
    Setups <- AnyInstallation
SPECIFICATION Spec
INVARIANTS TypeOK DecryptableAtRest NewestIsKept
PROPERTIES ImplementsRegister
