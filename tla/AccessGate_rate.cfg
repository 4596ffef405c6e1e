\* One session: three attempts before a lockout of three ticks.
\* No deadlock check: an unlocked session leaves the gate.
CHECK_DEADLOCK FALSE
CONSTANTS
    MaxAttempts = 3
    LockoutSeconds = 3
    MaxTime = 8
    MaxWrong = 9
SPECIFICATION Spec
INVARIANTS TypeOK GuessesAreSpread
