\* Two calls of one ranking, on two days.
\* No deadlock check: a ranking ends when all its calls are made.
CHECK_DEADLOCK FALSE
CONSTANTS
    Calls = {call1, call2}
    Amounts <- EdgeAmounts
    Days <- EdgeDays
    CloseDates <- EdgeCloseDates
    NaN = NaN
    NoDate = NoDate
    BadDate = BadDate
    Invalid = Invalid
    NotMade = NotMade
    LastDay = 1
SPECIFICATION Spec
SYMMETRY Interchangeable
INVARIANTS TypeOK RankingRespectsUrgency
