\* Two flows, each redirected back with either code, on two handlers.
\* No deadlock check: once its flows are used up and expired the instance may rest.
CHECK_DEADLOCK FALSE
CONSTANTS
    Flows = {f1, f2}
    Codes = {c1, c2}
    Handlers = {h1, h2}
    Nothing = Nothing
SPECIFICATION FairSpec
INVARIANTS TypeOK
PROPERTIES LateCallbackRejected AbandonedFlowsEnd
