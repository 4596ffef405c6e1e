\* One flow whose callback the browser sends twice.
\* No deadlock check: once its flows are used up and expired the instance may rest.
CHECK_DEADLOCK FALSE
CONSTANTS
    Flows = {f1}
    Codes = {c1}
    Handlers = {h1, h2}
    Nothing = Nothing
SPECIFICATION Spec
PROPERTIES StateIsSingleUse
