SPECIFICATION ConfirmSpec
CONSTANTS
    Handlers = {h1, h2}
    MaxRow = 1
    Keys = {k1}
    NoKey = nokey
CHECK_DEADLOCK FALSE
INVARIANT ApprovedCommandRuns
