\* One message and a cancel; a crash and a failed transaction; liveness.
CONSTANTS
    Msgs = {m1}
    Cancels = {c1}
    NoMsg = NoMsg
    MaxTask = 3
    MaxReview = 0
    FaultKinds = {"crash", "db"}
SPECIFICATION FairSpec
PROPERTY RunningEnds
