\* Redis fails once, between the claim and the turn.
CONSTANTS
    Msgs = {m1}
    Cancels = {}
    NoMsg = NoMsg
    MaxTask = 2
    MaxReview = 0
    FaultKinds = {"redis"}
SPECIFICATION FairSpec
PROPERTY RunningEnds
