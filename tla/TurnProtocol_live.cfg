\* Two messages and a crash; liveness of redirects and pending tasks.
CONSTANTS
    Msgs = {m1, m2}
    Cancels = {}
    NoMsg = NoMsg
    MaxTask = 3
    MaxReview = 0
    FaultKinds = {"crash"}
SPECIFICATION FairSpec
PROPERTIES RedirectTaken PendingIsClaimed
