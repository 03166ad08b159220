\* Two messages; everything but the process fails, each kind once.
CONSTANTS
    Msgs = {m1, m2}
    Cancels = {}
    NoMsg = NoMsg
    MaxTask = 3
    MaxReview = 0
    FaultKinds = {"db", "redis", "agent", "logout", "rollback", "reload"}
SPECIFICATION Spec
SYMMETRY MCSymmetry
INVARIANTS OneTurnPerTask LeaseIsTurn
