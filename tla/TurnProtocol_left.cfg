\* A redirect that comes while the turn ends stays in Redis.
CONSTANTS
    Msgs = {m1, m2}
    Cancels = {}
    NoMsg = NoMsg
    MaxTask = 2
    MaxReview = 0
    FaultKinds = {}
SPECIFICATION Spec
SYMMETRY MCSymmetry
INVARIANT NoRedirectLeft
