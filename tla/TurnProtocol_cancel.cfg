\* Two messages and a cancel; a review pass is switched on; nothing fails.
CONSTANTS
    Msgs = {m1, m2}
    Cancels = {c1}
    NoMsg = NoMsg
    MaxTask = 2
    MaxReview = 1
    FaultKinds = {}
SPECIFICATION Spec
SYMMETRY MCSymmetry
INVARIANTS TypeOK NoAnswerAfterCancel
