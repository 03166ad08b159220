\* Two messages; the worker process crashes once and is terminated once.
CONSTANTS
    Msgs = {m1, m2}
    Cancels = {}
    NoMsg = NoMsg
    MaxTask = 4
    MaxReview = 0
    FaultKinds = {"crash", "term"}
SPECIFICATION Spec
SYMMETRY MCSymmetry
INVARIANTS RunningHasTurn AnswerBacked
PROPERTY ImplementsTaskLife
