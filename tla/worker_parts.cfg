SPECIFICATION MCSpec
CONSTANTS
    s1 = s1
    s2 = s2
    h1 = h1
    Sessions = {s1, s2}
    WithChat = {s1}
    NoSession = nosession
    MaxTurn = 4
    MaxAttempts = 1
    MaxToken = 2
    Schedules <- MCSchedules
    MaxVersion = 3
    Broken = {2}
    Sick = {1}
    MaxDeploy = 2
    GuardFaults = {"crash", "slow"}
    MaxAccount = 2
    MaxLogin = 2
    MaxTask = 2
    MaxFault = 1
    MaxLine = 2
    MaxKill = 2
    MaxBubble = 4
    MaxUpdate = 2
    MaxChunk = 2
    MaxRefusal = 2
    Movers = {h1}
CHECK_DEADLOCK FALSE
INVARIANTS TypesOK DeliveredOnce CrashBudget InterruptedIsHandled SnapshotIsVerified LoginIsHeld KeyHasMonitor TimeoutIsNotCancel NoTornAnswer AnswerIsLast LeaderIsGone AnswerIsWhole BubbleRemoved
PROPERTIES DeployIsAnnounced BadDeployEnds LoginIsAnswered RunReturns NothingAfterAnswer
