SPECIFICATION Spec
CONSTANTS
    ReportQuestions = {1}
    ReportDecisions = 7
    ReportActions = 7
    ReportCards = 1
    ChatRuns = 2
    ChatUnits = 2
    ChatTakeovers = 1
    ChatTrigger = 3
    ChatSafe = 4
    ChatKeep = 2
    ChatSummaries = {2}
    ResultTexts <- Pages
    ResultInline = 3
    ResultMaximum = 13
    ResultPage = 6
    ResultRefs = 2
    ResultReads = 5
    MemorySteps = 5
    StallingSteps = 4
    MemoryTakeovers = 1
    MemoryBatch = 2
    MemoryTrigger = 4
    MemorySafe = 5
    MemoryKeep = 1
CHECK_DEADLOCK FALSE
INVARIANTS SessionFollowsRun PublishedAsDeclared FollowedIsTheResult NothingForgotten MemoryHolds
