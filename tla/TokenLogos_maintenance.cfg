SPECIFICATION FairSpec
CONSTANTS
    Tokens = {1, 2, 3}
    Replies <- SomeReplies
    Lists = {{3}}
    Batch = 2
    Concurrency = 1
    TransientCap = 1
    RetryAfterCap = 1
    UnavailableDelays = {1}
    RetryAfters = {0, 2}
    RefreshInterval = 3
    MaxOverdue = 2
INVARIANTS TypeOK NeverForgotten
PROPERTIES SuccessTerminal DueTried
