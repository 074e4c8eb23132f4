SPECIFICATION Spec
CONSTANTS
    N = 3
    Weight <- UnequalWeights
    Requests = {r1, r2}
    Session <- NoSessions
    NoSession = NoSession
    Strategy = "round_robin"
    Cooldown = 1
    Retries = 0
    Answers <- Accepted
    MaxTime = 0
    MaxRequests = 7
INVARIANTS LoadFollowsWeights
