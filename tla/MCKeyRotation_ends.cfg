SPECIFICATION FairSpec
CONSTANTS
    N = 2
    Weight <- EqualWeights
    Requests = {r1, r2}
    Session <- OneSession
    NoSession = NoSession
    Strategy = "sticky_session"
    Cooldown = 1
    Retries = 1
    Answers <- OkOrRepeated
    MaxTime = 1
    MaxRequests = 2
PROPERTIES EveryRequestEnds
INVARIANTS SessionsStick
