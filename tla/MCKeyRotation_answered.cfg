SPECIFICATION Spec
CONSTANTS
    N = 2
    Weight <- EqualWeights
    Requests = {r1, r2}
    Session <- NoSessions
    NoSession = NoSession
    Strategy = "round_robin"
    Cooldown = 2
    Retries = 1
    Answers <- FinalOrRotating
    MaxTime = 3
    MaxRequests = 2
INVARIANTS TypeOK AnsweredOnceEach ExhaustedMeansAllTried
