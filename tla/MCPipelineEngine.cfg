SPECIFICATION FairSpec
CONSTANTS
    a = a
    b = b
    c = c
    d = d
    Nodes = {a, b, c, d}
    NoNode = NoNode
    NoRoute = NoRoute
    Pipelines <- MCPipelines
INVARIANTS TypeOK OrderKept AnswerMeansHandled ErrorMeansFailure RoutesFollowed
PROPERTY Ends
