SPECIFICATION Spec
CONSTANTS
    m1 = m1
    m2 = m2
    Cut = Cut
    Mirrors = {m1, m2}
    Callers = {"loop", "api"}
    Rows <- FiveRows
    Kind <- OneOfAKind
    Manual = {}
    Documents <- ThreeDocuments
    Fetches <- ThreeFetches
    MaxFailures = 1
    MaxRestarts = 1
INVARIANTS OnlyValidRows StoresFollow FileFollows
PROPERTY CatchesUp
