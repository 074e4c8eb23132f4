SPECIFICATION Spec
CONSTANTS
    k1 = k1
    k2 = k2
    g1 = g1
    g2 = g2
    Keys = {k1, k2}
    Readers = {g1, g2}
    MaxSize = 1
    MaxOps = 2
INVARIANTS TypeOK CalmChangesHold SizeBounded
PROPERTY ExpiredLeaves
