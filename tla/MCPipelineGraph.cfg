SPECIFICATION FairSpec
CONSTANTS
    Nodes = {a, b, c}
    Pipelines <- SmallPipelines
INVARIANTS DetectsNextCycles LayersAreRight LayersFollowEdges
PROPERTY Decides
