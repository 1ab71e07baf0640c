SPECIFICATION Spec
CONSTANTS
    NoCall = NoCall
    DepthModulus = 3
    OverflowChecks = TRUE
    StrayIds = {2, 3}
    OpenSizes = {0, 1, 2}
    OpenCalls = {0, 1, 2}
INVARIANT BuiltInOrder
