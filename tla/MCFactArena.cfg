SPECIFICATION Spec
CONSTANTS
    NoCall = NoCall
    DepthModulus = 3
    OverflowChecks = FALSE
    StrayIds = {2, 3}
    OpenSizes = {0, 1, 2, 3}
    OpenCalls = {0, 1, 2}
INVARIANTS
    BuiltCallTree
    BuiltReferencesResolve
    TreeErrorsFirst
    RejectsOnlyIllFormed
