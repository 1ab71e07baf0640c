SPECIFICATION Spec
CONSTANTS
    PatternSet <- MCPatterns
    Facts <- MCFacts
    RootFact <- MCRootFact
    StrayFacts <- MCStrayFacts
    Kinds <- MCKinds
    NoFact = NoFact
    NoOrder = NoOrder
INVARIANTS
    TypeOK
    GroundedIsShown
    UncertaintyOutranks
    UngroundedIsContradicted
    AbstentionIsExplained
