SPECIFICATION PipelineSpec
CONSTANTS
    PatternSet <- MCPatterns
    Facts <- MCFacts
    RootFact <- MCRootFact
    Kinds <- MCKinds
    NoOrder = NoOrder
    NoCall = NoCall
    NoFact = NoFact
INVARIANTS
    CandidatesSound
    GreedyIsComplete
    EmitsExactlyTheExtendable
    EachOccurrenceOnce
    GroundedIsAnOccurrence
    UngroundedOnlyOverAbsence
    AbstainsOnlyInDoubt
    AbortsOnlyOverThePattern
