SPECIFICATION ConverterSpec
CONSTANTS
    Documents <- MCDocuments
    Responses <- MCResponses
    NoResponse = NoResponse
    NoValue = NoValue
    NoAddress = NoAddress
    Unreadable = Unreadable
    NestingLimit = 7
    MaxCallDepth = 4
    MaxLogIndex = 8
    NoCall = NoCall
    DepthModulus = 6
    OverflowChecks = FALSE
INVARIANTS
    CallsInPreOrder
    FactsKeepTheirCall
    AcceptsExactlyTheWellFormed
    ConvertedTracesIngest
PROPERTIES
    UsesTheBuilder
    Returns
