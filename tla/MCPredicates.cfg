SPECIFICATION Spec
CONSTANTS
    None = None
    Malformed = Malformed
    CallShapes <- MCCallShapes
    ChangeShapes <- MCChangeShapes
    LogTopics <- MCLogTopics
    TransferShapes <- MCTransferShapes
    Transactions <- MCTransactions
    Queries <- MCQueries
    WordWidth = 1
    SelectorWidth = 1
    AddressWidth = 1
    MaxI128 = 7
    MaxCalls = 3
    MaxFacts = 4
INVARIANTS
    ReentrancyIsOnTheStack
    SelectsWhatTheClauseSays
    BindingsInExecutionOrder
    NetValueIsNeverWrong
