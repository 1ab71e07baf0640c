SPECIFICATION SuiteSpec
CONSTANTS
    Nothing = Nothing
    Directories <- MCDirectories
    MaxCandidates = 2
INVARIANTS
    RunsTheWholeDirectory
    FailuresStayInTheirPattern
    FiguresBalance
CHECK_DEADLOCK FALSE
