SPECIFICATION Spec
CONSTANTS
    None = None
    Names <- MCNames
    Identifiers = {"a", "pattern", "Reentrancy", "TODO_ReplaceWithExploitFamily"}
    Reserved = {"pattern"}
    Contents <- MCContents
    DemoTraces <- MCDemoTraces
    Families = {"Reentrancy", "TODO_ReplaceWithExploitFamily", "two words"}
    Workspaces <- MCWorkspaces
    MaxCommands = 3
INVARIANTS
    ExitIsTheVerdict
    HealthyLibraryAnalyses
PROPERTIES
    WorkIsKept
CHECK_DEADLOCK FALSE
