SPECIFICATION Spec
CONSTANTS
    Trees <- MCTrees
    MaxU32 = 3
    NoPattern = NoPattern
INVARIANTS
    NeverPanics
