SPECIFICATION Spec
CONSTANTS
    Suites <- NestedSuites
    AnyOrder = TRUE
    MaxDepth = 2
    MaxHooks = 3
    MaxTests = 3
    MaxLate = 0
INVARIANT HandlesFresh
CHECK_DEADLOCK FALSE
