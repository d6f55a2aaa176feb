SPECIFICATION Spec
CONSTANTS
    Suites <- MCSuites
    AnyOrder = FALSE
    MaxDepth = 2
    MaxHooks = 3
    MaxTests = 3
    MaxLate = 1
INVARIANTS HandlesFresh StackExact
PROPERTIES TestsAreFresh
CHECK_DEADLOCK FALSE
