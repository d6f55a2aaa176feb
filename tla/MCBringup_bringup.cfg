SPECIFICATION Spec
CONSTANTS
    Delay = 10
    MaxGap = 3
    MaxDeploys = 1
INVARIANTS WiredAndListed ResourcesAreTheHandles
PROPERTIES CreatedIsReturned HookCompletes
CHECK_DEADLOCK FALSE
