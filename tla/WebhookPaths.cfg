\* An envelope below the key data.
SPECIFICATION Spec
CONSTANTS
    Body <- Nested
    Paths <- DataItem
    Raising = {}
    MaxQueued = 1
    Idle = Idle
INVARIANT SamePayload
CHECK_DEADLOCK FALSE
