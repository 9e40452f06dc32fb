\* A supervisor that serves other connectors as well never takes up a connector
\* that was paused when it started, or when a message arrived.
SPECIFICATION FairSpec
CONSTANTS
    Consumers = {c1}
    Nobody = Nobody
    MaxOffset = 1
    Events = {x}
    EventOf <- MCEventOf
    Junk = {}
    Others = TRUE
    MaxFaults = 0
PROPERTIES EventuallyConsumed
CHECK_DEADLOCK FALSE
