\* Two supervisors of one group, with rebalances, crashes, failing transactions
\* and an operator who pauses the connector.
SPECIFICATION FairSpec
CONSTANTS
    Consumers = {c1, c2}
    Nobody = Nobody
    MaxOffset = 3
    Events = {x, y}
    EventOf <- MCEventOf
    Junk = {1}
    Others = FALSE
    MaxFaults = 3
INVARIANTS TypeOK OffsetCovered
PROPERTIES OffsetAdvances EventuallyConsumed ImplementsDelivery
CHECK_DEADLOCK FALSE
