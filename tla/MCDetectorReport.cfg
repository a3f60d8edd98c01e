CONSTANTS
    Cameras = {0, 1, 2}
    Entering = {1}
    MaxChanges = 2
SPECIFICATION FairSpec
INVARIANTS
    FlowExact
PROPERTIES
    Reported
