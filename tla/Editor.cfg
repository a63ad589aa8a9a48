CONSTANTS
    Slots = 3
    Poses = {0, 1}
    Sizes = {0, 1}
    Files = {"f"}
    Cap = 2
    MaxEdits = 4
    MaxScenes = 2
SPECIFICATION Spec
INVARIANTS CleanIsSaved
PROPERTIES NothingLostUnasked OwnEntityOnly  CloseHeard
CHECK_DEADLOCK FALSE
