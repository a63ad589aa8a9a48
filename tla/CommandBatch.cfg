CONSTANTS
    position = position
    health = health
    Components = {position, health}
    Values = {0, 1}
    Default = 0
    NoArchetype = {none}
    MaxEntities = 2
    MaxGeneration = 1
    MaxCommands = 2
SPECIFICATION BufferSpec
SYMMETRY ComponentSymmetry
INVARIANTS WorldConsistent PendingFate
PROPERTIES TouchesNamed StaleHandlesStayDead Refinement
CHECK_DEADLOCK FALSE
