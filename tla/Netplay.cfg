CONSTANTS
    Points <- TwoPoints
    HistoryTicks = 2
    SnapshotEvery = 1
    Slots = 2
    Delay = 2
    InputRing = 2
    PredSlots = 2
    SeqSpace = 4
    SentBefore = 3
    MaxEntities = 2
    MaxMoves = 5
    MaxWire = 2
SPECIFICATION Spec
INVARIANTS LiveIdsUnique RingsExact InputsExact CodecsFaithful
PROPERTIES NeverGoesBack
CHECK_DEADLOCK FALSE
