CONSTANTS
    Entities <- FewEntities
    Templates <- FloorAndBalls
    Character <- Capsule
    Starts = {0, 4}
    Workers = 2
    Reach = 6
    MaxBodies = 3
    MaxCalls = 4
    MaxSteps = 2
SPECIFICATION Spec
INVARIANTS CollisionsExact ToldMatchesActive WallsHold
PROPERTIES CharacterStaysOut RewindIsLocal
CHECK_DEADLOCK FALSE
