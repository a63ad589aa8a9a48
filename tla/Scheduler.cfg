CONSTANTS
    Workers = {w1, w2}
    Client = client
    None = none
    MaxTasks = 4
    Throwing <- TaskThree
SPECIFICATION FairSpec
INVARIANTS EachTaskOnce
PROPERTIES WaitIsBarrier EveryTaskRuns WaitReturnsUnlessThrown
CHECK_DEADLOCK FALSE
