CONSTANTS
    BackBuffers = 2
    Frames = 2
    MaxEnts = 1
    Step = 2
    FrameCap = 3
    Elapsed = {1, 5}
    MaxLines = 1
    MaxFrames = 4
    MaxMsgs = 1
    MaxOps = 3
    p = p
    q = q
    Paths <- MCPaths
SYMMETRY Swap
SPECIFICATION Spec
INVARIANTS NoFaults ListsOutliveGpu DrawsOwnMeshes
