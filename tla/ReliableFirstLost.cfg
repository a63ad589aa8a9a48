CONSTANTS
    SeqMod = 8
    AckBits = 2
    Window = 3
    MaxSends <- FewSends
    MaxInFlight = 1
SPECIFICATION Spec
INVARIANT KeptUntilReceived
