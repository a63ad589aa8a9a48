CONSTANTS
    SeqMod = 8
    AckBits = 2
    Window = 3
    MaxSends <- WrapSends
    MaxInFlight = 1
SPECIFICATION Spec
INVARIANTS NoneLostAfterFirst HonestAcks RecentAcked
PROPERTIES AckStateAdvances
