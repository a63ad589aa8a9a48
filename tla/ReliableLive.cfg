CONSTANTS
    SeqMod = 8
    AckBits = 2
    Window = 3
    MaxSends <- LiveSends
    MaxInFlight = 2
SPECIFICATION FairSpec
PROPERTIES EventuallyReceived
