\* The peer sends a datagram whose header exceeds the MTU (spec scenario 5).
CONSTANTS
    MtuArg = 2
    MinMtu = 2
    TapFrames <- MCTapFrames
    PeerDgrams <- MCOversizeDgrams
    MaxFrames = 0
    MaxDgrams = 2
    WireCap = 1
    SockCap = 1
    PeerMayClose = FALSE
    PeerMayRestart = FALSE
    StartupFails = FALSE
    WriteAddrLen = 20
    PeerAddrLen = 21
    AliasChoices = {FALSE}
    Beyond = Beyond

SPECIFICATION Spec

INVARIANT IngressWithinMtu
