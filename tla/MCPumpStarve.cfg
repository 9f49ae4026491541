\* The peer stops draining its socket while it keeps sending to the pump.
CONSTANTS
    MtuArg = 2
    MinMtu = 2
    TapFrames <- MCTapFrames
    PeerDgrams <- MCPeerDgrams
    MaxFrames = 2
    MaxDgrams = 1
    WireCap = 1
    SockCap = 1
    PeerMayClose = FALSE
    PeerMayRestart = FALSE
    StartupFails = FALSE
    WriteAddrLen = 20
    PeerAddrLen = 21
    AliasChoices = {FALSE}
    Beyond = Beyond

SPECIFICATION SpecNoDrain

PROPERTY IngressDelivered
