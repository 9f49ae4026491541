\* A fatal sendto() error: the peer closes its socket while frames flow.
CONSTANTS
    MtuArg = 2
    MinMtu = 2
    TapFrames <- MCTapFrames
    PeerDgrams <- MCPeerDgrams
    MaxFrames = 2
    MaxDgrams = 2
    WireCap = 1
    SockCap = 1
    PeerMayClose = TRUE
    PeerMayRestart = FALSE
    StartupFails = FALSE
    WriteAddrLen = 20
    PeerAddrLen = 21
    AliasChoices = {FALSE}
    Beyond = Beyond

SPECIFICATION Spec

INVARIANT ExitStatusReportsError
