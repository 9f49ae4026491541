\* A peer that sends from an unbound socket and restarts: recvfrom() sets
\* addr_sz to 0, so the next sendto() goes to the socket write_fd was
\* connected to at startup, which a restart has closed.
CONSTANTS
    MtuArg = 2
    MinMtu = 2
    TapFrames <- MCTapFrames
    PeerDgrams <- MCPeerDgrams
    MaxFrames = 2
    MaxDgrams = 2
    WireCap = 1
    SockCap = 1
    PeerMayClose = TRUE
    PeerMayRestart = TRUE
    StartupFails = FALSE
    WriteAddrLen = 20
    PeerAddrLen = 0
    AliasChoices = {FALSE}
    Beyond = Beyond

SPECIFICATION Spec

PROPERTY PumpFailsOnlyWhenPeerGone
