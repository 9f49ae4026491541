\* A TAP frame longer than the mtu argument reaches read(tun_fd, rbuf + 2, mtu).
CONSTANTS
    MtuArg = 2
    MinMtu = 2
    TapFrames <- MCLongTapFrames
    PeerDgrams <- MCPeerDgrams
    MaxFrames = 1
    MaxDgrams = 0
    WireCap = 1
    SockCap = 1
    PeerMayClose = FALSE
    PeerMayRestart = FALSE
    StartupFails = FALSE
    WriteAddrLen = 20
    PeerAddrLen = 21
    AliasChoices = {FALSE}
    Beyond = Beyond

SPECIFICATION Spec

INVARIANT RbufInBounds
