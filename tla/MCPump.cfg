\* Both directions of the pump with well-formed traffic, the peer draining
\* its socket and possibly closing it and binding a new one; or, with
\* read.sock and write.sock the same path, the pump looping frames back to
\* itself.  The read socket holds 2 datagrams (Linux: max_dgram_qlen, 10
\* and more), enough for the self-send never to wait for good.
CONSTANTS
    MtuArg = 2
    MinMtu = 2
    TapFrames <- MCTapFrames
    PeerDgrams <- MCPeerDgrams
    MaxFrames = 3
    MaxDgrams = 3
    WireCap = 1
    SockCap = 2
    PeerMayClose = TRUE
    PeerMayRestart = TRUE
    StartupFails = TRUE
    WriteAddrLen = 20
    PeerAddrLen = 21
    AliasChoices = {FALSE, TRUE}
    Beyond = Beyond

SPECIFICATION Spec

INVARIANT TypeOK

PROPERTY PumpFailsOnlyWhenPeerGone
PROPERTY BridgeChannel
