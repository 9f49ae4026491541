\* The bridge with W failing at times and fwd_stop() called at any point.
CONSTANTS
    A = A
    B = B
    Fwds <- MCFwds
    ReadHdr <- MCReadHdr
    WriteHdr <- MCWriteHdr
    ReadSz <- MCReadSz
    Frames <- MCFrames
    InputClosed = TRUE
    AtomicWrite <- MCAtomicWrite
    ReadErrors = FALSE
    WriteErrors = TRUE
    MaxQueued = 2
    Garbage = {0}
    MayStop = TRUE
    Inplace <- MCInplace
    ResourceFails = TRUE
    Beyond = Beyond

SPECIFICATION Spec

INVARIANT TypeOK
INVARIANT OutputFraming
INVARIANT ChunksFromInput
INVARIANT BufInBounds

PROPERTY EventuallyForwarded
PROPERTY StopTerminates
PROPERTY ForwardingChannel
