\* A read on R may complete with -EINTR.
CONSTANTS
    A = A
    B = B
    Fwds <- MCFwds
    ReadHdr <- MCReadHdr
    WriteHdr <- MCWriteHdr
    ReadSz <- MCReadSz
    Frames <- MCFrames
    InputClosed = TRUE
    AtomicWrite <- MCAtomicWrite
    ReadErrors = TRUE
    WriteErrors = FALSE
    MaxQueued = 2
    Garbage = {0}
    MayStop = FALSE
    Inplace = {}
    ResourceFails = FALSE
    Beyond = Beyond

SPECIFICATION Spec

PROPERTY EventuallyForwarded

