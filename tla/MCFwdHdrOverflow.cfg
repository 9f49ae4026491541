\* A's sender frames a payload longer than A's read_sz.
CONSTANTS
    A = A
    B = B
    Fwds <- MCFwds
    ReadHdr <- MCReadHdr
    WriteHdr <- MCWriteHdr
    ReadSz <- MCReadSz
    Frames <- MCLongFrames
    InputClosed = TRUE
    AtomicWrite <- MCAtomicWrite
    ReadErrors = FALSE
    WriteErrors = FALSE
    MaxQueued = 2
    Garbage = {0}
    MayStop = FALSE
    Inplace = {}
    ResourceFails = FALSE
    Beyond = Beyond

SPECIFICATION Spec

INVARIANT BufInBounds

