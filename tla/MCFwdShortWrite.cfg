\* B's W is a stream socket that may accept part of a writev().
CONSTANTS
    A = A
    B = B
    Fwds <- MCFwds
    ReadHdr <- MCReadHdr
    WriteHdr <- MCWriteHdr
    ReadSz <- MCReadSz
    Frames <- MCFrames
    InputClosed = TRUE
    AtomicWrite <- MCStreamWrite
    ReadErrors = FALSE
    WriteErrors = FALSE
    MaxQueued = 2
    Garbage = {0}
    MayStop = FALSE
    Inplace = {}
    ResourceFails = FALSE
    Beyond = Beyond

SPECIFICATION Spec

INVARIANT OutputFraming

