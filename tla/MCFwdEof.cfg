\* Both senders close R after their data; nobody calls fwd_stop().
CONSTANTS
    A = A
    B = B
    Fwds <- MCFwds
    ReadHdr <- MCReadHdr
    WriteHdr <- MCWriteHdr
    ReadSz <- MCReadSz
    Frames <- MCFrames
    InputClosed = TRUE
    AtomicWrite <- MCAtomicWrite
    ReadErrors = FALSE
    WriteErrors = FALSE
    MaxQueued = 2
    Garbage = {0}
    MayStop = FALSE
    Inplace = {}
    ResourceFails = FALSE
    Beyond = Beyond

SPECIFICATION Spec


PROPERTY ExitsAtEndOfInput
