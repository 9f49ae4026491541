\* fwd_stop() is called while R stays open and has no more data: the\n\* threads really may stop there, so deadlock is not a finding.
CONSTANTS
    A = A
    B = B
    Fwds <- MCFwds
    ReadHdr <- MCReadHdr
    WriteHdr <- MCWriteHdr
    ReadSz <- MCReadSz
    Frames <- MCFrames
    InputClosed = FALSE
    AtomicWrite <- MCAtomicWrite
    ReadErrors = FALSE
    WriteErrors = FALSE
    MaxQueued = 2
    Garbage = {0}
    MayStop = TRUE
    Inplace = {}
    ResourceFails = FALSE
    Beyond = Beyond

SPECIFICATION Spec

PROPERTY StopTerminates
CHECK_DEADLOCK FALSE
