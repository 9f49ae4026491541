---------------------------- MODULE MCForwarder ----------------------------
(***************************************************************************)
(* The bridge of spec scenario 6 for TLC: forwarder A reads framed chunks  *)
(* (read_hdr) and writes them bare, forwarder B reads up to read_sz bytes  *)
(* and writes them framed (write_hdr).  Buffers and chunks are a few bytes *)
(* so that a chunk can be split by a short read or a short write.          *)
(***************************************************************************)
EXTENDS Forwarder

CONSTANTS A, B

MCFwds == {A, B}
MCReadHdr == [f \in MCFwds |-> f = A]
MCWriteHdr == [f \in MCFwds |-> f = B]
MCReadSz == [f \in MCFwds |-> 2]

\* A's sender frames a 2-byte, an empty and a 1-byte payload; B's sender
\* writes 3 bytes, which reads of at most 2 bytes split into chunks
MCFrames == [f \in MCFwds |-> IF f = A THEN <<<<5, 6>>, <<>>, <<7>>>> ELSE <<<<5, 6, 7>>>>]

\* A runs on the thread that calls fwd_start_inplace(), B on its own thread
MCInplace == {A}

\* A's W is a stream (short writes), B's a datagram socket
MCAtomicWrite == [f \in MCFwds |-> f = B]

\* B's W is a stream as well
MCStreamWrite == [f \in MCFwds |-> FALSE]

\* A's sender frames a payload longer than A's 2-byte buffer
MCLongFrames == [f \in MCFwds |-> IF f = A THEN <<<<5, 6, 7>>>> ELSE <<>>]

\* Unframe, the reader's view of a framed stream, recovers every short
\* sequence of payloads from their framed concatenation, and only complete
\* frames from a cut-off one
ASSUME \A ps \in BoundedSeq({<<>>, <<5>>, <<5, 6>>}, 2) :
    LET s == FlattenSeq([i \in DOMAIN ps |-> Framed(ps[i])])
    IN /\ Unframe(s) = ps
       /\ \A k \in 0..Len(s) - 1 : IsPrefix(Unframe(SubSeq(s, 1, k)), ps)
                                  /\ Unframe(SubSeq(s, 1, k)) # ps

=============================================================================
