----------------------------- MODULE Forwarder -----------------------------
(***************************************************************************)
(* The generic framed forwarder of forward.c: fwd() and its io_uring       *)
(* helpers read_fd(), write_fd() and writev_fd(), run by one thread per    *)
(* forwarder (fwd_start), all stopped by fwd_stop() through the shared     *)
(* flag working.                                                           *)
(*                                                                         *)
(* Each forwarder f copies chunks from its read descriptor R to its write  *)
(* descriptor W.  With ReadHdr[f] a chunk is a 2-byte little-endian length *)
(* read exactly, then that many bytes read exactly; otherwise it is one    *)
(* read of up to ReadSz[f] bytes.  With WriteHdr[f] the chunk is written   *)
(* with writev() as its length then its bytes; otherwise with write().     *)
(*                                                                         *)
(* Every read and write goes through the forwarder's own io_uring: the     *)
(* thread submits one request and waits for a completion (CQE).  The       *)
(* kernel side is modelled by Complete(f): it carries out any in-flight    *)
(* request, reading what R holds (a short read, end of file, or an error)  *)
(* or writing to W (a short write on a stream, all of it on a datagram     *)
(* socket, or an error), and queues the CQE.  wait_cqe() hands the thread  *)
(* the oldest CQE and io_uring_cqe_seen() removes it.                      *)
(***************************************************************************)
EXTENDS Integers, Sequences, SequencesExt, Codec

CONSTANTS
    Fwds,         \* the forwarder threads
    ReadHdr,      \* [Fwds -> BOOLEAN]: args->read_hdr
    WriteHdr,     \* [Fwds -> BOOLEAN]: args->write_hdr
    ReadSz,       \* [Fwds -> Nat]: args->read_sz, also the size of buf
    Frames,       \* [Fwds -> Seq(Seq(Byte))]: the chunks the sender puts on R
    InputClosed,  \* the sender closes R after its data (reads then see EOF)
    AtomicWrite,  \* [Fwds -> BOOLEAN]: W is a datagram socket (no short writes)
    ReadErrors,   \* a read may complete with an error (-EINTR)
    WriteErrors,  \* a write may complete with an error (-EPIPE)
    MaxQueued,    \* model bound on the requests and unreaped CQEs of a ring
    Garbage,      \* the values malloc()'d memory may hold
    MayStop,      \* fwd_stop() may be called
    Inplace,      \* the forwarders started by fwd_start_inplace(), which runs
                  \* fwd() on the caller's thread; the others by fwd_start()
    ResourceFails \* malloc(), thrd_create() and io_uring_register_files()
                  \* may fail

Byte == 0..255
EINTR == 4
EPIPE == 32
ENOMEM == 12
EBADF == 9
ThrdError == 2   \* thrd_error, what thrd_create() returns on failure

\* the bytes the sender puts on R
Input(f) ==
    IF ReadHdr[f] THEN FlattenSeq([i \in DOMAIN Frames[f] |-> Framed(Frames[f][i])])
                  ELSE FlattenSeq(Frames[f])

VARIABLES
    t,         \* t[f]: the locals of fwd(), read_fd() and write_fd() of thread f
    buf,       \* buf[f]: the malloc(read_sz) buffer of thread f
    inflight,  \* inflight[f]: requests submitted to f's ring, not yet completed
    cq,        \* cq[f]: the completion queue of f's ring
    rin,       \* rin[f]: bytes on R not yet read
    out,       \* out[f]: bytes written to W, in order
    chunks,    \* history: chunks[f], the chunks f handed to a write, in order
    working    \* the process-wide flag of forward.c

vars == <<t, buf, inflight, cq, rin, out, chunks, working>>

(* The locals: pc is where the thread is (in fwd_start, in fwd()'s setup, *)
(* "top" of the while loop, the loop of read_fd or write_fd, waiting on a *)
(* CQE in either, at the end: label, "exit");  ring is whether the stack   *)
(* struct io_uring has been initialised;                                   *)
(* stage says which read_fd call of fwd() runs (the header or the body);  *)
(* sz is union b_u16 sz; ro, count, exact are read_fd's; wo, wcount are    *)
(* write_fd's or writev_fd's; ret is fwd()'s.                              *)
ThreadState == [pc : {"spawn", "setup", "top", "rd_loop", "rd_wait", "wr_loop",
                      "wr_wait", "end", "exit"},
                stage : {"hdr", "body"}, sz : 0..65535, ro : Nat, count : Nat,
                exact : BOOLEAN, wo : Nat, wcount : Nat, ret : Int,
                ring : {"garbage", "up"}]

Init ==
    /\ t = [f \in Fwds |-> [pc |-> "spawn", stage |-> "body", sz |-> 0, ro |-> 0,
                            count |-> 0, exact |-> FALSE, wo |-> 0, wcount |-> 0,
                            ret |-> 0, ring |-> "garbage"]]
    /\ buf \in {b \in [Fwds -> UNION {[0..ReadSz[g] - 1 -> Garbage] : g \in Fwds}] :
                  \A f \in Fwds : DOMAIN b[f] = 0..ReadSz[f] - 1}
    /\ inflight = [f \in Fwds |-> <<>>]
    /\ cq = [f \in Fwds |-> <<>>]
    /\ rin = [f \in Fwds |-> Input(f)]
    /\ out = [f \in Fwds |-> <<>>]
    /\ chunks = [f \in Fwds |-> <<>>]
    /\ working = TRUE

----------------------------------------------------------------------------
(* Starting and ending a forwarder thread.                                 *)

(* fwd_start() and fwd_start_inplace(): fwd_build_args() mallocs fds and  *)
(* args (either failing: -ENOMEM is returned).  fwd_start() then starts    *)
(* fwd() on a new thread with thrd_create() (failing: args freed,         *)
(* thrd_error returned) and detaches it; fwd_start_inplace() calls fwd()   *)
(* itself and returns 0 once it has returned.                              *)
\* fwd_build_args(): malloc() of fds or of args fails, both freed, NULL
BuildArgsFails(f) ==
    /\ ResourceFails
    /\ t' = [t EXCEPT ![f].pc = "exit", ![f].ret = -ENOMEM]

\* thrd_create() fails: goto err frees args and fds
ThreadCreateFails(f) ==
    /\ ResourceFails
    /\ f \notin Inplace
    /\ t' = [t EXCEPT ![f].pc = "exit", ![f].ret = ThrdError]

Spawn(f) ==
    /\ t[f].pc = "spawn"
    /\ \/ BuildArgsFails(f)
       \/ ThreadCreateFails(f)
       \/ t' = [t EXCEPT ![f].pc = "setup"]
    /\ UNCHANGED <<buf, inflight, cq, rin, out, chunks, working>>

(* fwd() before its loop: buf = malloc(read_sz) (failing: ret = -ENOMEM,   *)
(* goto end with the ring never initialised), io_uring_queue_init() (its   *)
(* result ignored), io_uring_register_files() of R and W (failing: goto    *)
(* end with its error).                                                    *)
Setup(f) ==
    /\ t[f].pc = "setup"
    /\ \/ /\ ResourceFails
          /\ t' = [t EXCEPT ![f].pc = "end", ![f].ret = -ENOMEM]
       \/ /\ ResourceFails
          /\ t' = [t EXCEPT ![f].pc = "end", ![f].ret = -EBADF, ![f].ring = "up"]
       \/ t' = [t EXCEPT ![f].pc = "top", ![f].ring = "up"]
    /\ UNCHANGED <<buf, inflight, cq, rin, out, chunks, working>>

(* end: io_uring_unregister_files(&ring) on whatever ring holds, free the  *)
(* fds, args and buf, return ret.  The ring is not exited.                 *)
End(f) ==
    /\ t[f].pc = "end"
    /\ t' = [t EXCEPT ![f].pc = "exit"]
    /\ UNCHANGED <<buf, inflight, cq, rin, out, chunks, working>>

----------------------------------------------------------------------------
(* fwd(): the loop of one forwarder thread.                                *)

\* the condition of fwd()'s loop: while (working)
KeepWorkingForever == TRUE
KeepWorking == working

\* a pass of the loop starts the header read (2 bytes, exact), or, without
\* read_hdr, sets sz.i = read_sz and starts the body read (not exact)
LoopEntryNoReset(f, th) ==
    [th EXCEPT !.pc = "rd_loop",
               !.stage = IF ReadHdr[f] THEN "hdr" ELSE "body",
               !.count = IF ReadHdr[f] THEN HSZ ELSE ReadSz[f],
               !.exact = ReadHdr[f]]
LoopEntry(f, th) ==
    [th EXCEPT !.pc = "rd_loop", !.ro = 0,
               !.stage = IF ReadHdr[f] THEN "hdr" ELSE "body",
               !.count = IF ReadHdr[f] THEN HSZ ELSE ReadSz[f],
               !.exact = ReadHdr[f]]

\* the loop top; once working is false, end: unregister the files, free the
\* buffers, return ret
Top(f) ==
    /\ t[f].pc = "top"
    /\ t' = [t EXCEPT ![f] = IF KeepWorking THEN LoopEntry(f, @)
                                            ELSE [@ EXCEPT !.pc = "end"]]
    /\ UNCHANGED <<buf, inflight, cq, rin, out, chunks, working>>

\* the total of the iovecs writev_fd() computes: "count = iovecs[i].iov_len"
\* for each i keeps the last length only
IovTotal(lens) == lens[Len(lens)]

\* the count write_fd() or writev_fd() loops on for a chunk of sz bytes
WriteCountShort(f, sz) == IF WriteHdr[f] THEN IovTotal(<<HSZ, sz>>) ELSE sz - 1
WriteCount(f, sz) == IF WriteHdr[f] THEN IovTotal(<<HSZ, sz>>) ELSE sz

(* What fwd() does with the value r read_fd() returned.  After the header  *)
(* read (ret >= 0 even when read_fd gave up) sz.b is taken from buf[0..1]  *)
(* and the body read of sz.i bytes, exact, follows.  After the body read   *)
(* sz.i = ret: nothing read goes back to the loop top (continue), else     *)
(* the chunk is written.                                                   *)
AfterReadInexact(f, th, r) ==
    IF th.stage = "hdr"
    THEN LET len == DecodeLen(buf[f][0], buf[f][1])
         IN [th EXCEPT !.pc = "rd_loop", !.stage = "body", !.sz = len,
                       !.count = len, !.exact = FALSE, !.ro = 0]
    ELSE IF U16(r) = 0
         THEN [th EXCEPT !.pc = "top", !.sz = 0]
         ELSE [th EXCEPT !.pc = "wr_loop", !.sz = U16(r), !.wo = 0,
                         !.wcount = WriteCount(f, U16(r))]
AfterRead(f, th, r) ==
    IF th.stage = "hdr"
    THEN LET len == DecodeLen(buf[f][0], buf[f][1])
         IN [th EXCEPT !.pc = "rd_loop", !.stage = "body", !.sz = len,
                       !.count = len, !.exact = TRUE, !.ro = 0]
    ELSE IF U16(r) = 0
         THEN [th EXCEPT !.pc = "top", !.sz = 0]
         ELSE [th EXCEPT !.pc = "wr_loop", !.sz = U16(r), !.wo = 0,
                         !.wcount = WriteCount(f, U16(r))]

\* the chunk a body read of r bytes hands to the write
ChunksAfter(f, th, r) ==
    IF th.stage = "body" /\ U16(r) > 0
    THEN Append(chunks[f], Region(buf[f], 0, U16(r)))
    ELSE chunks[f]

(* io_uring_get_sqe() returns NULL only when the submission queue has no  *)
(* free slot.  Every SQE here is submitted at once, so the queue is empty  *)
(* at each get_sqe() and its NULL paths (return -1) cannot be taken.  The  *)
(* requests and CQEs a ring holds are unbounded in the code (stale CQEs    *)
(* pile up); the model does not explore a thread past MaxQueued of them.  *)
AtBound(f) == Len(inflight[f]) + Len(cq[f]) >= MaxQueued

\* io_uring_prep_read(sqe, fd, dst + ro, rem, 0) with rem = count - ro
ReadReqNoRem(th) == [op |-> "read", at |-> th.ro, len |-> th.count]
ReadReq(th) == [op |-> "read", at |-> th.ro, len |-> th.count - th.ro]

(* read_fd(), loop top, while (working && ro < count): io_uring_get_sqe(), *)
(* then a read of count - ro bytes into dst + ro on the registered file 0, *)
(* submitted.                                                              *)
RdSubmit(f) ==
    /\ t[f].pc = "rd_loop"
    /\ working /\ t[f].ro < t[f].count
    /\ ~AtBound(f)
    /\ inflight' = [inflight EXCEPT ![f] = Append(@, ReadReq(t[f]))]
    /\ t' = [t EXCEPT ![f].pc = "rd_wait"]
    /\ UNCHANGED <<buf, cq, rin, out, chunks, working>>

\* read_fd() leaves its loop (stopped, or count bytes read): return ro
RdDone(f) ==
    /\ t[f].pc = "rd_loop"
    /\ ~(working /\ t[f].ro < t[f].count)
    /\ t' = [t EXCEPT ![f] = AfterRead(f, @, @.ro)]
    /\ chunks' = [chunks EXCEPT ![f] = ChunksAfter(f, t[f], t[f].ro)]
    /\ UNCHANGED <<buf, inflight, cq, rin, out, working>>

(* read_fd(): io_uring_wait_cqe() returns the oldest CQE.  An error result *)
(* returns 0 at once, without io_uring_cqe_seen(): the CQE stays at the    *)
(* head of the queue.  Otherwise the CQE is marked seen; 0 bytes loops     *)
(* again; rc bytes advance ro, and a read that is not exact returns.       *)
RdWait(f) ==
    /\ t[f].pc = "rd_wait"
    /\ cq[f] # <<>>
    /\ LET res == Head(cq[f]).res
           th  == [t[f] EXCEPT !.ro = @ + res]
       IN IF res < 0
          THEN /\ t' = [t EXCEPT ![f] = AfterRead(f, @, 0)]
               /\ chunks' = [chunks EXCEPT ![f] = ChunksAfter(f, t[f], 0)]
               /\ UNCHANGED cq
          ELSE /\ cq' = [cq EXCEPT ![f] = Tail(@)]
               /\ IF res > 0 /\ ~t[f].exact
                  THEN /\ t' = [t EXCEPT ![f] = AfterRead(f, th, th.ro)]
                       /\ chunks' = [chunks EXCEPT ![f] = ChunksAfter(f, th, th.ro)]
                  ELSE /\ t' = [t EXCEPT ![f] = [th EXCEPT !.pc = "rd_loop"]]
                       /\ UNCHANGED chunks
    /\ UNCHANGED <<buf, inflight, rin, out, working>>

(* The bytes one write request carries.  write_fd() writes count - wo      *)
(* bytes from src + wo.  writev_fd() resubmits the same two iovecs each    *)
(* time round its loop: &sz.b (2 bytes) then buf (sz.i bytes).             *)
WriteDataNoAdvance(f, th) ==
    IF WriteHdr[f] THEN EncodeLen(th.sz) \o Region(buf[f], 0, th.sz)
                   ELSE Region(buf[f], 0, th.wcount - th.wo)
WriteDataFullCount(f, th) ==
    IF WriteHdr[f] THEN EncodeLen(th.sz) \o Region(buf[f], 0, th.sz)
                   ELSE Region(buf[f], th.wo, th.wcount)
WriteData(f, th) ==
    IF WriteHdr[f] THEN EncodeLen(th.sz) \o Region(buf[f], 0, th.sz)
                   ELSE Region(buf[f], th.wo, th.wcount - th.wo)

(* write_fd() / writev_fd(), loop top, while (working && wo < count):      *)
(* io_uring_get_sqe(), then the write submitted.                          *)
WrSubmit(f) ==
    /\ t[f].pc = "wr_loop"
    /\ working /\ t[f].wo < t[f].wcount
    /\ ~AtBound(f)
    /\ inflight' = [inflight EXCEPT ![f] =
           Append(@, [op |-> "write", data |-> WriteData(f, t[f])])]
    /\ t' = [t EXCEPT ![f].pc = "wr_wait"]
    /\ UNCHANGED <<buf, cq, rin, out, chunks, working>>

\* write_fd() / writev_fd() leave the loop: return 0, back to fwd()'s top
WrDone(f) ==
    /\ t[f].pc = "wr_loop"
    /\ ~(working /\ t[f].wo < t[f].wcount)
    /\ t' = [t EXCEPT ![f].pc = "top"]
    /\ UNCHANGED <<buf, inflight, cq, rin, out, chunks, working>>

(* write_fd() / writev_fd(): the oldest CQE, marked seen; an error returns *)
(* (-2 from write_fd, the error from writev_fd) and fwd() goes to end;     *)
(* else wo += wc.                                                          *)
\* what the thread's write helper returns for a failed write: write_fd()
\* returns -2, writev_fd() the CQE's error
WriteErrorRet(f, wc) == IF WriteHdr[f] THEN wc ELSE -2

WrWait(f) ==
    /\ t[f].pc = "wr_wait"
    /\ cq[f] # <<>>
    /\ LET wc == Head(cq[f]).res
       IN /\ cq' = [cq EXCEPT ![f] = Tail(@)]
          /\ t' = [t EXCEPT ![f] =
                     IF wc < 0
                     THEN [@ EXCEPT !.pc = "end",
                                    !.ret = WriteErrorRet(f, wc)]
                     ELSE [@ EXCEPT !.pc = "wr_loop", !.wo = @ + wc]]
    /\ UNCHANGED <<buf, inflight, rin, out, chunks, working>>

Thread(f) ==
    Spawn(f) \/ Setup(f) \/ End(f) \/ Top(f) \/ RdSubmit(f) \/ RdDone(f) \/ RdWait(f)
    \/ WrSubmit(f) \/ WrDone(f) \/ WrWait(f)

----------------------------------------------------------------------------
(* The kernel and the rest of the process.                                 *)

\* the results a read of n bytes from R may complete with
ReadResults(f, n) ==
    (IF rin[f] # <<>> THEN 1..Min({n, Len(rin[f])}) ELSE {})
    \cup (IF rin[f] = <<>> /\ InputClosed THEN {0} ELSE {})
    \cup (IF ReadErrors THEN {-EINTR} ELSE {})

\* the results a write of the bytes d to W may complete with
WriteResults(f, d) ==
    (IF AtomicWrite[f] THEN {Len(d)} ELSE 1..Len(d))
    \cup (IF WriteErrors THEN {-EPIPE} ELSE {})

(* The kernel carries out one in-flight request of f's ring and queues its *)
(* CQE: a read copies the bytes it takes from R to buf + at, a write       *)
(* appends the bytes it takes to W.                                        *)
Complete(f) ==
    /\ \E i \in 1..Len(inflight[f]) :
        LET r == inflight[f][i]
        IN /\ inflight' = [inflight EXCEPT ![f] = RemoveAt(@, i)]
           /\ IF r.op = "read"
              THEN \E res \in ReadResults(f, r.len) :
                     /\ cq' = [cq EXCEPT ![f] = Append(@, [res |-> res])]
                     /\ IF res > 0
                        THEN /\ buf' = [buf EXCEPT ![f] =
                                          Store(@, r.at, SubSeq(rin[f], 1, res))]
                             /\ rin' = [rin EXCEPT ![f] = SubSeq(@, res + 1, Len(@))]
                        ELSE UNCHANGED <<buf, rin>>
                     /\ UNCHANGED out
              ELSE \E res \in WriteResults(f, r.data) :
                     /\ cq' = [cq EXCEPT ![f] = Append(@, [res |-> res])]
                     /\ out' = [out EXCEPT ![f] =
                                  IF res > 0 THEN @ \o SubSeq(r.data, 1, res) ELSE @]
                     /\ UNCHANGED <<buf, rin>>
    /\ UNCHANGED <<t, chunks, working>>

\* fwd_stop(): working = false
Stop ==
    /\ MayStop /\ working
    /\ working' = FALSE
    /\ UNCHANGED <<t, buf, inflight, cq, rin, out, chunks>>

\* every thread has returned, or is held at the model's bound
Quiescent ==
    /\ \A f \in Fwds : t[f].pc = "exit" \/ AtBound(f)
    /\ UNCHANGED vars

Next ==
    \/ \E f \in Fwds : Thread(f) \/ Complete(f)
    \/ Stop
    \/ Quiescent

(* Each thread runs whenever it can, and the kernel carries out every      *)
(* request it can (a read as soon as R has data or is closed).  Nothing    *)
(* obliges anyone to call fwd_stop().                                      *)
Spec ==
    /\ Init /\ [][Next]_vars
    /\ \A f \in Fwds : WF_vars(Thread(f)) /\ WF_vars(Complete(f))

----------------------------------------------------------------------------
(* Properties.                                                             *)

TypeOK ==
    /\ t \in [Fwds -> ThreadState]
    /\ working \in BOOLEAN
    /\ \A f \in Fwds :
          /\ buf[f] \in [0..ReadSz[f] - 1 -> Byte \cup Garbage]
          /\ rin[f] \in Seq(Byte)
          /\ out[f] \in Seq(Byte)
          /\ cq[f] \in Seq([res : Int])

\* what W should carry for a chunk: its length and bytes with WriteHdr,
\* its bytes alone without
Emit(f, c) == IF WriteHdr[f] THEN Framed(c) ELSE c
Expected(f) == FlattenSeq([i \in DOMAIN chunks[f] |-> Emit(f, chunks[f][i])])

(* The chunks whose bytes W has received in full, when W carries bare     *)
(* chunks: the longest prefix of cs whose bytes start o.                  *)
RECURSIVE WholeChunks(_, _)
WholeChunks(cs, o) ==
    IF cs = <<>> \/ ~IsPrefix(Head(cs), o) THEN <<>>
    ELSE <<Head(cs)>> \o WholeChunks(Tail(cs), SubSeq(o, Len(Head(cs)) + 1, Len(o)))

\* the chunks a reader of W recovers from what f wrote
Received(f) == IF WriteHdr[f] THEN Unframe(out[f]) ELSE WholeChunks(chunks[f], out[f])

(* The forwarders seen as Channel directions, one per thread: each chunk *)
(* a body read hands on is handed over; what a reader of W recovers is    *)
(* delivered; a direction is open while working is set and its thread    *)
(* has not reached end:, and while a write it submitted is in flight.     *)
WriteInFlight(f) == \E i \in DOMAIN inflight[f] : inflight[f][i].op = "write"

Bridge == INSTANCE Channel
    WITH Dirs <- Fwds,
         sent <- chunks,
         delivered <- [f \in Fwds |-> Received(f)],
         open <- [f \in Fwds |-> \/ working /\ t[f].pc \notin {"end", "exit"}
                                 \/ WriteInFlight(f)]

(* Forwarding refinement (spec sections 4.4 and 8, invariants 1 and 3):    *)
(* every chunk a forwarder reads reaches W whole, once, in order, framed   *)
(* when write_hdr is set, and eventually, until fwd_stop() or a fatal     *)
(* error ends the thread, whatever short writes and interleavings the     *)
(* ring sees.                                                             *)
ForwardingChannel == Bridge!Spec

(* Output framing (spec section 8, invariant 1, and section 5): what each  *)
(* forwarder has written to W is a prefix of its chunks, each emitted      *)
(* once, in order, as one unit, through any sequence of short writes.      *)
OutputFraming == \A f \in Fwds : IsPrefix(out[f], Expected(f))

(* Chunking: a forwarder with ReadHdr hands on exactly the non-empty       *)
(* payloads the sender framed on R, one chunk per frame, in order (an      *)
(* empty frame emits nothing, spec section 8, L = 0); one without ReadHdr  *)
(* hands on the bytes of R in order, however the reads split them.  Once   *)
(* fwd_stop() was called, read_fd() returns what it has so far, and the    *)
(* last chunk may be cut short (it is then never written: the write loop   *)
(* checks working first).                                                  *)
ChunksOk(f, cs) ==
    IF ReadHdr[f] THEN IsPrefix(cs, SelectSeq(Frames[f], LAMBDA c : c # <<>>))
                  ELSE IsPrefix(FlattenSeq(cs), Input(f))
ChunksFromInput ==
    \A f \in Fwds :
        \/ ChunksOk(f, chunks[f])
        \/ ~working /\ ChunksOk(f, Front(chunks[f]))

(* No read request reaches past the end of the read_sz-byte buffer: the    *)
(* length read from a header is never larger than buf.                     *)
BufInBounds ==
    \A f \in Fwds : \A i \in 1..Len(inflight[f]) :
        inflight[f][i].op = "read" =>
            inflight[f][i].at + inflight[f][i].len <= ReadSz[f]

\* the thread returned a fatal error: W failed, or it could not be started
\* or set up
Failed(f) == t[f].pc = "exit" /\ t[f].ret \in {-2, -EPIPE, -ENOMEM, -EBADF, ThrdError}

\* all of R handed on as chunks and all of them written to W
Forwarded(f) ==
    /\ FlattenSeq(chunks[f]) =
         (IF ReadHdr[f] THEN FlattenSeq(Frames[f]) ELSE Input(f))
    /\ out[f] = Expected(f)

(* Every forwarder eventually copies everything its sender put on R to W,  *)
(* unless fwd_stop() was called or a fatal error ended the thread: a     *)
(* transient read error is retried (spec section 7) and never wedges the  *)
(* thread.                                                                 *)
EventuallyForwarded ==
    \A f \in Fwds : <>(Forwarded(f) \/ ~working \/ Failed(f))

(* After fwd_stop(), every forwarder thread eventually returns (spec       *)
(* section 8, invariant 4).                                                *)
StopTerminates == ~working ~> \A f \in Fwds : t[f].pc = "exit"

(* At end of input a forwarder exits cleanly (spec section 4.4, step 4):   *)
(* once the sender has closed R, every thread eventually returns.         *)
ExitsAtEndOfInput == InputClosed => \A f \in Fwds : <>(t[f].pc = "exit")

=============================================================================
