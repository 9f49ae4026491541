-------------------------------- MODULE Pump --------------------------------
(***************************************************************************)
(* The datagram pump: pump() in network.c, run by main() in pump.c.        *)
(*                                                                         *)
(* One thread loops on select() over the TAP descriptor and the bound,     *)
(* non-blocking read socket.  If the TAP is readable it reads one frame    *)
(* into rbuf + 2, writes the length into rbuf[0..1] and sendto()s the      *)
(* frame to the peer's socket (a blocking socket: sendto waits while the   *)
(* peer's receive queue is full).  If the read socket is readable it       *)
(* recvfrom()s one datagram into wbuf, decodes the length from wbuf[0..1]  *)
(* and writes that many bytes from wbuf + 2 to the TAP.                    *)
(*                                                                         *)
(* The environment is the TAP (frames the kernel queues on it), the peer   *)
(* on the other end of the two sockets (datagrams it queues on the read    *)
(* socket, datagrams it drains from its own socket, and its closing), and  *)
(* it appears here as separate actions.                                    *)
(*                                                                         *)
(* AF_UNIX datagram sends are all or nothing and writes to a TAP inject    *)
(* the whole frame, so roff and woff never hold a partial offset between   *)
(* two steps: the code's offset arithmetic is evaluated inside the action  *)
(* that does the transfer.                                                 *)
(***************************************************************************)
EXTENDS Integers, Sequences, SequencesExt, Codec

CONSTANTS
    MtuArg,      \* the mtu argument of pump() (argv[6] of main)
    MinMtu,      \* MIN_MTU of pump.c (576 + 14), scaled with the MTU
    TapFrames,   \* frames the TAP may hand to read(): byte sequences
    PeerDgrams,  \* datagrams the peer may send to the read socket
    MaxFrames,   \* bound on the frames the TAP produces in a behaviour
    MaxDgrams,   \* bound on the datagrams the peer sends in a behaviour
    WireCap,     \* datagrams the peer's receive queue holds
    SockCap,     \* datagrams the read socket's receive queue holds
    PeerMayClose, \* whether the peer may close its socket
    PeerMayRestart, \* whether a closed peer may bind write_sock again
    StartupFails, \* whether socket(), bind(), chmod() and the TAP's open()
                  \* or ioctl() may fail
    WriteAddrLen, \* offsetof(sun_path) + strlen(write_sock): the address
                  \* length sendto() needs to name the peer's socket
    PeerAddrLen,  \* the address length recvfrom() reports for the peer's
                  \* sending socket (UnboundAddrLen for an unbound one)
    AliasChoices  \* whether main() may be given the same path as read.sock
                  \* and write.sock (spec 4.3: the sockets may alias)

ASSUME MtuArg \in Nat /\ MinMtu \in Nat /\ MaxFrames \in Nat /\ MaxDgrams \in Nat
ASSUME WireCap \in Nat \ {0} /\ SockCap \in Nat \ {0}

\* mtu += hsz; char rbuf[mtu], wbuf[mtu]
BufSz == MtuArg + HSZ

Byte == 0..255

\* errno of a sendto() to a socket nobody is bound to any more (Linux)
ECONNREFUSED == 111
EINVAL == 22
ENOENT == 2

\* sizeof(struct sockaddr_un), and the length of an address that names no path
SockaddrUnLen == 110
SaFamilyLen == 2

\* recvfrom() from a socket that was never bound: Linux copies no address
\* and leaves the length at 0
UnboundAddrLen == 0

VARIABLES
    pc,        \* "start" in main(), then in pump(): "select", "tap", "send",
               \* "sock"; "done" once the process exits
    ready,     \* the readset select() returned
    rbuf,      \* TAP -> socket staging buffer
    rtotal,    \* bytes of the frame in rbuf (0 when idle)
    wbuf,      \* socket -> TAP staging buffer
    ret,       \* pump()'s return value once it returned
    exitCode,  \* main()'s exit status once it returned
    tapIn,     \* frames queued on the TAP, not yet read
    tapTaken,  \* history: frames read from the TAP, in order
    sockIn,    \* datagrams queued on the read socket
    recvd,     \* history: datagrams received from the read socket, in order
    wire,      \* history: datagrams sent to the peer, in order
    nPeerRead, \* how many of them have left the peer's queue (drained, or
               \* discarded with a closed socket)
    tapOut,    \* history: frames written to the TAP, in order
    peer,      \* the peer's socket: "unbound" (not yet), "up", "closed"
    addrSz,    \* addr_sz: recvfrom()'s address-length result, sendto()'s
               \* address-length argument
    connAlive, \* the socket connect() attached write_fd to is still open
    aliased    \* read_sock and write_sock are the same path

pumpVars == <<pc, ready, rbuf, rtotal, wbuf, ret, exitCode, addrSz, aliased>>
envVars == <<tapIn, tapTaken, sockIn, recvd, wire, nPeerRead, tapOut, peer, connAlive>>

\* the peer's socket is bound at write_sock and receiving
peerUp == peer = "up"

vars == <<pumpVars, envVars>>

Init ==
    /\ pc = "start"
    /\ ready = [tun |-> FALSE, sock |-> FALSE]
    /\ rbuf = [i \in 0..BufSz - 1 |-> 0]     \* memset(&rbuf, 0, ...)
    /\ wbuf = [i \in 0..BufSz - 1 |-> 0]     \* memset(&wbuf, 0, ...)
    /\ rtotal = 0
    /\ ret = 0
    /\ exitCode = 0
    /\ tapIn = <<>>
    /\ tapTaken = <<>>
    /\ sockIn = <<>>
    /\ recvd = <<>>
    /\ wire = <<>>
    /\ nPeerRead = 0
    /\ tapOut = <<>>
    /\ peer = "unbound"
    /\ addrSz = SockaddrUnLen                \* unsigned addr_sz = sizeof(...)
    /\ connAlive = FALSE
    /\ aliased \in AliasChoices

----------------------------------------------------------------------------
(* The pump thread.                                                        *)

\* die(): close the descriptors opened so far and exit(1)
Die ==
    /\ exitCode' = 1
    /\ pc' = "done"

(* main(): argc and the mtu checked (below MIN_MTU: die), then the         *)
(* sockets and the TAP made one after the other, each CHECK()ed: a -1      *)
(* result ends in die().                                                   *)
Start ==
    /\ pc = "start"
    /\ IF MtuArg >= MinMtu THEN pc' = "rsock" /\ UNCHANGED exitCode
                           ELSE Die
    /\ UNCHANGED <<ready, rbuf, rtotal, wbuf, ret, addrSz, aliased>>
    /\ UNCHANGED envVars

(* net_create_unix_socket(read_sock, 0): socket(), O_NONBLOCK, unlink()    *)
(* and bind() to read_sock, chmod(); socket(), bind() or chmod() failing   *)
(* gives -1.  (fcntl() cannot fail on the fresh socket.)  When write_sock  *)
(* is the same path, the socket bound there is now the pump's own.         *)
CreateReadSocket ==
    /\ pc = "rsock"
    /\ \/ /\ pc' = "wsock"
          /\ peer' = IF aliased THEN "up" ELSE peer
          /\ UNCHANGED exitCode
       \/ /\ StartupFails
          /\ Die
          /\ UNCHANGED peer
    /\ UNCHANGED <<ready, rbuf, rtotal, wbuf, ret, addrSz, aliased>>
    /\ UNCHANGED <<tapIn, tapTaken, sockIn, recvd, wire, nPeerRead, tapOut, connAlive>>

(* net_connect_unix_socket(write_sock): socket() and connect() to          *)
(* write_sock, which fails (-1) unless a socket is bound there by now.    *)
(* The connection stays with that socket, whatever is bound there later.  *)
ConnectWriteSocket ==
    /\ pc = "wsock"
    /\ \/ /\ peerUp
          /\ pc' = "tapdev"
          /\ connAlive' = TRUE
          /\ UNCHANGED exitCode
       \/ /\ ~peerUp
          /\ Die
          /\ UNCHANGED connAlive
    /\ UNCHANGED <<ready, rbuf, rtotal, wbuf, ret, addrSz, aliased>>
    /\ UNCHANGED <<tapIn, tapTaken, sockIn, recvd, wire, nPeerRead, tapOut, peer>>

(* net_create_tap(tap): open("/dev/net/tun") and TUNSETIFF; either failing *)
(* gives -1 (CHECK: die), else main() calls pump().                        *)
CreateTap ==
    /\ pc = "tapdev"
    /\ \/ /\ pc' = "select"
          /\ UNCHANGED exitCode
       \/ /\ StartupFails
          /\ Die
    /\ UNCHANGED <<ready, rbuf, rtotal, wbuf, ret, addrSz, aliased>>
    /\ UNCHANGED envVars

\* the descriptors select() is told to watch: FD_SET(tun_fd), FD_SET(read_fd)
Watched == {"tun", "sock"}

\* whether each descriptor has data to read
Readable == [tun |-> tapIn # <<>>, sock |-> sockIn # <<>>]

\* select() blocks until a watched descriptor is readable
Select ==
    /\ pc = "select"
    /\ \E fd \in Watched : Readable[fd]
    /\ ready' = [fd \in {"tun", "sock"} |-> fd \in Watched /\ Readable[fd]]
    /\ pc' = "tap"
    /\ UNCHANGED <<rbuf, rtotal, wbuf, ret, exitCode, addrSz, aliased>>
    /\ UNCHANGED envVars

\* FD_ISSET(tun_fd) is false: on to the socket branch
TapSkip ==
    /\ pc = "tap"
    /\ ~ready.tun
    /\ pc' = "sock"
    /\ UNCHANGED <<ready, rbuf, rtotal, wbuf, ret, exitCode, addrSz, aliased>>
    /\ UNCHANGED envVars

(* rtotal == 0: read(tun_fd, rbuf + hsz, mtu) with mtu already MtuArg + 2, *)
(* so the TAP hands over up to MtuArg + 2 bytes of its next frame (the     *)
(* rest of a longer frame is discarded) into a buffer of MtuArg + 2 bytes  *)
(* at offset 2; view->i = count; rtotal = count + hsz; roff = 0.           *)
\* view->i = count: the header of the frame in rbuf
TapHeaderTotal(count) == EncodeLen(count + HSZ)
TapHeader(count) == EncodeLen(count)

TapRead ==
    /\ pc = "tap"
    /\ ready.tun
    /\ rtotal = 0
    /\ LET f     == Head(tapIn)
           count == IF Len(f) < BufSz THEN Len(f) ELSE BufSz
       IN /\ rbuf' = Store(Store(rbuf, HSZ, SubSeq(f, 1, count)), 0, TapHeader(count))
          /\ rtotal' = count + HSZ
          /\ tapIn' = Tail(tapIn)
          /\ tapTaken' = Append(tapTaken, f)
    /\ pc' = "send"
    /\ UNCHANGED <<ready, wbuf, ret, exitCode, addrSz, aliased>>
    /\ UNCHANGED <<sockIn, recvd, wire, nPeerRead, tapOut, peer, connAlive>>

(* sendto(write_fd, rbuf + roff, rtotal - roff, 0, &write_un, addr_sz) on *)
(* a blocking socket.  addr_sz is what the last recvfrom() stored in it.   *)
(* 0 names no address, and the kernel sends to the socket write_fd was     *)
(* connected to, refusing (ECONNREFUSED) once that socket is closed.  A    *)
(* length with no room for a path is rejected (EINVAL), one too short for  *)
(* write_sock's path looks up a truncated path (ENOENT), and a long enough *)
(* one reaches whatever socket is bound at write_sock now (ECONNREFUSED    *)
(* when none is).  sendto waits while that socket's queue is full, then    *)
(* queues the whole datagram (roff += count; roff >= rtotal resets both).  *)
(* On an error pump() returns errno; main() prints "... done." and returns *)
(* 0.                                                                      *)
\* the length passed to sendto(): rtotal - roff
SendLenPlusOne(roff, total) == total - roff + 1
SendLen(roff, total) == total - roff

\* the address length passed to sendto()
SendToAddrLenFamily == SaFamilyLen
SendToAddrLen == addrSz

\* the kernel resolves write_un with this length to the socket at write_sock
AddrNamesPeer(len) == len >= WriteAddrLen

\* a sendto() given this address length reaches a socket that receives
Reaches(len) ==
    IF len = UnboundAddrLen THEN connAlive ELSE AddrNamesPeer(len) /\ peerUp

\* the errno of a failed sendto(): the address is checked before the socket
SendToErrno(len) ==
    CASE len = UnboundAddrLen  -> ECONNREFUSED
      [] len <= SaFamilyLen    -> EINVAL
      [] ~AddrNamesPeer(len)   -> ENOENT
      [] OTHER                 -> ECONNREFUSED

\* the socket bound at write_sock queues datagram d: the peer's socket, or
\* with aliased paths the pump's own read socket
QueueAtWriteSock(d) ==
    /\ wire' = Append(wire, d)
    /\ \/ /\ ~aliased
          /\ Len(wire) - nPeerRead < WireCap
          /\ UNCHANGED <<sockIn, nPeerRead>>
       \/ /\ aliased
          /\ Len(sockIn) < SockCap
          /\ sockIn' = Append(sockIn, d)
          /\ nPeerRead' = Len(wire')

\* main() after pump() returned: its result is dropped, "... done." is
\* printed, and main() returns 0
MainExitCode == 0

SendTo ==
    /\ pc = "send"
    /\ \/ /\ Reaches(SendToAddrLen)
          /\ QueueAtWriteSock(Region(rbuf, 0, SendLen(0, rtotal)))
          /\ rtotal' = 0
          /\ pc' = "sock"
          /\ UNCHANGED <<ret, exitCode>>
       \/ /\ ~Reaches(SendToAddrLen)
          /\ ret' = SendToErrno(SendToAddrLen)
          /\ exitCode' = MainExitCode
          /\ pc' = "done"
          /\ UNCHANGED <<rtotal, wire, sockIn, nPeerRead>>
    /\ UNCHANGED <<ready, rbuf, wbuf, addrSz, aliased>>
    /\ UNCHANGED <<tapIn, tapTaken, recvd, tapOut, peer, connAlive>>

\* FD_ISSET(read_fd) is false: back to select()
SockSkip ==
    /\ pc = "sock"
    /\ ~ready.sock
    /\ pc' = "select"
    /\ UNCHANGED <<ready, rbuf, rtotal, wbuf, ret, exitCode, addrSz, aliased>>
    /\ UNCHANGED envVars

(* wtotal == 0: recvfrom(read_fd, wbuf, mtu) takes the next datagram,      *)
(* truncated to the buffer; an empty one is skipped (continue).  Else      *)
(* wtotal = view->i, decoded from wbuf[0..1] whatever the datagram's size, *)
(* and if woff < wtotal the TAP is written wtotal bytes from wbuf + hsz    *)
(* (the TAP takes the whole frame, so woff reaches wtotal and both reset). *)
\* where write(tun_fd, ...) starts in wbuf: wbuf + woff + hsz
TapWriteFrom(woff) == woff + HSZ

\* the address length recvfrom() stores in addr_sz: the sender is the peer,
\* or with aliased paths the pump's own write_fd, which is never bound
SenderAddrLen == IF aliased THEN UnboundAddrLen ELSE PeerAddrLen

SockRecv ==
    /\ pc = "sock"
    /\ ready.sock
    /\ LET d      == Head(sockIn)
           count  == IF Len(d) < BufSz THEN Len(d) ELSE BufSz
           buf    == Store(wbuf, 0, SubSeq(d, 1, count))
           wtotal == DecodeLen(buf[0], buf[1])
       IN /\ sockIn' = Tail(sockIn)
          /\ recvd' = Append(recvd, d)
          /\ wbuf' = buf
          /\ addrSz' = SenderAddrLen
          /\ tapOut' = IF count > 0 /\ 0 < wtotal
                       THEN Append(tapOut, Region(buf, TapWriteFrom(0), wtotal))
                       ELSE tapOut
    /\ pc' = "select"
    /\ UNCHANGED <<ready, rbuf, rtotal, ret, exitCode, aliased>>
    /\ UNCHANGED <<tapIn, tapTaken, wire, nPeerRead, peer, connAlive>>

PumpStep == Start \/ CreateReadSocket \/ ConnectWriteSocket \/ CreateTap \/ Select \/ TapSkip \/ TapRead \/ SendTo \/ SockSkip \/ SockRecv

----------------------------------------------------------------------------
(* The environment: the TAP and the peer.                                  *)

\* the kernel queues a frame on the TAP
TapProduce ==
    /\ Len(tapTaken) + Len(tapIn) < MaxFrames
    /\ \E f \in TapFrames : tapIn' = Append(tapIn, f)
    /\ UNCHANGED pumpVars
    /\ UNCHANGED <<tapTaken, sockIn, recvd, wire, nPeerRead, tapOut, peer, connAlive>>

\* the peer sends a datagram to the read socket, once the pump has bound it
\* and while its process has not exited (there is no peer when the paths
\* are aliased)
PeerSend ==
    /\ ~aliased
    /\ peerUp
    /\ pc \notin {"start", "rsock", "done"}
    /\ Len(recvd) + Len(sockIn) < MaxDgrams
    /\ Len(sockIn) < SockCap
    /\ \E d \in PeerDgrams : sockIn' = Append(sockIn, d)
    /\ UNCHANGED pumpVars
    /\ UNCHANGED <<tapIn, tapTaken, recvd, wire, nPeerRead, tapOut, peer, connAlive>>

\* the peer drains one datagram from its socket
PeerRecv ==
    /\ peerUp
    /\ nPeerRead < Len(wire)
    /\ nPeerRead' = nPeerRead + 1
    /\ UNCHANGED pumpVars
    /\ UNCHANGED <<tapIn, tapTaken, sockIn, recvd, wire, tapOut, peer, connAlive>>

\* the peer binds its socket at write_sock
PeerBind ==
    /\ ~aliased
    /\ peer = "unbound"
    /\ peer' = "up"
    /\ UNCHANGED pumpVars
    /\ UNCHANGED <<tapIn, tapTaken, sockIn, recvd, wire, nPeerRead, tapOut, connAlive>>

\* the peer closes its socket (it exits, or restarts); the datagrams still
\* queued on it go with it, and a connection to it is dead
PeerClose ==
    /\ PeerMayClose
    /\ ~aliased
    /\ peerUp
    /\ peer' = "closed"
    /\ nPeerRead' = Len(wire)
    /\ connAlive' = FALSE
    /\ UNCHANGED pumpVars
    /\ UNCHANGED <<tapIn, tapTaken, sockIn, recvd, wire, tapOut>>

\* a restarted peer binds a new socket at write_sock; sendto() names the
\* path, so it reaches the new socket
PeerRestart ==
    /\ PeerMayRestart
    /\ peer = "closed"
    /\ peer' = "up"
    /\ UNCHANGED pumpVars
    /\ UNCHANGED <<tapIn, tapTaken, sockIn, recvd, wire, nPeerRead, tapOut, connAlive>>

\* nothing more can happen: the pump returned, or it waits in select() and
\* the bounded environment has nothing left to give it
Quiescent ==
    /\ \/ pc = "done"
       \/ /\ pc = "select"
          /\ tapIn = <<>> /\ sockIn = <<>>
          /\ Len(tapTaken) = MaxFrames
          /\ Len(recvd) = MaxDgrams \/ ~peerUp \/ aliased
          /\ nPeerRead = Len(wire) \/ ~peerUp
    /\ UNCHANGED vars

Next ==
    \/ PumpStep
    \/ TapProduce \/ PeerBind \/ PeerSend \/ PeerRecv \/ PeerClose \/ PeerRestart
    \/ Quiescent

(* The pump is one thread that runs whenever it is not blocked, and the    *)
(* peer is assumed to keep draining its socket.  Nothing obliges the TAP   *)
(* or the peer to send anything.                                           *)
Spec == Init /\ [][Next]_vars /\ WF_vars(PumpStep) /\ WF_vars(PeerRecv)

\* the same without the assumption that the peer drains its socket
SpecNoDrain == Init /\ [][Next]_vars /\ WF_vars(PumpStep)

----------------------------------------------------------------------------
(* Properties.                                                             *)

TypeOK ==
    /\ pc \in {"start", "rsock", "wsock", "tapdev", "select", "tap", "send", "sock", "done"}
    /\ peer \in {"unbound", "up", "closed"}
    /\ ready \in [tun : BOOLEAN, sock : BOOLEAN]
    /\ rbuf \in [0..BufSz - 1 -> Byte]
    /\ wbuf \in [0..BufSz - 1 -> Byte]
    /\ rtotal \in 0..BufSz
    /\ wire \in Seq(Seq(Byte))
    /\ tapOut \in Seq(Seq(Byte))
    /\ nPeerRead \in 0..Len(wire)
    /\ addrSz \in {SockaddrUnLen, PeerAddrLen, UnboundAddrLen}
    /\ connAlive \in BOOLEAN
    /\ aliased \in BOOLEAN

(* The two directions of the pump seen as a Channel.  Egress: the frames *)
(* the TAP queued are handed over, the datagrams on the wire, deframed by  *)
(* the length in their header, are delivered.  Ingress: the non-empty     *)
(* payloads of the datagrams the peer queued are handed over, the frames  *)
(* written to the TAP are delivered.  With aliased paths the wire runs    *)
(* back into the read socket, and egress is the whole loop: from the      *)
(* frames the TAP queued to the frames written back to it.  Both are open *)
(* until pump() or main() returns.                                        *)
Deframe(w) ==
    [i \in 1..DecodeLen(w[1], w[2]) |-> IF HSZ + i <= Len(w) THEN w[HSZ + i] ELSE Beyond]
Payload(d) == SubSeq(d, HSZ + 1, Len(d))
NonEmptyPayloads(ds) ==
    SelectSeq([i \in 1..Len(ds) |-> Payload(ds[i])], LAMBDA p : p # <<>>)

Bridge == INSTANCE Channel
    WITH Dirs <- {"egress", "ingress"},
         sent <- IF aliased
                 THEN [egress |-> tapTaken \o tapIn, ingress |-> <<>>]
                 ELSE [egress |-> tapTaken \o tapIn,
                       ingress |-> NonEmptyPayloads(recvd \o sockIn)],
         delivered <- IF aliased
                      THEN [egress |-> tapOut, ingress |-> <<>>]
                      ELSE [egress |-> [i \in 1..Len(wire) |-> Deframe(wire[i])],
                            ingress |-> tapOut],
         open <- [d \in {"egress", "ingress"} |-> pc # "done"]

(* Bridge refinement (spec section 8, invariants 1 to 3 and the loopback  *)
(* round trip): every frame the TAP queues is sent framed with its own    *)
(* length, and every non-empty payload the peer sends is written to the   *)
(* TAP, each unchanged, in order, exactly once and eventually, unless     *)
(* pump() has returned.  With aliased paths every TAP frame comes back to *)
(* the TAP: the pump's blocking sendto() into its own read socket never   *)
(* waits for good, and addr_sz, set to 0 by recvfrom() from the unbound   *)
(* write_fd, still reaches the read socket through the connection.        *)
(* TapRead's header, SendTo's length and address, SockRecv's decode and   *)
(* write, and select()'s scheduling of the two directions together        *)
(* implement the channel.                                                 *)
BridgeChannel == Bridge!Spec

(* TapRead never lets read() copy past the end of rbuf: the frame plus its *)
(* 2-byte header fit in the MtuArg + 2 bytes of the array.                 *)
RbufInBounds == rtotal <= BufSz

(* A datagram whose decoded length exceeds the MTU is dropped (spec 4.3,   *)
(* edge cases): SockRecv never writes more than MtuArg bytes to the TAP.   *)
IngressWithinMtu == \A i \in 1..Len(tapOut) : Len(tapOut[i]) <= MtuArg

(* pump() fails only because the peer has gone (spec section 4.3: the    *)
(* pump runs until shutdown or an unrecoverable error): no step returns   *)
(* an error from pump() while the peer's socket is bound and up, across   *)
(* peer restarts.  sendto() reuses addr_sz, which every recvfrom()        *)
(* overwrites with the length of the sender's address, and so must still  *)
(* name write_sock after any number of datagrams from the peer.           *)
PumpFailsOnlyWhenPeerGone ==
    [][(pc' = "done" /\ pc # "done" /\ ret' # 0) => ~peerUp]_vars

(* A fatal pump error is reported (spec section 7: fatal errors exit 1):  *)
(* once pump() has returned an error, the process exit status is not 0.   *)
ExitStatusReportsError == (pc = "done" /\ ret # 0) => exitCode # 0

(* Every datagram the peer queued on the read socket is eventually         *)
(* received and written to the TAP, unless the pump has returned: the TAP  *)
(* direction never starves the socket direction.                           *)
IngressDelivered ==
    \A n \in 1..MaxDgrams :
        (Len(recvd) + Len(sockIn) >= n) ~> (Len(recvd) >= n \/ pc = "done")

=============================================================================
