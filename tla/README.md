# TLA+ models of the docker-tap pump

This directory holds TLA+ models of `src/exe-unit/docker-tap/pump`. That is the
small C program that joins a container's TAP device to the host through
AF_UNIX datagram sockets. TLC checks the models.

## The system

| part | source | what it does |
|---|---|---|
| frame codec | `network.c` `union b_u16`; `forward.c` `sz` | 2-byte little-endian length header in front of every frame |
| datagram pump | `network.c` `pump()` | single thread. `select()` on the TAP fd and the read socket. TAP frame → header + frame → `sendto()` on the blocking write socket. Datagram → `recvfrom()` → decode header → `write()` to the TAP |
| process entry | `pump.c` `main()` | checks the MTU, creates the sockets and the TAP (`CHECK` → `die()` exits 1), calls `pump()`, returns 0 |
| io_uring primitives | `forward.c` `read_fd`, `write_fd`, `writev_fd` | loops of get_sqe / prep / submit / wait_cqe / cqe_seen on the calling thread's ring |
| forwarder loop | `forward.c` `fwd()` | per-thread loop. Optionally read a 2-byte header and then exactly that many bytes; otherwise read up to `read_sz`. Then write the chunk, optionally behind a header with `writev` |
| forwarder control | `forward.c` `fwd_start`, `fwd_start_inplace`, `fwd_stop`, `working` | starts a forwarder on a new thread or on the caller's; `fwd_stop()` clears a shared plain `int` |
| interface setup | `network.c` `net_create_lo`, `net_if_*`, `net_route*` | ioctl wrappers with no caller in this repository: not modelled (see below) |

The pump and the forwarder are two separate implementations of the same
bridge. `main()` uses the pump. The forwarder is a thread pair: one thread
runs socket→TAP with `read_hdr`, the other runs TAP→socket with `write_hdr`.
Each side interacts with its environment: the kernel TAP queue, the peer
process on the other end of the sockets, and the io_uring completion queue.

## Modules

* `Channel.tla`: the abstract specification. It describes a set of
  independent directions `Dirs`. Each direction delivers the frames handed
  to it in order, exactly once and unchanged, until it is closed. Weak
  fairness on `Deliver(d)` says that a waiting frame on an open direction is
  eventually delivered. The last delivery may coincide with the close.
* `Codec.tla`:
  * `HSZ`, `U16` (the truncation of a `uint16_t`), `EncodeLen` and
    `DecodeLen` (the union's little-endian bytes), `Framed`.
  * `Unframe` (RECURSIVE): the payloads a receiver parses from a framed
    byte stream. An `ASSUME` in `MCForwarder` checks it against `Framed`
    over all payload sequences up to length 2, including cut-off streams.
  * `Region`/`Store`: read or write a C array modelled as a function
    `0..n-1 -> Byte`. A read past the end gives the model value `Beyond`, so
    an out-of-bounds access shows up in the state.
* `Pump.tla`: `main()`, the three constructors it `CHECK`s, and `pump()`.
  * `pc` is the point in the program.
  * `rbuf`, `wbuf`, `rtotal` and `addrSz` (`addr_sz`) are the C variables.
  * `aliased` is chosen in `Init` from `AliasChoices`. It records whether
    main() was given the same path for read.sock and write.sock, which
    spec section 4.3 allows.
  * `connAlive` records whether the socket that `connect()` attached
    `write_fd` to is still open.
  * `ret` and `exitCode` are what `pump()` and the process return.
  * Startup actions: `Start` (argc/MTU check), `CreateReadSocket`,
    `ConnectWriteSocket` and `CreateTap`. Each leads to `Die` (exit 1) on
    a -1 result. The connect fails unless a socket is already bound at
    `write_sock`. With aliased paths, that socket is the pump's own read
    socket.
  * Loop actions: `Select`, `TapSkip`/`TapRead`, `SendTo`, and
    `SockSkip`/`SockRecv` (which includes the TAP write).
  * `SendTo` passes `addr_sz` as `write_un`'s length (`Reaches`,
    `SendToErrno`):
    * A length of 0 names no address. The kernel then sends to the
      connected socket, and refuses once that socket is closed.
    * A length with no room for a path gives EINVAL.
    * A length too short for the path names a truncated path (ENOENT).
    * Otherwise the datagram reaches whatever socket is bound at the path.
  * Linux reports an unbound sender's address length as 0
    (`UnboundAddrLen`). With aliased paths the sender is the pump's own
    `write_fd`, which is never bound.
  * `QueueAtWriteSock` queues the datagram on the peer's socket, or on the
    pump's own read socket when the paths are aliased. Either way
    `sendto()` blocks while that queue is full.
  * AF_UNIX datagram `sendto` and TAP `write` are all-or-nothing, so
    `roff`/`woff` are always 0 between steps and are not variables.
  * `MainExitCode` is what `main()` returns after `pump()`: 0, whatever
    `pump()` returned.
  * Environment actions: the TAP queues frames (`TapProduce`). The peer
    binds (`PeerBind`), sends (`PeerSend`, once the read socket is bound),
    drains (`PeerRecv`), closes (`PeerClose`, discarding what is queued on
    its socket) and, after a close, binds a new socket at the same path
    (`PeerRestart`). A `sendto()` that names the path reaches the new
    socket. The connection made at startup stays with the closed one.
    None of these happen when the paths are aliased.
  * History variables: `tapTaken`, `recvd`, `wire` and `tapOut`.
  * `Bridge` instantiates `Channel` with the directions `egress` and
    `ingress`. When the paths are aliased, `egress` is the whole loop from
    the TAP back to the TAP, and `ingress` carries nothing.
* `Forwarder.tla`: `fwd_start()` and `fwd()`, with the three primitives
  inlined as steps.
  * `t[f]` holds each thread's locals, plus `ring` (whether the stack
    `struct io_uring` was initialised).
  * `buf[f]` is the thread's `malloc`'d buffer.
  * `inflight[f]` and `cq[f]` are the ring's submitted requests and its CQE
    queue. Every SQE is submitted as soon as it is taken, so the submission
    queue is empty at each `io_uring_get_sqe()` and its NULL path cannot be
    taken. The code does not bound the requests and unreaped CQEs of a ring
    (stale CQEs pile up); the model stops exploring a thread once
    `MaxQueued` of them are on its ring (`AtBound`).
  * `rin[f]` and `out[f]` are the descriptors' contents. `working` is the
    shared flag.
  * `Inplace` is the set of forwarders started by `fwd_start_inplace()`.
    They run `fwd()` on the caller's thread, so `thrd_create()` cannot fail
    for them.
  * Thread steps: `Spawn` (`fwd_build_args`, then `thrd_create` for a
    detached forwarder; either can fail), `Setup` (`malloc` of `buf`, `io_uring_queue_init`,
    `register_files`), `Top`, `RdSubmit`, `RdWait`, `RdDone`, `WrSubmit`,
    `WrWait`, `WrDone`, and `End` (the `end:` label).
  * `Complete` is the kernel finishing any in-flight request, with a short
    read, a short write, EOF, `-EINTR` or `-EPIPE` as the constants allow.
  * `Stop` is `fwd_stop()`.
  * `Bridge` instantiates `Channel` with one direction per thread. A
    thread's chunks are handed over, and what a reader of W recovers is
    delivered: `Unframe(out[f])` with `write_hdr`, whole chunks without.
    A direction stays open while `working` is set and the thread has not
    reached `end:`, or while a write it submitted is still in flight.
* `MCPump.tla` and `MCForwarder.tla` give the constants small values. For
  the forwarder: `A` reads headers and is started in place; `B` writes
  headers and runs on its own thread.

`PROJECT.json` `map` names the source lines behind every definition.

## Runs

| run | cfg | expect | shows |
|---|---|---|---|
| pump | MCPump.cfg | pass | `BridgeChannel`: the pump refines the two-direction `Channel` (framing, order, exactly-once, eventual delivery). `PumpFailsOnlyWhenPeerGone` is an action property: no step makes `pump()` fail while the peer is up. Startup failures, late peer binding and peer restarts are included. So are aliased read and write paths, where the pump sends to itself: every TAP frame comes back to the TAP (spec section 8 round trip), and the blocking self-send never waits for good |
| pump_unbound_peer | MCPumpUnboundPeer.cfg | violation | after a datagram from an unbound socket, `addr_sz` is 0, so `sendto()` uses the connection made at startup. Once the peer restarts, that socket is closed and `sendto()` fails with ECONNREFUSED while the new peer is up (`network.c:518`) |
| pump_exit_status | MCPumpExit.cfg | violation | when the peer closes, `pump()` returns ECONNREFUSED and `main()` still exits 0. Spec section 7 says fatal errors exit 1 (`pump.c:99`) |
| pump_tap_overflow | MCPumpOverflow.cfg | violation | a TAP frame longer than the MTU overruns `rbuf` by 2 bytes (`network.c:482`) |
| pump_oversize_ingress | MCPumpOversize.cfg | violation | a header claiming more than the MTU is written to the TAP, not dropped (`network.c:530`) |
| pump_ingress_starves | MCPumpStarve.cfg | violation | when the peer stops draining, the pump blocks in `sendto()` and queued datagrams never reach the TAP (`network.c:500`) |
| forwarder | MCForwarder.cfg | pass | `ForwardingChannel` (refinement of `Channel`), `OutputFraming`, `ChunksFromInput`, `BufInBounds`, `EventuallyForwarded`, `StopTerminates`. One forwarder runs in place and one on its own thread. Included: an empty frame, short writes, write errors, allocation and thread-creation failures, and `fwd_stop()` at any point |
| fwd_short_writev | MCFwdShortWrite.cfg | violation | `writev_fd()` resubmits the whole iovec after a short write, so the header and bytes are duplicated (`forward.c:304`) |
| fwd_stale_cqe | MCFwdStaleCqe.cfg | violation | an error CQE is never marked seen. Later waits consume it, and the bytes their own reads returned are lost (`forward.c:198`) |
| fwd_hdr_overflow | MCFwdHdrOverflow.cfg | violation | a header larger than `read_sz` overruns `buf` (`forward.c:385`) |
| fwd_stop_hang | MCFwdStopHang.cfg | violation | a thread blocked in `io_uring_wait_cqe()` never sees `fwd_stop()` (`forward.c:187`) |
| fwd_eof_spin | MCFwdEof.cfg | violation | at EOF every read returns 0 and `read_fd()` resubmits forever. The spec says the forwarder exits cleanly (`forward.c:203`) |

Every property of a passing run has a mutant in `PROJECT.json`: a plausible
bug in a mapped definition that TLC shows breaks it.

A failed `malloc(read_sz)` in `fwd()` jumps to `end:`, which calls
`io_uring_unregister_files()` on a ring that was never initialised
(`forward.c:344`). The model keeps this path: `Setup` reaches `End` with
`ring` still `"garbage"`. No run checks it, because the outcome of that
undefined behaviour is not something the model can tell apart.

## Bounds

* Pump:
  * MTU 2, so buffers are 4 bytes.
  * Up to 3 TAP frames of 1–2 bytes, and up to 3 datagrams from
    `MCPeerDgrams`: one with an empty payload (header 0), one of 1 byte and
    one of `MtuArg` bytes. That is enough for a frame to
    go out before a peer restart, one to fail or wait during it, and one to
    go out after it.
  * The peer's socket holds 1 datagram (`WireCap`), so `sendto()` really
    blocks.
  * The read socket holds 2 (`SockCap`), so both descriptors can be ready
    in the same `select()` round.
  * With aliased paths, each `select()` round reads at most one frame and
    receives at most one datagram. So the self-send finds at most one
    datagram queued ahead of it, and 2 slots are enough. Linux's
    `max_dgram_qlen` is 10 or more.
  * With 1 slot the pump blocks on its own queue and TLC reports a
    deadlock.
  * The violation runs add frames of 3 and 5 bytes and a datagram with a
    length of 16.
* Forwarder:
  * `read_sz` 2, `MaxQueued` 2, garbage byte 0.
  * `A`'s input is three framed chunks, one of them empty (spec section 8,
    L = 0: nothing is emitted). `B`'s input is three bytes, so it
    needs two reads of up to 2 bytes each.
  * That covers a header read followed by an exact body read, an inexact
    read split across calls, and a stale CQE read again by a later wait.
    The pass run never reaches `MaxQueued`; the stale-CQE run does.

The pass runs reach 192,938 (pump, about 1 minute) and 21,713 (forwarder) distinct states.

## Fairness

* `WF` on the pump thread's steps and on each forwarder thread's steps: a
  runnable thread is eventually scheduled.
* `WF` on `Complete`: the kernel finishes every submitted io_uring request.
* `WF` on `PeerRecv`: the peer keeps draining its socket. `pump_ingress_starves`
  uses `SpecNoDrain`, which drops this fairness, to show what the code
  depends on it for.
* No fairness on the TAP, on the peer binding, sending, closing or
  restarting, or on `Stop`: these happen when they happen.

## Not modelled

* Interface and route configuration: `net_create_lo`, `net_if_up`,
  `net_if_mtu`, `net_if_addr`, `net_if_addr6`, `net_if_hw_addr`,
  `net_route` and `net_route6`. `main()` calls none of them, and nothing
  else in the repository does. Spec section 1 puts them out of scope. Each
  is a straight-line sequence of `ioctl()`s. Their only shared state is
  `alias_counter`, so a model would check kernel behaviour that no caller
  here relies on.
* The `fcntl()` failure path of `net_create_unix_socket()`
  (`network.c:106`). It returns the descriptor before `unlink()`, `bind()`
  and `chmod()`, so the caller would take an unbound socket for success.
  `fcntl(F_SETFL)` cannot fail on a socket that was just created, so this
  path is unreachable.
* The results of `fwd_start()` and `fwd_start_inplace()`. No caller in the
  repository reads them. (`fwd_start_inplace()` returns 0 even when `fwd()`
  failed. `fwd_start()` mixes `-ENOMEM` with a positive `thrd_error`.)
* Printing and logging.
* Kernel failures of `select()`, `read()` from the TAP, `recvfrom()`,
  `write()` to the TAP (`pump()` returns on each) and of
  `io_uring_wait_cqe()` (`read_fd()`/`write_fd()` return at once), and
  `pump()`'s `continue` when `read()` returns 0. No property depends on
  them; the modelled error paths are `sendto()`'s failure and
  `recvfrom()`'s zero count.
* `pump()` has no shutdown path (`network.c:469`): it ends only on an
  error. The spec's shutdown flag is the forwarder's `working`, which the
  pump never reads, so no property states how the pump should stop.

## Plan for further work

1. A run with a 1-byte datagram after a longer one. `wbuf[1]` would be
   stale, and the datagram would be decoded with the previous one's high
   byte.
2. Interface configuration, should a caller of `net_if_*` appear.
