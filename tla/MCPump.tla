------------------------------- MODULE MCPump -------------------------------
(***************************************************************************)
(* Instances of the pump for TLC.  The MTU is scaled down to 2 bytes so    *)
(* that a frame, its header and the staging buffers are a handful of bytes *)
(* while every comparison of pump() against its buffer size still happens: *)
(* frames shorter than, equal to and (in the overflow run) longer than     *)
(* the MTU.                                                                *)
(***************************************************************************)
EXTENDS Pump

\* frames no longer than the MTU: one short, one exactly MtuArg bytes
MCTapFrames == {<<7>>, <<8, 9>>}

\* frames of MtuArg + 1 and MtuArg + 3 bytes: the TAP's own MTU is not set
\* by main(), so it may hand the pump frames longer than the mtu argument
MCLongTapFrames == {<<7, 8, 9>>, <<7, 8, 9, 6, 5>>}

\* well-formed datagrams of the peer: an empty frame, a short one, one of
\* exactly MtuArg bytes
MCPeerDgrams == {<<0, 0>>, <<1, 0, 5>>, <<2, 0, 5, 6>>}

\* a datagram whose header claims 4096 bytes (spec scenario 5), next to a
\* well-formed one
MCOversizeDgrams == {<<0, 16, 5, 6>>, <<1, 0, 5>>}

=============================================================================
