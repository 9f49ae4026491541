------------------------------- MODULE Codec -------------------------------
(***************************************************************************)
(* The 2-byte length prefix and the byte buffers shared by the pump        *)
(* (network.c) and the forwarder (forward.c).                              *)
(*                                                                         *)
(* Both files serialise the length through "union b_u16 { uint16_t i;      *)
(* char b[2]; }": the uint16_t is stored and its two bytes are read back   *)
(* (or the reverse).  On the little-endian hosts the program is built for, *)
(* b[0] is the low byte and b[1] the high byte, and storing an int into    *)
(* the uint16_t keeps it modulo 2^16.                                      *)
(***************************************************************************)
EXTENDS Integers, Sequences

\* int hsz = 2 (network.c); sizeof(sz.i) (forward.c)
HSZ == 2

\* conversion of an int to uint16_t: the value modulo 2^16
U16(n) == n % 65536

\* view->i = count, then the bytes b[0], b[1] of the union
EncodeLen(n) == << U16(n) % 256, U16(n) \div 256 >>

\* b[0], b[1] stored, then view->i read back
DecodeLen(b0, b1) == b0 + 256 * b1

(***************************************************************************)
(* A C array "char buf[n]" is a function over 0..n-1.  Region(buf, at, n)  *)
(* is the n bytes starting at buf + at as a sequence; a byte past the end  *)
(* of the array is whatever lies beyond it in memory, modelled by the      *)
(* value Beyond.  Store(buf, at, s) is the buffer after the kernel copied  *)
(* the sequence s to buf + at; bytes past the end are not kept (the        *)
(* invariants of the modules that use it flag such a copy).                *)
(***************************************************************************)
CONSTANT Beyond

Region(buf, at, n) ==
    [i \in 1..n |-> IF at + i - 1 \in DOMAIN buf THEN buf[at + i - 1] ELSE Beyond]

Store(buf, at, s) ==
    [j \in DOMAIN buf |-> IF at <= j /\ j < at + Len(s) THEN s[j - at + 1] ELSE buf[j]]

\* the framed form of a payload: length prefix then the payload bytes
Framed(p) == EncodeLen(Len(p)) \o p

(* What a receiver of a byte stream of framed payloads recovers from it:  *)
(* the payloads of the complete frames at its start, in order (a frame    *)
(* still missing bytes is not yet a payload).                             *)
RECURSIVE Unframe(_)
Unframe(s) ==
    IF Len(s) < HSZ THEN <<>>
    ELSE LET n == DecodeLen(s[1], s[2])
         IN IF Len(s) < HSZ + n THEN <<>>
            ELSE <<SubSeq(s, HSZ + 1, HSZ + n)>> \o Unframe(SubSeq(s, HSZ + n + 1, Len(s)))

=============================================================================
