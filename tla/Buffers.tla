------------------------------- MODULE Buffers ------------------------------
(***************************************************************************)
(* What the parsers use of Node's Buffer: a sequence of bytes, counted     *)
(* from 0.  Reads are guarded by the operators that use them.              *)
(***************************************************************************)
EXTENDS Naturals, Sequences

At(buf, i) == buf[i + 1]

Slice(buf, from, to) ==
  SubSeq(buf, from + 1, IF to < Len(buf) THEN to ELSE Len(buf))

UInt16(buf, i) == At(buf, i) * 256 + At(buf, i + 1)

UInt24(buf, i) == At(buf, i) * 65536 + UInt16(buf, i + 1)

Null == [ok |-> FALSE]

(* The other direction, for the messages that peers send.                  *)
Bytes(n, b) == [i \in 1..n |-> (b + i) % 256]

Write16(n) == <<n \div 256, n % 256>>

Prefixed8(s) == <<Len(s)>> \o s

Prefixed16(s) == Write16(Len(s)) \o s
=============================================================================
