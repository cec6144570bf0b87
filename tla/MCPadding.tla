----------------------------- MODULE MCPadding -----------------------------
(* Small instances of Padding for TLC: bytes of two bits, so that paddings *)
(* of length 4 and 5 no longer fit in one.                                 *)
EXTENDS Padding

MCMessages == UNION {[1..n -> Byte] : n \in 0..5}
=============================================================================
