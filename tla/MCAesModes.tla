----------------------------- MODULE MCAesModes -----------------------------
(* Small instances of AesModes for TLC: a block is two bits.               *)
EXTENDS AesModes, Bitwise

MCBlock == 0..3
MCXor(b, c) == b ^^ c

\* A permutation without fixed points that is not an involution, so that
\* encryption and decryption cannot be confused.
MCEncrypt(b) == CASE b = 0 -> 2 [] b = 1 -> 0 [] b = 2 -> 3 [] b = 3 -> 1
MCDecrypt(b) == CASE b = 2 -> 0 [] b = 0 -> 1 [] b = 3 -> 2 [] b = 1 -> 3

MCMessages == {<<>>, <<1>>, <<0, 0>>, <<2, 3, 1>>}
=============================================================================
