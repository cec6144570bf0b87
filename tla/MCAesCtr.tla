------------------------------ MODULE MCAesCtr ------------------------------
(* Small instances of AesCtr for TLC: two-bit blocks of one-bit bytes, so  *)
(* that the counter wraps around after four blocks.                        *)
EXTENDS AesCtr

MCXor(a, b) == (a + b) % 2

\* A bijection of counters to keystream blocks: distinct counters, distinct
\* keystream.
MCKeyStream(c) ==
  [j \in Indices |-> IF j = 0 THEN (c[0] + c[1] + 1) % 2 ELSE c[0]]

MCMessages == {<<>>, <<1>>, <<0, 1, 1>>, <<0, 0, 0, 0, 1, 1>>}
=============================================================================
