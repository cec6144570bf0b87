---------------------------- MODULE MCAesCipher ----------------------------
(* Small instances of AesCipher for TLC, on real bytes: the examples of    *)
(* FIPS 197, appendix C, one for each length of key, and a key of a length *)
(* that is not supported.                                                  *)
EXTENDS AesCipher, AesTables

MCBit == 0..7

\* The product is looked up: a table for each of the coefficients.
Products ==
  [c \in {2, 3, 9, 11, 13, 14} |-> [x \in Bytes |-> GMul(x, Bits(c))]]
MCgmul(x, c) == Products[c][x]

\* The key 00 01 02 03 ... of nk words.
Key(nk) ==
  [nk |-> nk,
   word |-> [j \in 0..nk - 1 |-> [k \in 0..3 |-> Bits(4 * j + k)]]]

MCKeys    == {Key(4), Key(5), Key(6), Key(8)}
MCKeys192 == {Key(6)}

\* de ad be ef, in memory that was freed.
MCJunk == {[k \in 0..3 |-> Bits(<<222, 173, 190, 239>>[k + 1])]}

BlockOf(n) == [k \in 0..15 |-> Bits(n[k + 1])]

\* The block 00 11 22 ... ff.
Example  == [k \in 0..15 |-> Bits(17 * k)]
MCBlocks == {Example}

\* FIPS 197, C.1 to C.3.
Ciphertext(nk) == BlockOf(
  CASE nk = 4 -> <<105, 196, 224, 216, 106, 123, 4, 48,
                   216, 205, 183, 128, 112, 180, 197, 90>>
    [] nk = 6 -> <<221, 169, 124, 164, 134, 76, 223, 224,
                   110, 175, 112, 160, 236, 13, 113, 145>>
    [] nk = 8 -> <<142, 162, 183, 202, 81, 103, 69, 191,
                   234, 252, 73, 144, 75, 73, 96, 137>>)

Answers(b) == Encrypted(b) => enc[b] = Ciphertext(key.nk)

\* What comes out of a context is what the standard says of the key it was last
\* initialized with, in either build, but for AES-NI and 192 bits.
KnownAnswers ==
  \A b \in Builds : b = "generic" \/ key.nk # 6 => Answers(b)

\* "AES ECB encryption must match OpenSSL" (aes/tests/e2e.c), for the size of
\* keys that the tests select a cipher for but never run.
KnownAnswer192 == \A b \in Builds : key.nk = 6 => Answers(b)
=============================================================================
