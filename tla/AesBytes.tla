----------------------------- MODULE AesBytes -----------------------------
(***************************************************************************)
(* Bytes and words as the AES modules use them.  A byte is the set of its  *)
(* bits that are one, so that ^ is the symmetric difference; a word is     *)
(* four bytes in the order of the key.  The generic build keeps a word as  *)
(* a number whose most significant byte comes first, the AES-NI build as   *)
(* four bytes of memory: both are this word.                               *)
(***************************************************************************)
EXTENDS Naturals, FiniteSets

CONSTANT Bit  \* the bits of a byte, 0..7

ASSUME BitAssumption == IsFiniteSet(Bit)

Byte == SUBSET Bit
Word == [0..3 -> Byte]

Xor(a, b) == (a \ b) \cup (b \ a)
XorWords(u, v) == [j \in 0..3 |-> Xor(u[j], v[j])]

ZeroWord == [j \in 0..3 |-> {}]
=============================================================================
