------------------------------ MODULE Padding ------------------------------
(***************************************************************************)
(* The two padders of the library, padding/pkcs7.c and padding/x923.c, and *)
(* the way callers use one (padding/tests/e2e.c:20-90): ask bound for the  *)
(* size, allocate, process; then the same two calls to take the padding    *)
(* off.  Data to unpad may also come from elsewhere, say from a decryption *)
(* under the wrong key, and is of any length: the padders do not check it. *)
(*                                                                         *)
(* A length that does not fit in a byte is truncated, as the code does     *)
(* ((uint8_t)pad_len), so block sizes from ByteMod on are in the model.    *)
(* The loops that compare a padding may run past the start of the data.    *)
(* What they find there is undefined and may differ from one call to the   *)
(* next: it is like a padding or it is not.                                *)
(***************************************************************************)
EXTENDS Integers, Sequences

CONSTANTS
  ByteMod,     \* the number of values of a byte, 256 in the code
  SizeMod,     \* the number of values of a size_t
  BlockSizes,  \* the block sizes callers pass, at least 1
  Messages     \* the data callers pass, as sequences of bytes

Byte    == 0..ByteMod - 1
Padders == {"pkcs7", "x923"}

\* The last conjunct: a message fits in memory with its padding.
ASSUME PaddingAssumption ==
  /\ ByteMod \in Nat \ {0, 1}
  /\ SizeMod \in Nat /\ ByteMod <= SizeMod
  /\ BlockSizes \subseteq Nat \ {0}
  /\ Messages \subseteq Seq(Byte)
  /\ \A m \in Messages, b \in BlockSizes : Len(m) + b < SizeMod

VARIABLES
  padder,  \* which of the two
  bs,      \* the parameter block_size
  given,   \* the data the caller started with
  foreign, \* the data to unpad does not come from this padder
  data,    \* the buffer being worked on: src of the next call
  size,    \* what the last call of bound answered: the bytes allocated
  stage

paddingVars == <<padder, bs, given, foreign, data, size, stage>>

-----------------------------------------------------------------------------
(* Padding.                                                                *)

\* Mutant: data that is whole blocks already gets no padding.
PadLen_Modulo(n, b) == (b - (n % b)) % b

\* Mutant: the remainder instead of what is missing.
PadLen_Remainder(n, b) == n % b

PadLen(n, b) == b - (n % b)

\* The branch PA_PAD of both bound functions.
PadBound(n, b) == n + PadLen(n, b)

\* The branch PA_PAD of process: the bytes behind the copied message.
PKCS7_Fill(n, b) == [i \in 1..PadLen(n, b) |-> PadLen(n, b) % ByteMod]

X923_Fill(n, b) ==
  [i \in 1..PadLen(n, b) |->
     IF i = PadLen(n, b) THEN PadLen(n, b) % ByteMod ELSE 0]

Padded(p, s, b) ==
  s \o IF p = "pkcs7" THEN PKCS7_Fill(Len(s), b) ELSE X923_Fill(Len(s), b)

-----------------------------------------------------------------------------
(* Unpadding.  The loops compare src[len - 1 - i]; d[Len(d) - i] here.     *)

Last(d) == d[Len(d)]

\* Mutant: the last byte is not compared with the block size.
Plausible_AnyLength(d, b) == Last(d) # 0

\* The last byte can be the length of a padding.
Plausible(d, b) == Last(d) # 0 /\ Last(d) <= b

\* The bytes of the data that the loops get to look like a padding.
PKCS7_Matches(d) ==
  \A i \in 0..Last(d) - 1 : i < Len(d) => d[Len(d) - i] = Last(d)

X923_Matches(d) ==
  \A i \in 1..Last(d) - 1 : i < Len(d) => d[Len(d) - i] = 0

Matches(p, d) == IF p = "pkcs7" THEN PKCS7_Matches(d) ELSE X923_Matches(d)

Found(p, d, b) == d # <<>> /\ Plausible(d, b) /\ Matches(p, d)

\* The loop has found no difference when it leaves the data: it reads what
\* lies in front of it.
Strays(p, d, b) == Found(p, d, b) /\ Last(d) > Len(d)

\* len - pad_val, a size_t.
Rest(d) == (Len(d) - Last(d)) % SizeMod

\* Mutant: bound only looks at the last byte.
UnpadBounds_Unmatched(p, d, b) ==
  IF d # <<>> /\ Plausible(d, b) THEN {Rest(d)} ELSE {Len(d)}

\* The branch PA_UNPAD of bound: what it can answer.
UnpadBounds(p, d, b) ==
  IF Strays(p, d, b) THEN {Len(d), Rest(d)}
  ELSE IF Found(p, d, b) THEN {Rest(d)}
  ELSE {Len(d)}

\* The branch PA_UNPAD of process: the bytes copied to dst, unless the bytes
\* in front of the data are taken for a part of the padding.
Unpadded(p, d, b) ==
  IF Found(p, d, b) /\ ~Strays(p, d, b) THEN SubSeq(d, 1, Rest(d)) ELSE d

-----------------------------------------------------------------------------
(* A caller.                                                               *)

PaddingInit ==
  /\ padder \in Padders
  /\ bs \in BlockSizes
  /\ given \in Messages /\ data = given
  /\ size = 0
  /\ foreign \in BOOLEAN
  /\ stage = IF foreign THEN "padded" ELSE "pad"

Fixed == UNCHANGED <<padder, bs, given, foreign>>

\* bound (src, len, block_size, PA_PAD), then the allocation.
BoundPad ==
  /\ stage = "pad"
  /\ size' = PadBound(Len(data), bs)
  /\ stage' = "allocated"
  /\ Fixed /\ UNCHANGED data

\* process (dst, src, len, block_size, PA_PAD).
ProcessPad ==
  /\ stage = "allocated"
  /\ data' = Padded(padder, data, bs)
  /\ stage' = "padded"
  /\ Fixed /\ UNCHANGED size

\* bound (src, len, block_size, PA_UNPAD), then the allocation.
BoundUnpad ==
  /\ stage = "padded"
  /\ size' \in UnpadBounds(padder, data, bs)
  /\ stage' = "unpad"
  /\ Fixed /\ UNCHANGED data

\* process (dst, src, len, block_size, PA_UNPAD).
ProcessUnpad ==
  /\ stage = "unpad"
  /\ data' = Unpadded(padder, data, bs)
  /\ stage' = "done"
  /\ Fixed /\ UNCHANGED size

\* The same call when its loop strays and takes what it finds for padding:
\* memcpy gets a length that has wrapped around.  The behaviour is undefined
\* from here on.
Overrun ==
  /\ stage = "unpad" /\ Strays(padder, data, bs)
  /\ stage' = "overrun"
  /\ Fixed /\ UNCHANGED <<data, size>>

PaddingNext ==
  BoundPad \/ ProcessPad \/ BoundUnpad \/ ProcessUnpad \/ Overrun

PaddingSpec == PaddingInit /\ [][PaddingNext]_paddingVars

-----------------------------------------------------------------------------
(* Properties.                                                             *)

\* Every variable keeps its type.
TypeOK ==
  /\ padder \in Padders /\ bs \in BlockSizes
  /\ given \in Messages /\ data \in Seq(Byte)
  /\ foreign \in BOOLEAN
  /\ size \in Nat
  /\ stage \in {"pad", "allocated", "padded", "unpad", "done", "overrun"}

\* Foreign data that is shorter than a block, which the padders accept.
Short == foreign /\ Len(given) < bs

\* process fills the buffer that was allocated with bound's answer exactly,
\* when padding and when unpadding.  Short data is the exception: there the
\* two may find different bytes in front of the data, and a process that ends
\* leaves a part of the buffer as it was, but writes no byte behind it.
BoundIsExact ==
  /\ stage = "padded" /\ ~foreign => Len(data) = size
  /\ stage = "done" =>
       /\ Len(data) <= size
       /\ Len(data) < size => Short

\* Padded data is a whole number of blocks, as the block modes require, and
\* longer than the message.
WholeBlocks ==
  stage = "padded" /\ ~foreign =>
    /\ Len(data) % bs = 0
    /\ Len(data) > Len(given) /\ Len(data) <= Len(given) + bs

\* Neither bound nor process looks at a byte in front of the data it unpads,
\* and no length wraps around, unless the data is short: not in data that the
\* padder has padded, with a truncated length too, and not in other data of
\* at least a block, whole blocks or not.
ReadsInBounds ==
  /\ stage \in {"padded", "unpad"} /\ Strays(padder, data, bs) => Short
  /\ stage = "overrun" => Short

\* Padding and unpadding are inverse.  Unpadding what was padded gives the
\* message back, whatever its last bytes look like, as long as the length of
\* the padding fits in a byte.  And unpadding other data in whole blocks takes
\* nothing away but what padding the result puts there again.
RoundTrip ==
  /\ stage = "done" /\ ~foreign /\ PadLen(Len(given), bs) < ByteMod =>
       data = given
  /\ stage = "done" /\ foreign /\ Len(given) % bs = 0 =>
       data = given \/ given = Padded(padder, data, bs)

\* The data to unpad.
Source == IF foreign THEN given ELSE Padded(padder, given, bs)

\* The inductive invariant behind them: where the data of each stage is from.
PaddingInv ==
  /\ TypeOK
  /\ stage \in {"pad", "allocated"} => ~foreign /\ data = given
  /\ stage = "allocated" => size = PadBound(Len(data), bs)
  /\ stage \in {"padded", "unpad", "overrun"} => data = Source
  /\ stage = "padded" /\ ~foreign => size = PadBound(Len(given), bs)
  /\ stage \in {"unpad", "done"} => size \in UnpadBounds(padder, Source, bs)
  /\ stage = "done" => data = Unpadded(padder, Source, bs)
  /\ stage = "overrun" => Strays(padder, Source, bs)
=============================================================================
