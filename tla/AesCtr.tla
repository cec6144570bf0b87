------------------------------- MODULE AesCtr -------------------------------
(***************************************************************************)
(* Counter mode, AES_Context_CTR_Encrypt of aes/generic/ctr.c and          *)
(* aes/ni/ctr.c, down to bytes: messages that end within a block, the      *)
(* carry of the big-endian counter, and what a call leaves in the nonce    *)
(* array of its caller.                                                    *)
(*                                                                         *)
(* One caller encrypts a message in calls of any length, another decrypts  *)
(* the same calls one by one, as packets.  Each has a build; they share    *)
(* one nonce array (as in README.md and examples/aes128ctr.c) or each has  *)
(* a copy (as in aes/tests/e2e.c).                                         *)
(***************************************************************************)
EXTENDS Naturals, Sequences, FiniteSets, Functions

CONSTANTS
  BlockSize,     \* AES_BLOCK_SIZE, 16 in the code
  ByteMod,       \* the number of values of a byte, 256 in the code
  XorByte(_, _), \* the ^ of two bytes
  KeyStream(_),  \* AES_Context_EncryptBlock of a counter block
  Messages,      \* the plaintexts, as sequences of bytes
  Builds,        \* the builds of the two callers, {"generic", "ni"}
  Sharing        \* whether the callers share the nonce array

Byte    == 0..ByteMod - 1
Indices == 0..BlockSize - 1
Counter == [Indices -> Byte]

ASSUME CtrAssumption ==
  /\ BlockSize \in Nat \ {0} /\ ByteMod \in Nat \ {0, 1}
  /\ \A a, b \in Byte : XorByte(a, b) \in Byte /\ XorByte(XorByte(a, b), b) = a
  /\ \A c \in Counter : KeyStream(c) \in [Indices -> Byte]
  /\ Messages \subseteq Seq(Byte)
  /\ Builds \subseteq {"generic", "ni"} /\ Sharing \subseteq BOOLEAN

Roles == {"encrypt", "decrypt"}

VARIABLES
  impl,    \* impl[r]: the build
  shared,  \* both callers pass the same nonce array
  plain, nonce0,  \* the message and the initial nonce
  text,    \* text[r]: what r has written, byte by byte
  nonce,   \* nonce[r]: the nonce array r passes
  packets, \* where in the message the encryption calls ended, in order
  count,   \* count[r]: the calls of r that returned
  base,    \* base[r]: the bytes handled by the calls of r that returned
  len,     \* len[r]: the parameter of the current call
  i,       \* i[r]: the bytes of the current call already handled
  counter, \* counter[r]: the local counter block
  pc,
  used,    \* auxiliary: used[a], the blocks of keystream made from nonce
           \* array a, each with the bytes it was for and its counter
  begun    \* auxiliary: begun[r], the nonces the calls of r started from

setup == <<impl, shared, plain, nonce0>>
vars  ==
  <<setup, text, nonce, packets, count, base, len, i, counter, pc, used,
    begun>>

\* Mutant: a carry out of the last byte is lost.
Increment_NoCarry(c) ==
  [c EXCEPT ![BlockSize - 1] = (@ + 1) % ByteMod]

\* for (j = 15; j >= 0; --j) if (++counter[j]) break;
Increment(c) ==
  [j \in Indices |->
     IF \A k \in Indices : k > j => c[k] = ByteMod - 1
       THEN (c[j] + 1) % ByteMod ELSE c[j]]

\* Whose nonce array r passes.
Nonce(r) == IF shared THEN "encrypt" ELSE r

Input(r) == IF r = "encrypt" THEN plain ELSE text["encrypt"]

Init ==
  /\ impl \in [Roles -> Builds]
  /\ shared \in Sharing
  /\ plain \in Messages
  /\ nonce0 \in Counter
  /\ text = [r \in Roles |-> <<>>]
  /\ nonce = [r \in Roles |-> nonce0]
  /\ packets = <<>>
  /\ count = [r \in Roles |-> 0]
  /\ base = [r \in Roles |-> 0]
  /\ len = [r \in Roles |-> 0]
  /\ i = [r \in Roles |-> 0]
  /\ counter = [r \in Roles |-> nonce0]
  /\ pc = [r \in Roles |-> "idle"]
  /\ used = [r \in Roles |-> <<>>]
  /\ begun = [r \in Roles |-> <<>>]

\* The length of the next call of r: encryption chooses it, up to the end of
\* the message, decryption takes the next packet.
NextLength(r, n) ==
  IF r = "encrypt"
    THEN base[r] + n <= Len(plain)
    ELSE count[r] < Len(packets) /\ base[r] + n = packets[count[r] + 1]

\* A caller is in one call at a time; so are both, on one nonce array.
MayCall(r) ==
  /\ pc[r] = "idle"
  /\ base[r] < Len(plain)
  /\ shared => \A q \in Roles : pc[q] = "idle"

Call(r) ==
  /\ MayCall(r)
  /\ \E n \in 1..Len(plain) :
       NextLength(r, n) /\ len' = [len EXCEPT ![r] = n]
  /\ counter' = [counter EXCEPT ![r] = nonce[Nonce(r)]]
  /\ i' = [i EXCEPT ![r] = 0]
  /\ pc' = [pc EXCEPT ![r] = "loop"]
  /\ begun' = [begun EXCEPT ![r] = Append(@, nonce[Nonce(r)])]
  /\ UNCHANGED <<setup, text, nonce, packets, count, base, used>>

\* Mutant: the NI build counts in the first byte.
Advance_FirstByte(r) ==
  IF impl[r] = "ni" THEN [counter[r] EXCEPT ![0] = (@ + 1) % ByteMod]
                    ELSE Increment(counter[r])

Advance(r) == Increment(counter[r])

\* One block of keystream, on a whole block or on the rest of the call.
Block(r) ==
  LET left  == len[r] - i[r]
      size  == IF left < BlockSize THEN left ELSE BlockSize
      bytes == [j \in 1..size |->
                  XorByte(Input(r)[base[r] + i[r] + j],
                          KeyStream(counter[r])[j - 1])]
  IN /\ pc[r] = "loop"
     /\ i[r] < len[r]
     /\ text' = [text EXCEPT ![r] = @ \o bytes]
     /\ counter' = [counter EXCEPT ![r] = Advance(r)]
     /\ i' = [i EXCEPT ![r] = @ + size]
     /\ used' = [used EXCEPT ![Nonce(r)] =
                   Append(@, [by |-> r, call |-> count[r] + 1,
                              from |-> base[r] + i[r],
                              to |-> base[r] + i[r] + size,
                              value |-> counter[r]])]
     /\ UNCHANGED <<setup, nonce, packets, count, base, len, pc, begun>>

\* The NI build leaves its counter in the caller's array (ni/ctr.c:70).
Return(r) ==
  /\ pc[r] = "loop"
  /\ i[r] = len[r]
  /\ \/ impl[r] = "ni" /\ nonce' = [nonce EXCEPT ![Nonce(r)] = counter[r]]
     \/ impl[r] = "generic" /\ UNCHANGED nonce
  /\ count' = [count EXCEPT ![r] = @ + 1]
  /\ base' = [base EXCEPT ![r] = @ + len[r]]
  /\ packets' = IF r = "encrypt" THEN Append(packets, base[r] + len[r])
                                  ELSE packets
  /\ pc' = [pc EXCEPT ![r] = "idle"]
  /\ UNCHANGED <<setup, text, len, i, counter, used, begun>>

\* The whole message is encrypted and decrypted again.
Done ==
  /\ \A r \in Roles : pc[r] = "idle" /\ base[r] = Len(plain)
  /\ UNCHANGED vars

Next == (\E r \in Roles : Call(r) \/ Block(r) \/ Return(r)) \/ Done

Spec == Init /\ [][Next]_vars

-----------------------------------------------------------------------------
(* Properties.                                                             *)

\* Two callers whose n-th call starts from the same nonce: copies of the nonce
\* and one build, or the first call, or two builds that leave the nonce alone.
SameStart(n) ==
  \/ \A r \in Roles : impl[r] = "generic"
  \/ ~shared /\ (n = 1 \/ impl["encrypt"] = impl["decrypt"])

\* Decrypting the packets one by one restores the message, although CTR has
\* no decryption of its own and both builds treat the nonce differently.
RoundTrip ==
  \A p \in 1..Len(text["decrypt"]) :
    SameStart(count["decrypt"] + (IF pc["decrypt"] = "idle" THEN 0 ELSE 1))
      => text["decrypt"][p] = plain[p]

\* examples/aes128ctr.c:38 asserts this of a message that is encrypted by one
\* call and decrypted by the next, with one nonce array.
DecryptsWithSameNonce ==
  packets = <<Len(plain)>> /\ count["decrypt"] = 1
    => text["decrypt"] = plain

\* No counter block is enciphered twice from one nonce array, so no keystream
\* is used twice, until the counter has gone through all its values: within a
\* call in both builds, and from call to call unless the earlier is generic.
KeyStreamFresh ==
  \A n \in Roles : \A a, b \in 1..Len(used[n]) :
    LET x == used[n][a]
        y == used[n][b]
    IN  a < b /\ b - a < Cardinality(Counter) /\ x.value = y.value
          => impl[x.by] = "generic" /\ <<x.by, x.call>> # <<y.by, y.call>>

\* The blocks of keystream r has made.
Made(r) == {u \in Range(used[Nonce(r)]) : u.by = r}

\* The counters call n of r has enciphered, each with its place in the text.
CountersOf(r, n) ==
  {<<u.from, u.to, u.value>> : u \in {v \in Made(r) : v.call = n}}

\* Both builds encipher the same counters for a call and use them for the
\* same bytes.
BuildsAgree ==
  \A n \in 1..count["decrypt"] :
    SameStart(n) => CountersOf("encrypt", n) = CountersOf("decrypt", n)
=============================================================================
