------------------------------ MODULE AesModes ------------------------------
(***************************************************************************)
(* The block modes of the library, ECB and CBC, in their two builds: the   *)
(* portable aes/generic/{ecb,cbc}.c and the AES-NI aes/ni/{ecb,cbc}.c.     *)
(*                                                                         *)
(* One caller encrypts a message, another decrypts it, each in as many     *)
(* calls as it likes, each with its own build, its own copy of the initial *)
(* vector, and in place or into a second buffer.  The decrypting caller is *)
(* given the blocks of the encryption calls that have returned.            *)
(*                                                                         *)
(* A block is one value: the cipher of a block and the XOR of two blocks   *)
(* are parameters, with what they must satisfy as assumptions.             *)
(***************************************************************************)
EXTENDS Naturals, Sequences

CONSTANTS
  Block,            \* the values of AES_BLOCK_SIZE bytes
  XorBlock(_, _),   \* the byte-wise ^ of two blocks
  EncryptBlock(_),  \* AES_Context_EncryptBlock under the key of the context
  DecryptBlock(_),  \* AES_Context_DecryptBlock under the same key
  Messages          \* the plaintexts, as sequences of blocks

ASSUME XorUndoes ==
  \A b, c \in Block :
    XorBlock(b, c) \in Block /\ XorBlock(XorBlock(b, c), c) = b

ASSUME CipherUndoes ==
  \A b \in Block :
    /\ EncryptBlock(b) \in Block /\ DecryptBlock(b) \in Block
    /\ DecryptBlock(EncryptBlock(b)) = b

ASSUME MessagesAreBlocks == Messages \subseteq Seq(Block)

Roles == {"encrypt", "decrypt"}

VARIABLES
  mode,    \* "ECB" or "CBC": the pair of functions the callers use
  impl,    \* impl[r]: the build, "generic" or "ni"
  out,     \* out[r]: the buffer r writes to
  plain,   \* the message, as it was before encryption
  iv0,     \* the initial vector both callers start from
  ref,     \* auxiliary: the ciphertext the mode prescribes (no code state)
  mem,     \* mem[b][k]: block k of buffer b
  iv,      \* iv[r]: the caller's iv array, which CBC updates
  done,    \* done[r]: blocks handled by the calls of r that returned
  end,     \* end[r]: the last block of the current call
  i,       \* i[r]: the block the loop is at
  block,   \* block[r]: the local block, or cipher_block
  prev,    \* prev[r]: prev_block or prev_cipher, a register of the NI build
  pc,      \* pc[r]: the place in the call
  partial, \* partial[r]: the length of the call is no multiple of a block
  aborted  \* an assertion failed

setup == <<mode, impl, out, plain, iv0, ref>>
frame == <<end, partial>>
vars  == <<setup, mem, iv, done, frame, i, block, prev, pc, aborted>>

N == Len(plain)

\* Encryption reads the message, decryption what encryption wrote.
In(r) == IF r = "encrypt" THEN "plain" ELSE out["encrypt"]

\* The blocks there are for r to work on.
Limit(r) == IF r = "encrypt" THEN N ELSE done["encrypt"]

\* NIST SP 800-38A: what c is as the ciphertext of p from the vector v.
Mix(m, p, c) == IF m = "CBC" THEN XorBlock(p, c) ELSE p

Prescribed(m, p, v, c) ==
  \A k \in 1..Len(p) :
    c[k] = EncryptBlock(Mix(m, p[k], IF k = 1 THEN v ELSE c[k - 1]))

Init ==
  /\ mode \in {"ECB", "CBC"}
  /\ impl \in [Roles -> {"generic", "ni"}]
  /\ \E e \in {"plain", "cipher"} : \E d \in {e, "clear"} :
       out = [r \in Roles |-> IF r = "encrypt" THEN e ELSE d]
  /\ plain \in Messages
  /\ iv0 \in Block
  /\ ref \in [1..N -> Block] /\ Prescribed(mode, plain, iv0, ref)
  /\ \E garbage \in Block :
       /\ mem = [b \in {"plain", "cipher", "clear"} |->
                   [k \in 1..N |-> IF b = "plain" THEN plain[k] ELSE garbage]]
       /\ block = [r \in Roles |-> garbage]
       /\ prev = [r \in Roles |-> garbage]
  /\ iv = [r \in Roles |-> iv0]
  /\ done = [r \in Roles |-> 0]
  /\ end = [r \in Roles |-> 0]
  /\ i = [r \in Roles |-> 1]
  /\ pc = [r \in Roles |-> "idle"]
  /\ partial = [r \in Roles |-> FALSE]
  /\ aborted = FALSE

Goto(r, place) == pc' = [pc EXCEPT ![r] = place]
Step(r) == i' = [i EXCEPT ![r] = @ + 1] /\ Goto(r, "loop")
Input(r) == mem[In(r)][i[r]]
Write(r, b) == mem' = [mem EXCEPT ![out[r]][i[r]] = b]

\* The next block of the call, under the given mode and build.
AtBlock(r, m, builds) ==
  /\ pc[r] = "loop"
  /\ i[r] <= end[r]
  /\ mode = m
  /\ impl[r] \in builds

-----------------------------------------------------------------------------
(* A call handles n whole blocks, and maybe some bytes of one more.        *)

Call(r) ==
  /\ pc[r] = "idle"
  /\ ~partial[r]
  /\ \E n \in 0..(Limit(r) - done[r]), rest \in BOOLEAN :
       /\ rest => done[r] + n < Limit(r) /\ impl[r] = "ni"
       /\ end' = [end EXCEPT ![r] = done[r] + n]
       /\ partial' = [partial EXCEPT ![r] = rest]
  /\ prev' = IF mode = "CBC" /\ impl[r] = "ni"
               THEN [prev EXCEPT ![r] = iv[r]] ELSE prev
  /\ Goto(r, "loop")
  /\ UNCHANGED <<setup, mem, iv, done, i, block, aborted>>

\* assert (len % AES_BLOCK_SIZE == 0), in the generic build only.
AssertFails(r) ==
  /\ pc[r] = "idle"
  /\ ~partial[r]
  /\ impl[r] = "generic"
  /\ done[r] < Limit(r)
  /\ aborted' = TRUE
  /\ UNCHANGED <<setup, mem, iv, done, frame, i, block, prev, pc>>

\* Mutant: the NI build keeps the chaining value to itself.
Return_NoWriteBack(r) ==
  /\ pc[r] = "loop"
  /\ i[r] > end[r]
  /\ done' = [done EXCEPT ![r] = end[r]]
  /\ Goto(r, "idle")
  /\ UNCHANGED <<setup, mem, iv, frame, i, block, prev, aborted>>

\* The NI build writes the register back to the caller's iv.
Return(r) ==
  /\ pc[r] = "loop"
  /\ i[r] > end[r]
  /\ done' = [done EXCEPT ![r] = end[r]]
  /\ iv' = IF mode = "CBC" /\ impl[r] = "ni"
             THEN [iv EXCEPT ![r] = prev[r]] ELSE iv
  /\ Goto(r, "idle")
  /\ UNCHANGED <<setup, mem, frame, i, block, prev, aborted>>

-----------------------------------------------------------------------------
(* ECB: one block after the other, in either build.                        *)

EcbEncrypt(r) ==
  /\ r = "encrypt" /\ AtBlock(r, "ECB", {"generic", "ni"})
  /\ Write(r, EncryptBlock(Input(r)))
  /\ Step(r)
  /\ UNCHANGED <<setup, iv, done, frame, block, prev, aborted>>

EcbDecrypt(r) ==
  /\ r = "decrypt" /\ AtBlock(r, "ECB", {"generic", "ni"})
  /\ Write(r, DecryptBlock(Input(r)))
  /\ Step(r)
  /\ UNCHANGED <<setup, iv, done, frame, block, prev, aborted>>

-----------------------------------------------------------------------------
(* CBC, generic build: iv itself is the running chaining value.            *)

CbcMix(r) ==
  /\ r = "encrypt" /\ AtBlock(r, "CBC", {"generic"})
  /\ block' = [block EXCEPT ![r] = XorBlock(Input(r), iv[r])]
  /\ Goto(r, "crypt")
  /\ UNCHANGED <<setup, mem, iv, done, frame, i, prev, aborted>>

CbcEncrypt(r) ==
  /\ r = "encrypt" /\ pc[r] = "crypt"
  /\ Write(r, EncryptBlock(block[r]))
  /\ Goto(r, "chain")
  /\ UNCHANGED <<setup, iv, done, frame, i, block, prev, aborted>>

\* Mutant: the plaintext is chained instead of the ciphertext.
CbcChain_Plain(r) ==
  /\ r = "encrypt" /\ pc[r] = "chain"
  /\ iv' = [iv EXCEPT ![r] = plain[i[r]]]
  /\ Step(r)
  /\ UNCHANGED <<setup, mem, done, frame, block, prev, aborted>>

CbcChain(r) ==
  /\ r = "encrypt" /\ pc[r] = "chain"
  /\ iv' = [iv EXCEPT ![r] = mem[out[r]][i[r]]]
  /\ Step(r)
  /\ UNCHANGED <<setup, mem, done, frame, block, prev, aborted>>

\* Decryption first saves the ciphertext block: in place it is overwritten.
CbcSave(r) ==
  /\ r = "decrypt" /\ AtBlock(r, "CBC", {"generic"})
  /\ block' = [block EXCEPT ![r] = Input(r)]
  /\ Goto(r, "crypt")
  /\ UNCHANGED <<setup, mem, iv, done, frame, i, prev, aborted>>

CbcDecrypt(r) ==
  /\ r = "decrypt" /\ pc[r] = "crypt"
  /\ Write(r, DecryptBlock(Input(r)))
  /\ Goto(r, "unmix")
  /\ UNCHANGED <<setup, iv, done, frame, i, block, prev, aborted>>

CbcUnmix(r) ==
  /\ pc[r] = "unmix"
  /\ Write(r, XorBlock(mem[out[r]][i[r]], iv[r]))
  /\ Goto(r, "chain")
  /\ UNCHANGED <<setup, iv, done, frame, i, block, prev, aborted>>

\* Mutant: the input is read again, after it may have been overwritten.
CbcRestore_Reread(r) ==
  /\ r = "decrypt" /\ pc[r] = "chain"
  /\ iv' = [iv EXCEPT ![r] = Input(r)]
  /\ Step(r)
  /\ UNCHANGED <<setup, mem, done, frame, block, prev, aborted>>

CbcRestore(r) ==
  /\ r = "decrypt" /\ pc[r] = "chain"
  /\ iv' = [iv EXCEPT ![r] = block[r]]
  /\ Step(r)
  /\ UNCHANGED <<setup, mem, done, frame, block, prev, aborted>>

-----------------------------------------------------------------------------
(* CBC, NI build: a block is loaded, worked on in registers and stored.    *)

NiLoad(r) ==
  /\ AtBlock(r, "CBC", {"ni"})
  /\ LET b == IF r = "encrypt" THEN EncryptBlock(XorBlock(Input(r), prev[r]))
                               ELSE Input(r)
     IN block' = [block EXCEPT ![r] = b]
  /\ Goto(r, "store")
  /\ UNCHANGED <<setup, mem, iv, done, frame, i, prev, aborted>>

NiStore(r) ==
  /\ pc[r] = "store"
  /\ Write(r, IF r = "encrypt" THEN block[r]
                               ELSE XorBlock(DecryptBlock(block[r]), prev[r]))
  /\ prev' = [prev EXCEPT ![r] = block[r]]
  /\ Step(r)
  /\ UNCHANGED <<setup, iv, done, frame, block, aborted>>

-----------------------------------------------------------------------------

Work(r) ==
  \/ Call(r) \/ AssertFails(r) \/ Return(r)
  \/ EcbEncrypt(r) \/ EcbDecrypt(r)
  \/ CbcMix(r) \/ CbcEncrypt(r) \/ CbcChain(r)
  \/ CbcSave(r) \/ CbcDecrypt(r) \/ CbcUnmix(r) \/ CbcRestore(r)
  \/ NiLoad(r) \/ NiStore(r)

\* The process has aborted, or no caller has anything left to ask for.
Stopped ==
  /\ aborted \/ \A r \in Roles : pc[r] = "idle" /\ partial[r]
  /\ UNCHANGED vars

Next == (~aborted /\ \E r \in Roles : Work(r)) \/ Stopped

Spec == Init /\ [][Next]_vars

-----------------------------------------------------------------------------
(* Properties.                                                             *)

Buffers == {"plain", "cipher", "clear"}

\* Every variable keeps its type, and every loop stays within its buffers.
TypeOK ==
  /\ mode \in {"ECB", "CBC"}
  /\ impl \in [Roles -> {"generic", "ni"}]
  /\ out \in [Roles -> Buffers]
  /\ out["encrypt"] \in {"plain", "cipher"}
  /\ out["decrypt"] \in {out["encrypt"], "clear"}
  /\ plain \in Seq(Block) /\ iv0 \in Block /\ ref \in [1..N -> Block]
  /\ mem \in [Buffers -> [1..N -> Block]]
  /\ iv \in [Roles -> Block] /\ block \in [Roles -> Block]
  /\ prev \in [Roles -> Block]
  /\ done \in [Roles -> Nat] /\ end \in [Roles -> Nat] /\ i \in [Roles -> Nat]
  /\ pc \in [Roles -> {"idle", "loop", "crypt", "unmix", "chain", "store"}]
  /\ partial \in [Roles -> BOOLEAN]
  /\ aborted \in BOOLEAN
  /\ \A r \in Roles :
       /\ done[r] <= end[r] /\ end[r] <= Limit(r)
       /\ done[r] < i[r] /\ i[r] <= end[r] + 1

\* r has written block k of its output, or is about to finish it.
Written(r, k) == k < i[r] \/ (k = i[r] /\ pc[r] \in {"unmix", "chain"})

\* The ciphertext handed over is what the mode prescribes for the whole
\* message, however the callers cut it into calls, whichever build they use
\* and in place or not, until in-place decryption overwrites it.
CipherText ==
  \A k \in 1..done["encrypt"] :
    out["decrypt"] # out["encrypt"] \/ ~Written("decrypt", k)
      => mem[out["encrypt"]][k] = ref[k]

\* Every block a decryption call has returned is the block that was encrypted.
RoundTrip ==
  \A k \in 1..done["decrypt"] : mem[out["decrypt"]][k] = plain[k]

\* The chaining value after k blocks.
Chaining(k) == IF k = 0 THEN iv0 ELSE ref[k]

\* Between calls the caller's iv is the last ciphertext block, in CBC, so that
\* the next call continues the message; ECB has no iv.
IvCarried ==
  \A r \in Roles :
    pc[r] = "idle" =>
      iv[r] = IF mode = "CBC" THEN Chaining(done[r]) ELSE iv0

\* What generic/cbc.c:12 asserts, of either build: no call is served whose
\* length is no multiple of the block size.
WholeBlocks == \A r \in Roles : ~(pc[r] = "idle" /\ partial[r])

-----------------------------------------------------------------------------
(* The inductive invariant behind the properties above.                    *)

\* Which mode and build passes through which place.
PlacesInv ==
  \A r \in Roles :
    /\ pc[r] \in {"crypt", "unmix", "chain"} =>
         mode = "CBC" /\ impl[r] = "generic"
    /\ pc[r] = "store" => mode = "CBC" /\ impl[r] = "ni"
    /\ pc[r] = "unmix" => r = "decrypt"
    /\ pc[r] \notin {"idle", "loop"} => i[r] <= end[r]
    /\ pc[r] = "idle" => i[r] = done[r] + 1 /\ end[r] = done[r]

\* What r has yet to read is still there, whatever was written in place.
InputInv ==
  /\ \A k \in 1..N :
       ~Written("encrypt", k) => mem["plain"][k] = plain[k]
  /\ \A k \in 1..N :
       k < i["encrypt"]
         /\ (out["decrypt"] # out["encrypt"] \/ ~Written("decrypt", k))
       => mem[out["encrypt"]][k] = ref[k]

\* What decryption has written is the message.
OutputInv ==
  \A k \in 1..N :
    k < i["decrypt"] => mem[out["decrypt"]][k] = plain[k]

\* The running chaining value: iv, or the register of a call in progress.
ChainInv ==
  \A r \in Roles :
    /\ mode = "ECB" => iv[r] = iv0
    /\ mode = "CBC" /\ (impl[r] = "generic" \/ pc[r] = "idle") =>
         iv[r] = Chaining(i[r] - 1)
    /\ mode = "CBC" /\ impl[r] = "ni" /\ pc[r] # "idle" =>
         prev[r] = Chaining(i[r] - 1)

\* The block in hand.
BlockInv ==
  /\ pc["encrypt"] = "crypt" =>
       block["encrypt"] =
         XorBlock(plain[i["encrypt"]], Chaining(i["encrypt"] - 1))
  /\ pc["encrypt"] = "chain" =>
       mem[out["encrypt"]][i["encrypt"]] = ref[i["encrypt"]]
  /\ pc["encrypt"] = "store" => block["encrypt"] = ref[i["encrypt"]]
  /\ pc["decrypt"] \in {"crypt", "unmix", "chain", "store"} =>
       block["decrypt"] = ref[i["decrypt"]]
  /\ pc["decrypt"] = "unmix" =>
       mem[out["decrypt"]][i["decrypt"]] = DecryptBlock(ref[i["decrypt"]])
  /\ pc["decrypt"] = "chain" =>
       mem[out["decrypt"]][i["decrypt"]] = plain[i["decrypt"]]

IInv ==
  /\ TypeOK
  /\ Prescribed(mode, plain, iv0, ref)
  /\ PlacesInv
  /\ InputInv
  /\ OutputInv
  /\ ChainInv
  /\ BlockInv
=============================================================================
