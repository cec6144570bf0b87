--------------------------- MODULE AesModesProofs ---------------------------
(***************************************************************************)
(* Proofs about AesModes, for every block size, cipher, message and way of *)
(* cutting the message into calls.                                         *)
(***************************************************************************)
EXTENDS AesModes, TLAPS

\* What the prescribed ciphertext says of one block, and its inverse.
LEMMA BlockOfRef ==
  ASSUME TypeOK, Prescribed(mode, plain, iv0, ref), NEW k \in 1..N
  PROVE  /\ Chaining(k - 1) \in Block /\ plain[k] \in Block /\ ref[k] \in Block
         /\ ref[k] = EncryptBlock(Mix(mode, plain[k], Chaining(k - 1)))
         /\ Mix(mode, DecryptBlock(ref[k]), Chaining(k - 1)) = plain[k]
<1>1. N \in Nat /\ plain[k] \in Block /\ ref[k] \in Block
  <2>1. N \in Nat /\ \A j \in 1..N : plain[j] \in Block
    BY DEF TypeOK, N
  <2>2. ref[k] \in Block
    BY DEF TypeOK
  <2>3. QED BY <2>1, <2>2
<1>2. Chaining(k - 1) = IF k = 1 THEN iv0 ELSE ref[k - 1]
  BY <1>1 DEF Chaining
<1>3. Chaining(k - 1) \in Block
  BY <1>1, <1>2 DEF TypeOK
<1>4. ref[k] = EncryptBlock(Mix(mode, plain[k], Chaining(k - 1)))
  BY <1>2 DEF Prescribed, N
<1>5. Mix(mode, DecryptBlock(ref[k]), Chaining(k - 1)) = plain[k]
  BY <1>1, <1>3, <1>4, XorUndoes, CipherUndoes DEF Mix
<1>6. QED BY <1>1, <1>3, <1>4, <1>5

\* Decryption stays behind encryption, and both within the message.
LEMMA Positions ==
  ASSUME IInv
  PROVE  /\ N \in Nat
         /\ \A r \in Roles :
              /\ i[r] \in Nat /\ end[r] \in Nat /\ done[r] \in Nat
              /\ 1 <= i[r] /\ end[r] <= N /\ done[r] <= end[r]
              /\ done[r] < i[r] /\ i[r] <= end[r] + 1
         /\ end["decrypt"] <= done["encrypt"]
         /\ end["decrypt"] < i["encrypt"]
<1>1. N \in Nat
  BY DEF IInv, TypeOK, N
<1>2. \A r \in Roles :
        /\ i[r] \in Nat /\ end[r] \in Nat /\ done[r] \in Nat
        /\ done[r] <= end[r] /\ end[r] <= Limit(r)
        /\ done[r] < i[r] /\ i[r] <= end[r] + 1
  BY DEF IInv, TypeOK
<1>3. Limit("encrypt") = N /\ Limit("decrypt") = done["encrypt"]
  BY DEF Limit
<1>4. QED BY <1>1, <1>2, <1>3 DEF Roles

\* The block a caller works on lies within all buffers.
LEMMA InBuffers ==
  ASSUME IInv, NEW r \in Roles, i[r] <= end[r]
  PROVE  /\ i[r] \in 1..N /\ In(r) \in Buffers /\ out[r] \in Buffers
         /\ Input(r) \in Block /\ mem[out[r]][i[r]] \in Block
<1>3. i[r] \in 1..N
  BY Positions
<1>4. In(r) \in Buffers /\ out[r] \in Buffers
  BY DEF IInv, TypeOK, In, Buffers, Roles
<1>5. QED BY <1>3, <1>4 DEF IInv, TypeOK, Input

\* BlockOfRef for the block a caller works on.
LEMMA BlockAt ==
  ASSUME IInv, NEW r \in Roles, i[r] <= end[r]
  PROVE  /\ Chaining(i[r] - 1) \in Block
         /\ plain[i[r]] \in Block /\ ref[i[r]] \in Block
         /\ ref[i[r]] = EncryptBlock(Mix(mode, plain[i[r]], Chaining(i[r] - 1)))
         /\ Mix(mode, DecryptBlock(ref[i[r]]), Chaining(i[r] - 1)) = plain[i[r]]
<1>1. TypeOK /\ Prescribed(mode, plain, iv0, ref)
  BY DEF IInv
<1>2. QED BY <1>1, InBuffers, BlockOfRef

\* A loop that is over has reached the end of the call exactly.
LEMMA LoopOver ==
  ASSUME IInv, NEW r \in Roles, ~(i[r] <= end[r])
  PROVE  i[r] = end[r] + 1
BY Positions

\* The setup, and so the prescribed ciphertext, never changes.
LEMMA SetupStep ==
  ASSUME IInv, NEW r \in Roles, Work(r)
  PROVE  UNCHANGED setup
<1> USE DEF setup, frame
<1>1. CASE Call(r)
  BY <1>1 DEF Call
<1>2. CASE AssertFails(r)
  BY <1>2 DEF AssertFails
<1>3. CASE Return(r)
  BY <1>3 DEF Return
<1>4. CASE EcbEncrypt(r)
  BY <1>4 DEF EcbEncrypt
<1>5. CASE EcbDecrypt(r)
  BY <1>5 DEF EcbDecrypt
<1>6. CASE CbcMix(r)
  BY <1>6 DEF CbcMix
<1>7. CASE CbcEncrypt(r)
  BY <1>7 DEF CbcEncrypt
<1>8. CASE CbcChain(r)
  BY <1>8 DEF CbcChain
<1>9. CASE CbcSave(r)
  BY <1>9 DEF CbcSave
<1>10. CASE CbcDecrypt(r)
  BY <1>10 DEF CbcDecrypt
<1>11. CASE CbcUnmix(r)
  BY <1>11 DEF CbcUnmix
<1>12. CASE CbcRestore(r)
  BY <1>12 DEF CbcRestore
<1>13. CASE NiLoad(r)
  BY <1>13 DEF NiLoad
<1>14. CASE NiStore(r)
  BY <1>14 DEF NiStore
<1>15. QED
  BY <1>1, <1>2, <1>3, <1>4, <1>5, <1>6, <1>7, <1>8, <1>9, <1>10, <1>11,
     <1>12, <1>13, <1>14 DEF Work

\* Every step keeps every variable in its type.
LEMMA TypeStep ==
  ASSUME IInv, NEW r \in Roles, Work(r)
  PROVE  TypeOK'
<1> USE DEF IInv, setup, frame, Goto, Step, Input, Write, AtBlock, Roles,
           TypeOK, PlacesInv, In, Limit, N, Buffers
<1>1. CASE Call(r)
  BY <1>1, InBuffers, XorUndoes, CipherUndoes DEF Call
<1>2. CASE AssertFails(r)
  BY <1>2, InBuffers, XorUndoes, CipherUndoes DEF AssertFails
<1>3. CASE Return(r)
  BY <1>3, InBuffers, XorUndoes, CipherUndoes DEF Return
<1>4. CASE EcbEncrypt(r)
  BY <1>4, InBuffers, XorUndoes, CipherUndoes DEF EcbEncrypt
<1>5. CASE EcbDecrypt(r)
  BY <1>5, InBuffers, XorUndoes, CipherUndoes DEF EcbDecrypt
<1>6. CASE CbcMix(r)
  BY <1>6, InBuffers, XorUndoes, CipherUndoes DEF CbcMix
<1>7. CASE CbcEncrypt(r)
  BY <1>7, InBuffers, XorUndoes, CipherUndoes DEF CbcEncrypt
<1>8. CASE CbcChain(r)
  BY <1>8, InBuffers, XorUndoes, CipherUndoes DEF CbcChain
<1>9. CASE CbcSave(r)
  BY <1>9, InBuffers, XorUndoes, CipherUndoes DEF CbcSave
<1>10. CASE CbcDecrypt(r)
  BY <1>10, InBuffers, XorUndoes, CipherUndoes DEF CbcDecrypt
<1>11. CASE CbcUnmix(r)
  BY <1>11, InBuffers, XorUndoes, CipherUndoes DEF CbcUnmix
<1>12. CASE CbcRestore(r)
  BY <1>12, InBuffers, XorUndoes, CipherUndoes DEF CbcRestore
<1>13. CASE NiLoad(r)
  BY <1>13, InBuffers, XorUndoes, CipherUndoes DEF NiLoad
<1>14. CASE NiStore(r)
  BY <1>14, InBuffers, XorUndoes, CipherUndoes DEF NiStore
<1>15. QED
  BY <1>1, <1>2, <1>3, <1>4, <1>5, <1>6, <1>7, <1>8, <1>9, <1>10, <1>11,
     <1>12, <1>13, <1>14 DEF Work

\* Every step keeps to the places of its mode and build.
LEMMA PlacesStep ==
  ASSUME IInv, NEW r \in Roles, Work(r)
  PROVE  PlacesInv'
<1> USE DEF IInv, setup, frame, Goto, Step, Input, Write, AtBlock, Roles,
           TypeOK, PlacesInv, Limit, N
<1>1. CASE Call(r)
  BY <1>1 DEF Call
<1>2. CASE AssertFails(r)
  BY <1>2 DEF AssertFails
<1>3. CASE Return(r)
  <2>1. i[r] = end[r] + 1
    <3>1. ~(i[r] <= end[r])
      BY <1>3, Positions DEF Return
    <3>2. QED BY <3>1, LoopOver
  <2>2. QED BY <1>3, <2>1 DEF Return
<1>4. CASE EcbEncrypt(r)
  BY <1>4 DEF EcbEncrypt
<1>5. CASE EcbDecrypt(r)
  BY <1>5 DEF EcbDecrypt
<1>6. CASE CbcMix(r)
  BY <1>6 DEF CbcMix
<1>7. CASE CbcEncrypt(r)
  BY <1>7 DEF CbcEncrypt
<1>8. CASE CbcChain(r)
  BY <1>8 DEF CbcChain
<1>9. CASE CbcSave(r)
  BY <1>9 DEF CbcSave
<1>10. CASE CbcDecrypt(r)
  BY <1>10 DEF CbcDecrypt
<1>11. CASE CbcUnmix(r)
  BY <1>11 DEF CbcUnmix
<1>12. CASE CbcRestore(r)
  BY <1>12 DEF CbcRestore
<1>13. CASE NiLoad(r)
  BY <1>13 DEF NiLoad
<1>14. CASE NiStore(r)
  BY <1>14 DEF NiStore
<1>15. QED
  BY <1>1, <1>2, <1>3, <1>4, <1>5, <1>6, <1>7, <1>8, <1>9, <1>10, <1>11,
     <1>12, <1>13, <1>14 DEF Work

-----------------------------------------------------------------------------
(* What is read and what is written.                                       *)

\* Shapes of the variables that the steps below update.
LEMMA Shapes ==
  ASSUME IInv
  PROVE  /\ i \in [Roles -> Nat] /\ iv \in [Roles -> Block]
         /\ block \in [Roles -> Block] /\ prev \in [Roles -> Block]
         /\ pc \in [Roles -> {"idle", "loop", "crypt", "unmix", "chain", "store"}]
         /\ \A r \in Roles : out[r] \in Buffers
         /\ out["encrypt"] \in {"plain", "cipher"}
         /\ out["decrypt"] \in {out["encrypt"], "clear"}
         /\ mem \in [Buffers -> [1..N -> Block]]
         /\ mode \in {"ECB", "CBC"} /\ iv0 \in Block
         /\ "encrypt" \in Roles /\ "decrypt" \in Roles
BY DEF IInv, TypeOK, Roles

\* Encryption reads the message, although it may overwrite it.
LEMMA ReadEncrypt ==
  ASSUME IInv, i["encrypt"] <= end["encrypt"], pc["encrypt"] # "chain"
  PROVE  Input("encrypt") = plain[i["encrypt"]]
<1>1. i["encrypt"] \in 1..N
  BY InBuffers DEF Roles
<1>2. pc["encrypt"] # "unmix"
  BY DEF IInv, PlacesInv, Roles
<1>3. ~Written("encrypt", i["encrypt"])
  BY <1>1, <1>2 DEF Written
<1>4. QED BY <1>1, <1>3 DEF IInv, InputInv, Input, In

\* Decryption reads the ciphertext, although it may overwrite it.
LEMMA ReadDecrypt ==
  ASSUME IInv, i["decrypt"] <= end["decrypt"],
         pc["decrypt"] \notin {"unmix", "chain"}
  PROVE  Input("decrypt") = ref[i["decrypt"]]
<1>1. i["decrypt"] \in 1..N
  BY InBuffers DEF Roles
<1>2. i["decrypt"] < i["encrypt"]
  BY Positions, Shapes
<1>3. QED BY <1>1, <1>2, Positions, Shapes DEF IInv, InputInv, Written, Input, In

\* The step writes v to the block that r is at, and nothing else.
Put(r, v) ==
  \A b \in Buffers, k \in 1..N :
    mem'[b][k] = IF b = out[r] /\ k = i[r] THEN v ELSE mem[b][k]

\* Within the buffers a write does not fail: it is the assignment Put.
LEMMA WriteIsPut ==
  ASSUME IInv, NEW r \in Roles, i[r] <= end[r], NEW v, Write(r, v)
  PROVE  Put(r, v)
BY InBuffers, Shapes DEF Put, Write

\* What each step writes.
LEMMA WhatIsWritten ==
  ASSUME IInv, NEW r \in Roles
  PROVE  /\ EcbEncrypt(r) \/ CbcEncrypt(r) \/ (NiStore(r) /\ r = "encrypt") =>
              r = "encrypt" /\ i[r] \in 1..N /\ Put(r, ref[i[r]])
         /\ EcbDecrypt(r) \/ CbcUnmix(r) \/ (NiStore(r) /\ r = "decrypt") =>
              r = "decrypt" /\ i[r] \in 1..N /\ Put(r, plain[i[r]])
         /\ CbcDecrypt(r) =>
              r = "decrypt" /\ i[r] \in 1..N /\ Put(r, DecryptBlock(ref[i[r]]))
<1>1. ASSUME EcbEncrypt(r)
      PROVE  r = "encrypt" /\ i[r] \in 1..N /\ Put(r, ref[i[r]])
  <2>1. /\ r = "encrypt" /\ pc[r] = "loop" /\ i[r] <= end[r] /\ mode = "ECB"
        /\ Write(r, EncryptBlock(Input(r)))
    BY <1>1 DEF EcbEncrypt, AtBlock
  <2>2. EncryptBlock(Input(r)) = ref[i[r]]
    BY <2>1, BlockAt, ReadEncrypt DEF Mix
  <2>3. QED BY <2>1, <2>2, InBuffers, WriteIsPut
<1>2. ASSUME EcbDecrypt(r)
      PROVE  r = "decrypt" /\ i[r] \in 1..N /\ Put(r, plain[i[r]])
  <2>1. /\ r = "decrypt" /\ pc[r] = "loop" /\ i[r] <= end[r] /\ mode = "ECB"
        /\ Write(r, DecryptBlock(Input(r)))
    BY <1>2 DEF EcbDecrypt, AtBlock
  <2>2. DecryptBlock(Input(r)) = plain[i[r]]
    BY <2>1, BlockAt, ReadDecrypt DEF Mix
  <2>3. QED BY <2>1, <2>2, InBuffers, WriteIsPut
<1>3. ASSUME CbcEncrypt(r)
      PROVE  r = "encrypt" /\ i[r] \in 1..N /\ Put(r, ref[i[r]])
  <2>1. /\ r = "encrypt" /\ pc[r] = "crypt"
        /\ Write(r, EncryptBlock(block[r]))
    BY <1>3 DEF CbcEncrypt
  <2>2. /\ mode = "CBC" /\ i[r] <= end[r]
        /\ block[r] = XorBlock(plain[i[r]], Chaining(i[r] - 1))
    BY <2>1 DEF IInv, PlacesInv, BlockInv
  <2>3. EncryptBlock(block[r]) = ref[i[r]]
    BY <2>2, BlockAt DEF Mix
  <2>4. QED BY <2>1, <2>2, <2>3, InBuffers, WriteIsPut
<1>4. ASSUME CbcDecrypt(r)
      PROVE  r = "decrypt" /\ i[r] \in 1..N /\ Put(r, DecryptBlock(ref[i[r]]))
  <2>1. /\ r = "decrypt" /\ pc[r] = "crypt"
        /\ Write(r, DecryptBlock(Input(r)))
    BY <1>4 DEF CbcDecrypt
  <2>2. i[r] <= end[r]
    BY <2>1 DEF IInv, PlacesInv
  <2>3. QED BY <2>1, <2>2, ReadDecrypt, InBuffers, WriteIsPut
<1>5. ASSUME CbcUnmix(r)
      PROVE  r = "decrypt" /\ i[r] \in 1..N /\ Put(r, plain[i[r]])
  <2>1. pc[r] = "unmix" /\ Write(r, XorBlock(mem[out[r]][i[r]], iv[r]))
    BY <1>5 DEF CbcUnmix
  <2>2. /\ r = "decrypt" /\ mode = "CBC" /\ impl[r] = "generic"
        /\ i[r] <= end[r]
    BY <2>1 DEF IInv, PlacesInv
  <2>3. mem[out[r]][i[r]] = DecryptBlock(ref[i[r]]) /\ iv[r] = Chaining(i[r] - 1)
    BY <2>1, <2>2 DEF IInv, BlockInv, ChainInv
  <2>4. XorBlock(mem[out[r]][i[r]], iv[r]) = plain[i[r]]
    BY <2>2, <2>3, BlockAt DEF Mix
  <2>5. QED BY <2>1, <2>2, <2>4, InBuffers, WriteIsPut
<1>6. ASSUME NiStore(r)
      PROVE  /\ i[r] \in 1..N
             /\ Put(r, IF r = "encrypt" THEN ref[i[r]] ELSE plain[i[r]])
  <2>1. /\ pc[r] = "store"
        /\ Write(r, IF r = "encrypt" THEN block[r]
                     ELSE XorBlock(DecryptBlock(block[r]), prev[r]))
    BY <1>6 DEF NiStore
  <2>2. mode = "CBC" /\ impl[r] = "ni" /\ i[r] <= end[r]
    BY <2>1 DEF IInv, PlacesInv
  <2>3. block[r] = ref[i[r]]
    BY <2>1 DEF IInv, BlockInv, Roles
  <2>4. prev[r] = Chaining(i[r] - 1)
    BY <2>1, <2>2 DEF IInv, ChainInv
  <2>5. XorBlock(DecryptBlock(block[r]), prev[r]) = plain[i[r]]
    BY <2>2, <2>3, <2>4, BlockAt DEF Mix
  <2>6. CASE r = "encrypt"
    BY <2>1, <2>2, <2>3, <2>6, InBuffers, WriteIsPut
  <2>7. CASE r # "encrypt"
    BY <2>1, <2>2, <2>5, <2>7, InBuffers, WriteIsPut
  <2>8. QED BY <2>6, <2>7
<1>7. QED BY <1>1, <1>2, <1>3, <1>4, <1>5, <1>6

-----------------------------------------------------------------------------
(* IInv is inductive.                                                      *)

\* Encryption has written the ciphertext block it is at.
LEMMA InputAfterEncrypt ==
  ASSUME IInv, i["encrypt"] \in 1..N, Put("encrypt", ref[i["encrypt"]]),
         UNCHANGED setup,
         \A k \in 1..N : ~Written("encrypt", k)' =>
           ~Written("encrypt", k) /\ k # i["encrypt"],
         \A k \in 1..N : Written("decrypt", k)' <=> Written("decrypt", k),
         \A k \in 1..N : k < i'["encrypt"] => k < i["encrypt"] \/ k = i["encrypt"]
  PROVE  InputInv'
<1>1. InputInv /\ "plain" \in Buffers /\ out["encrypt"] \in Buffers
  BY Shapes DEF IInv, Buffers
<1>2. N' = N /\ out' = out /\ plain' = plain /\ ref' = ref
  BY DEF setup, N
<1> HIDE DEF Written
<1>3. ASSUME NEW k \in 1..N, ~Written("encrypt", k)'
      PROVE  mem'["plain"][k] = plain[k]
  BY <1>1, <1>3 DEF InputInv, Put
<1>4. ASSUME NEW k \in 1..N, k < i'["encrypt"],
             out["decrypt"] # out["encrypt"] \/ ~Written("decrypt", k)'
      PROVE  mem'[out["encrypt"]][k] = ref[k]
  BY <1>1, <1>4 DEF InputInv, Put
<1>5. QED BY <1>2, <1>3, <1>4 DEF InputInv

\* Decryption has written to the block it is at, which encryption has passed.
LEMMA InputAfterDecrypt ==
  ASSUME IInv, i["decrypt"] <= end["decrypt"], NEW v, Put("decrypt", v),
         UNCHANGED setup, i'["encrypt"] = i["encrypt"],
         \A k \in 1..N : Written("encrypt", k)' <=> Written("encrypt", k),
         \A k \in 1..N : ~Written("decrypt", k)' =>
           ~Written("decrypt", k) /\ k # i["decrypt"]
  PROVE  InputInv'
<1>1. InputInv /\ "plain" \in Buffers /\ out["encrypt"] \in Buffers
  BY Shapes DEF IInv, Buffers
<1>2. N' = N /\ out' = out /\ plain' = plain /\ ref' = ref
  BY DEF setup, N
<1>3. \A k \in 1..N : ~Written("encrypt", k) => k # i["decrypt"]
  BY Positions, Shapes DEF Written
<1> HIDE DEF Written
<1>4. ASSUME NEW k \in 1..N, ~Written("encrypt", k)'
      PROVE  mem'["plain"][k] = plain[k]
  BY <1>1, <1>3, <1>4 DEF InputInv, Put
<1>5. ASSUME NEW k \in 1..N, k < i'["encrypt"],
             out["decrypt"] # out["encrypt"] \/ ~Written("decrypt", k)'
      PROVE  mem'[out["encrypt"]][k] = ref[k]
  BY <1>1, <1>5 DEF InputInv, Put
<1>6. QED BY <1>2, <1>4, <1>5 DEF InputInv

\* No step disturbs a block that is still to be read.
LEMMA InputStep ==
  ASSUME IInv, NEW r \in Roles, Work(r)
  PROVE  InputInv'
<1> USE DEF setup, frame, Goto, Step, AtBlock, IInv, Written, N, Roles
<1>1. CASE Call(r)
  BY <1>1, Positions, Shapes DEF Call, InputInv
<1>2. CASE AssertFails(r)
  BY <1>2, Positions, Shapes DEF AssertFails, InputInv
<1>3. CASE Return(r)
  BY <1>3, Positions, Shapes DEF Return, InputInv
<1>4. CASE EcbEncrypt(r)
  <2>1. r = "encrypt" /\ i[r] \in 1..N /\ Put(r, ref[i[r]])
    BY <1>4, WhatIsWritten
  <2>2. QED BY <1>4, <2>1, InputAfterEncrypt, Positions, Shapes DEF EcbEncrypt
<1>5. CASE EcbDecrypt(r)
  <2>1. r = "decrypt" /\ i[r] <= end[r] /\ Put(r, plain[i[r]])
    BY <1>5, WhatIsWritten DEF EcbDecrypt, PlacesInv
  <2>2. /\ UNCHANGED setup
        /\ i' = [i EXCEPT !["decrypt"] = i["decrypt"] + 1]
        /\ pc' = [pc EXCEPT !["decrypt"] = "loop"]
    BY <1>5, <2>1 DEF EcbDecrypt
  <2>3. i'["encrypt"] = i["encrypt"] /\ pc'["encrypt"] = pc["encrypt"]
        /\ i'["decrypt"] = i["decrypt"] + 1
    BY <2>2, Shapes
  <2>4. \A k \in 1..N : Written("encrypt", k)' <=> Written("encrypt", k)
    BY <2>3 DEF Written
  <2>5. pc'["decrypt"] = "loop" /\ i["decrypt"] \in Nat
    BY <2>2, Shapes, Positions
  <2>6. pc["decrypt"] = "loop"
    BY <1>5, <2>1 DEF EcbDecrypt
  <2>7. \A k \in 1..N : ~Written("decrypt", k)' =>
          ~Written("decrypt", k) /\ k # i["decrypt"]
    BY <2>3, <2>5, <2>6 DEF Written
  <2> HIDE DEF Written
  <2>8. i["decrypt"] <= end["decrypt"] /\ Put("decrypt", plain[i["decrypt"]])
    BY <2>1
  <2>9. UNCHANGED setup
    BY <2>2
  <2>10. QED BY <2>3, <2>4, <2>7, <2>8, <2>9, InputAfterDecrypt
<1>6. CASE CbcMix(r)
  BY <1>6, Positions, Shapes DEF CbcMix, InputInv
<1>7. CASE CbcEncrypt(r)
  <2>1. r = "encrypt" /\ i[r] \in 1..N /\ Put(r, ref[i[r]])
    BY <1>7, WhatIsWritten
  <2>2. QED BY <1>7, <2>1, InputAfterEncrypt, Positions, Shapes DEF CbcEncrypt
<1>8. CASE CbcChain(r)
  <2>1. r = "encrypt" /\ i[r] \in 1..N /\ mem[out[r]][i[r]] = ref[i[r]]
    BY <1>8, InBuffers DEF CbcChain, BlockInv, PlacesInv, InputInv
  <2>2. \A k \in 1..N :
          /\ Written("encrypt", k)' <=> Written("encrypt", k)
          /\ Written("decrypt", k)' <=> Written("decrypt", k)
          /\ k < i'["encrypt"] <=> k < i["encrypt"] \/ k = i["encrypt"]
    BY <1>8, <2>1, Positions, Shapes DEF CbcChain
  <2>3. UNCHANGED <<mem, setup>>
    BY <1>8 DEF CbcChain
  <2> HIDE DEF Written
  <2>4. QED BY <2>1, <2>2, <2>3 DEF InputInv
<1>9. CASE CbcSave(r)
  BY <1>9, Positions, Shapes DEF CbcSave, InputInv
<1>10. CASE CbcDecrypt(r)
  <2>1. r = "decrypt" /\ i[r] <= end[r] /\ Put(r, DecryptBlock(ref[i[r]]))
    BY <1>10, WhatIsWritten DEF CbcDecrypt, PlacesInv
  <2>2. QED BY <1>10, <2>1, InputAfterDecrypt, Positions, Shapes DEF CbcDecrypt
<1>11. CASE CbcUnmix(r)
  <2>1. r = "decrypt" /\ i[r] <= end[r] /\ Put(r, plain[i[r]])
    BY <1>11, WhatIsWritten DEF CbcUnmix, PlacesInv
  <2>2. QED BY <1>11, <2>1, InputAfterDecrypt, Positions, Shapes DEF CbcUnmix
<1>12. CASE CbcRestore(r)
  BY <1>12, Positions, Shapes DEF CbcRestore, InputInv
<1>13. CASE NiLoad(r)
  BY <1>13, Positions, Shapes DEF NiLoad, InputInv
<1>14. CASE NiStore(r)
  <2>1. CASE r = "encrypt"
    <3>1. i[r] \in 1..N /\ Put(r, ref[i[r]])
      BY <1>14, <2>1, WhatIsWritten
    <3>2. QED BY <1>14, <2>1, <3>1, InputAfterEncrypt, Positions, Shapes DEF NiStore
  <2>2. CASE r = "decrypt"
    <3>1. i[r] <= end[r] /\ Put(r, plain[i[r]])
      BY <1>14, <2>2, WhatIsWritten DEF NiStore, PlacesInv
    <3>2. QED BY <1>14, <2>2, <3>1, InputAfterDecrypt, Positions, Shapes DEF NiStore
  <2>3. QED BY <2>1, <2>2
<1>15. QED
  BY <1>1, <1>2, <1>3, <1>4, <1>5, <1>6, <1>7, <1>8, <1>9, <1>10, <1>11,
     <1>12, <1>13, <1>14 DEF Work

\* Every step of decryption restores the message.
LEMMA OutputStep ==
  ASSUME IInv, NEW r \in Roles, Work(r)
  PROVE  OutputInv'
<1> USE DEF setup, frame, Goto, Step, AtBlock, IInv, OutputInv, N, Roles
<1>1. CASE Call(r)
  BY <1>1, Positions, Shapes DEF Call
<1>2. CASE AssertFails(r)
  BY <1>2, Positions, Shapes DEF AssertFails
<1>3. CASE Return(r)
  BY <1>3, Positions, Shapes DEF Return
<1>4. CASE EcbEncrypt(r)
  <2>1. r = "encrypt" /\ Put(r, ref[i[r]])
    BY <1>4, WhatIsWritten
  <2>2. QED BY <1>4, <2>1, Positions, Shapes DEF EcbEncrypt, Put
<1>5. CASE EcbDecrypt(r)
  <2>1. r = "decrypt" /\ i[r] \in 1..N /\ Put(r, plain[i[r]])
    BY <1>5, WhatIsWritten
  <2>2. QED BY <1>5, <2>1, Positions, Shapes DEF EcbDecrypt, Put
<1>6. CASE CbcMix(r)
  BY <1>6, Positions, Shapes DEF CbcMix
<1>7. CASE CbcEncrypt(r)
  <2>1. r = "encrypt" /\ Put(r, ref[i[r]])
    BY <1>7, WhatIsWritten
  <2>2. QED BY <1>7, <2>1, Positions, Shapes DEF CbcEncrypt, Put
<1>8. CASE CbcChain(r)
  BY <1>8, Positions, Shapes DEF CbcChain
<1>9. CASE CbcSave(r)
  BY <1>9, Positions, Shapes DEF CbcSave
<1>10. CASE CbcDecrypt(r)
  <2>1. r = "decrypt" /\ i[r] \in 1..N /\ Put(r, DecryptBlock(ref[i[r]]))
    BY <1>10, WhatIsWritten
  <2>2. QED BY <1>10, <2>1, Positions, Shapes DEF CbcDecrypt, Put
<1>11. CASE CbcUnmix(r)
  <2>1. r = "decrypt" /\ i[r] \in 1..N /\ Put(r, plain[i[r]])
    BY <1>11, WhatIsWritten
  <2>2. QED BY <1>11, <2>1, Positions, Shapes DEF CbcUnmix, Put
<1>12. CASE CbcRestore(r)
  <2>1. /\ r = "decrypt" /\ i[r] \in 1..N
        /\ mem[out[r]][i[r]] = plain[i[r]]
    BY <1>12, InBuffers DEF CbcRestore, BlockInv, PlacesInv
  <2>2. \A k \in 1..N : k < i'["decrypt"] => k < i["decrypt"] \/ k = i["decrypt"]
    BY <1>12, <2>1, Positions, Shapes DEF CbcRestore
  <2>3. UNCHANGED <<mem, setup>>
    BY <1>12 DEF CbcRestore
  <2>4. QED BY <2>1, <2>2, <2>3
<1>13. CASE NiLoad(r)
  BY <1>13, Positions, Shapes DEF NiLoad
<1>14. CASE NiStore(r)
  <2>1. CASE r = "encrypt"
    <3>1. Put("encrypt", ref[i["encrypt"]])
      BY <1>14, <2>1, WhatIsWritten
    <3>2. UNCHANGED setup /\ i'["decrypt"] = i["decrypt"]
      BY <1>14, <2>1, Shapes DEF NiStore
    <3>3. QED BY <3>1, <3>2, Positions, Shapes DEF Put
  <2>2. CASE r = "decrypt"
    <3>1. i[r] \in 1..N /\ Put(r, plain[i[r]])
      BY <1>14, <2>2, WhatIsWritten
    <3>2. /\ UNCHANGED setup
          /\ \A k \in 1..N :
               k < i'["decrypt"] => k < i["decrypt"] \/ k = i["decrypt"]
      BY <1>14, <2>2, Positions, Shapes DEF NiStore
    <3>3. QED BY <2>2, <3>1, <3>2, Shapes DEF Put
  <2>3. QED BY <2>1, <2>2
<1>15. QED
  BY <1>1, <1>2, <1>3, <1>4, <1>5, <1>6, <1>7, <1>8, <1>9, <1>10, <1>11,
     <1>12, <1>13, <1>14 DEF Work

\* The chaining value moves on by one block.
LEMMA ChainingNext ==
  ASSUME IInv, NEW r \in Roles
  PROVE  /\ (i[r] + 1) - 1 = i[r]
         /\ Chaining(i[r]) = ref[i[r]]
BY Positions DEF Chaining

\* Every step passes the chaining value on.
LEMMA ChainStep ==
  ASSUME IInv, NEW r \in Roles, Work(r)
  PROVE  ChainInv'
<1> USE DEF setup, frame, Goto, Step, AtBlock, IInv, ChainInv, Roles, Chaining
<1>1. CASE Call(r)
  BY <1>1, Shapes DEF Call, PlacesInv
<1>2. CASE AssertFails(r)
  BY <1>2, Shapes DEF AssertFails, PlacesInv
<1>3. CASE Return(r)
  <2>1. \A k : Chaining(k)' = Chaining(k)
    BY <1>3 DEF Return
  <2> HIDE DEF Chaining
  <2>2. iv'[r] = IF mode = "CBC" THEN Chaining(i[r] - 1) ELSE iv0
    <3>1. pc[r] = "loop" /\ impl[r] \in {"generic", "ni"}
      BY <1>3 DEF Return, TypeOK
    <3>2. CASE mode = "CBC" /\ impl[r] = "ni"
      BY <1>3, <3>1, <3>2, Shapes DEF Return
    <3>3. CASE ~(mode = "CBC" /\ impl[r] = "ni")
      BY <1>3, <3>1, <3>3, Shapes DEF Return
    <3>4. QED BY <3>2, <3>3
  <2>3. \A q \in Roles : q # r => iv'[q] = iv[q] /\ pc'[q] = pc[q]
    BY <1>3, Shapes DEF Return
  <2>4. /\ pc'[r] = "idle"
        /\ UNCHANGED <<mode, impl, iv0, i, prev>>
    BY <1>3, Shapes DEF Return
  <2>5. QED BY <2>1, <2>2, <2>3, <2>4, Shapes
<1>4. CASE EcbEncrypt(r)
  BY <1>4, Shapes DEF EcbEncrypt, PlacesInv
<1>5. CASE EcbDecrypt(r)
  BY <1>5, Shapes DEF EcbDecrypt, PlacesInv
<1>6. CASE CbcMix(r)
  BY <1>6, Shapes DEF CbcMix, PlacesInv
<1>7. CASE CbcEncrypt(r)
  BY <1>7, Shapes DEF CbcEncrypt, PlacesInv
<1>8. CASE CbcChain(r)
  <2>1. mem[out[r]][i[r]] = ref[i[r]]
    BY <1>8 DEF CbcChain, BlockInv
  <2>2. QED BY <1>8, <2>1, ChainingNext, Shapes DEF CbcChain, PlacesInv
<1>9. CASE CbcSave(r)
  BY <1>9, Shapes DEF CbcSave, PlacesInv
<1>10. CASE CbcDecrypt(r)
  BY <1>10, Shapes DEF CbcDecrypt, PlacesInv
<1>11. CASE CbcUnmix(r)
  BY <1>11, Shapes DEF CbcUnmix, PlacesInv
<1>12. CASE CbcRestore(r)
  <2>1. block[r] = ref[i[r]]
    BY <1>12 DEF CbcRestore, BlockInv
  <2>2. QED BY <1>12, <2>1, ChainingNext, Shapes DEF CbcRestore, PlacesInv
<1>13. CASE NiLoad(r)
  BY <1>13, Shapes DEF NiLoad, PlacesInv
<1>14. CASE NiStore(r)
  <2>1. block[r] = ref[i[r]]
    BY <1>14 DEF NiStore, BlockInv
  <2>2. QED BY <1>14, <2>1, ChainingNext, Shapes DEF NiStore, PlacesInv
<1>15. QED
  BY <1>1, <1>2, <1>3, <1>4, <1>5, <1>6, <1>7, <1>8, <1>9, <1>10, <1>11,
     <1>12, <1>13, <1>14 DEF Work

\* A block in hand is never where the other caller writes.
LEMMA Apart ==
  ASSUME IInv
  PROVE  /\ \A r \in Roles : pc[r] \in {"crypt", "unmix", "chain", "store"} =>
              i[r] \in 1..N
         /\ pc["decrypt"] \in {"crypt", "unmix", "chain", "store"} =>
              i["decrypt"] # i["encrypt"]
<1>1. \A r \in Roles : pc[r] \in {"crypt", "unmix", "chain", "store"} =>
        i[r] <= end[r]
  BY DEF IInv, PlacesInv
<1>2. QED BY <1>1, InBuffers, Positions, Shapes

\* Every step keeps the block in hand what its place says.
LEMMA BlockStep ==
  ASSUME IInv, NEW r \in Roles, Work(r)
  PROVE  BlockInv'
<1> USE DEF setup, frame, Goto, Step, AtBlock, IInv, BlockInv, Chaining, Roles
<1>1. CASE Call(r)
  BY <1>1, Shapes DEF Call
<1>2. CASE AssertFails(r)
  BY <1>2, Shapes DEF AssertFails
<1>3. CASE Return(r)
  BY <1>3, Shapes DEF Return
<1>4. CASE EcbEncrypt(r)
  <2>1. r = "encrypt" /\ i[r] \in 1..N /\ Put(r, ref[i[r]])
    BY <1>4, WhatIsWritten
  <2>2. QED BY <1>4, <2>1, Apart, Shapes DEF EcbEncrypt, Put
<1>5. CASE EcbDecrypt(r)
  <2>1. r = "decrypt" /\ i[r] \in 1..N /\ Put(r, plain[i[r]])
    BY <1>5, WhatIsWritten
  <2>2. QED BY <1>5, <2>1, Apart, Shapes DEF EcbDecrypt, Put, PlacesInv
<1>6. CASE CbcMix(r)
  <2>1. r = "encrypt" /\ Input(r) = plain[i[r]] /\ iv[r] = Chaining(i[r] - 1)
    BY <1>6, ReadEncrypt DEF CbcMix, ChainInv
  <2>2. QED BY <1>6, <2>1, Shapes DEF CbcMix
<1>7. CASE CbcEncrypt(r)
  <2>1. r = "encrypt" /\ i[r] \in 1..N /\ Put(r, ref[i[r]])
    BY <1>7, WhatIsWritten
  <2>2. QED BY <1>7, <2>1, Apart, Shapes DEF CbcEncrypt, Put
<1>8. CASE CbcChain(r)
  BY <1>8, Shapes DEF CbcChain
<1>9. CASE CbcSave(r)
  <2>1. r = "decrypt" /\ Input(r) = ref[i[r]]
    BY <1>9, ReadDecrypt DEF CbcSave
  <2>2. QED BY <1>9, <2>1, Shapes DEF CbcSave
<1>10. CASE CbcDecrypt(r)
  <2>1. r = "decrypt" /\ i[r] \in 1..N /\ Put(r, DecryptBlock(ref[i[r]]))
    BY <1>10, WhatIsWritten
  <2>2. QED BY <1>10, <2>1, Apart, Shapes DEF CbcDecrypt, Put, PlacesInv
<1>11. CASE CbcUnmix(r)
  <2>1. r = "decrypt" /\ i[r] \in 1..N /\ Put(r, plain[i[r]])
    BY <1>11, WhatIsWritten
  <2>2. QED BY <1>11, <2>1, Apart, Shapes DEF CbcUnmix, Put, PlacesInv
<1>12. CASE CbcRestore(r)
  BY <1>12, Shapes DEF CbcRestore
<1>13. CASE NiLoad(r)
  <2>1. prev[r] = Chaining(i[r] - 1) /\ i[r] <= end[r] /\ mode = "CBC"
    BY <1>13 DEF NiLoad, ChainInv
  <2>2. CASE r = "encrypt"
    <3>1. EncryptBlock(XorBlock(Input(r), prev[r])) = ref[i[r]]
      BY <1>13, <2>1, <2>2, ReadEncrypt, BlockAt DEF NiLoad, Mix
    <3>2. QED BY <1>13, <2>2, <3>1, Shapes DEF NiLoad
  <2>3. CASE r = "decrypt"
    <3>1. Input(r) = ref[i[r]]
      BY <1>13, <2>1, <2>3, ReadDecrypt DEF NiLoad
    <3>2. QED BY <1>13, <2>3, <3>1, Shapes DEF NiLoad
  <2>4. QED BY <2>2, <2>3
<1>14. CASE NiStore(r)
  <2>1. i[r] \in 1..N /\ \E v : Put(r, v)
    BY <1>14, WhatIsWritten
  <2>2. QED BY <1>14, <2>1, Apart, Shapes DEF NiStore, Put
<1>15. QED
  BY <1>1, <1>2, <1>3, <1>4, <1>5, <1>6, <1>7, <1>8, <1>9, <1>10, <1>11,
     <1>12, <1>13, <1>14 DEF Work

-----------------------------------------------------------------------------
(* The theorems.                                                           *)

\* Both callers start before the first call.
LEMMA Initially == Init => IInv
<1> SUFFICES ASSUME Init PROVE IInv
  OBVIOUS
<1> USE DEF Init, Roles
<1>1. plain \in Seq(Block) /\ N \in Nat /\ \A k \in 1..N : plain[k] \in Block
  BY MessagesAreBlocks DEF N
<1>2. TypeOK
  <2>1. /\ mem \in [Buffers -> [1..N -> Block]]
        /\ block \in [Roles -> Block] /\ prev \in [Roles -> Block]
    BY <1>1 DEF Buffers
  <2>2. /\ out \in [Roles -> Buffers]
        /\ out["encrypt"] \in {"plain", "cipher"}
        /\ out["decrypt"] \in {out["encrypt"], "clear"}
    BY DEF Buffers
  <2>3. \A r \in Roles :
          /\ done[r] <= end[r] /\ end[r] <= Limit(r)
          /\ done[r] < i[r] /\ i[r] <= end[r] + 1
    BY <1>1 DEF Limit
  <2>4. QED BY <1>1, <2>1, <2>2, <2>3 DEF TypeOK
<1>3. PlacesInv /\ OutputInv /\ BlockInv
  BY DEF PlacesInv, OutputInv, BlockInv
<1>4. InputInv
  BY DEF InputInv, Written
<1>5. ChainInv
  BY DEF ChainInv, Chaining
<1>6. QED BY <1>2, <1>3, <1>4, <1>5 DEF IInv

\* Every step of a caller and every round of its loop preserves IInv.
LEMMA Inductive == IInv /\ [Next]_vars => IInv'
<1> SUFFICES ASSUME IInv, [Next]_vars PROVE IInv'
  OBVIOUS
<1>1. ASSUME NEW r \in Roles, Work(r) PROVE IInv'
  <2>1. Prescribed(mode, plain, iv0, ref)'
    BY <1>1, SetupStep DEF IInv, setup
  <2>2. QED BY <1>1, <2>1, TypeStep, PlacesStep, InputStep, OutputStep,
               ChainStep, BlockStep DEF IInv
<1>2. CASE UNCHANGED vars
  <2> USE <1>2 DEF vars, setup, frame
  <2>1. TypeOK' /\ Prescribed(mode, plain, iv0, ref)' /\ PlacesInv'
    BY DEF IInv, TypeOK, PlacesInv, Limit, N
  <2>2. InputInv' /\ OutputInv' /\ ChainInv' /\ BlockInv'
    BY DEF IInv, InputInv, OutputInv, ChainInv, BlockInv, Chaining, Written, N
  <2>3. QED BY <2>1, <2>2 DEF IInv
<1>3. QED BY <1>1, <1>2 DEF Next, Stopped

\* The inductive invariant holds in every reachable state.
THEOREM Invariance == Spec => []IInv
<1>1. QED BY Initially, Inductive, PTL DEF Spec

\* What encryption hands over is the ciphertext of the whole message under the
\* mode, for any cutting into calls, in either build and also in place.
THEOREM CipherTextCorrect == Spec => []CipherText
<1>1. IInv => CipherText
  <2> SUFFICES ASSUME IInv, NEW k \in 1..done["encrypt"],
                      out["decrypt"] # out["encrypt"] \/ ~Written("decrypt", k)
               PROVE  mem[out["encrypt"]][k] = ref[k]
    BY DEF CipherText
  <2>1. k \in 1..N /\ k < i["encrypt"]
    BY Positions DEF Roles
  <2>2. QED BY <2>1 DEF IInv, InputInv
<1>2. QED BY <1>1, Invariance, PTL

\* Decryption gives back the message, whichever builds the two callers use and
\* however each cuts its work into calls.
THEOREM RoundTripCorrect == Spec => []RoundTrip
<1>1. IInv => RoundTrip
  <2> SUFFICES ASSUME IInv, NEW k \in 1..done["decrypt"]
               PROVE  mem[out["decrypt"]][k] = plain[k]
    BY DEF RoundTrip
  <2>1. k \in 1..N /\ k < i["decrypt"]
    BY Positions DEF Roles
  <2>2. QED BY <2>1 DEF IInv, OutputInv
<1>2. QED BY <1>1, Invariance, PTL

\* Between two calls the iv array continues the message.
THEOREM IvCarriedCorrect == Spec => []IvCarried
<1>1. IInv => IvCarried
  <2> SUFFICES ASSUME IInv, NEW r \in Roles, pc[r] = "idle"
               PROVE  iv[r] = IF mode = "CBC" THEN Chaining(done[r]) ELSE iv0
    BY DEF IvCarried
  <2>1. i[r] - 1 = done[r]
    BY Positions DEF IInv, PlacesInv
  <2>2. QED BY <2>1, Shapes DEF IInv, ChainInv
<1>2. QED BY <1>1, Invariance, PTL

=============================================================================
