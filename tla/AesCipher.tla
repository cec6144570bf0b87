----------------------------- MODULE AesCipher -----------------------------
(***************************************************************************)
(* AES_Context_EncryptBlock and AES_Context_DecryptBlock in both builds:   *)
(* aes/generic/block.c on a 4 x 4 matrix with the steps of                 *)
(* aes/generic/impl.c, and aes/ni/block.c on a register of 16 bytes with   *)
(* the AES instructions.                                                   *)
(*                                                                         *)
(* The program of AesContext goes on: with the context it has initialized  *)
(* it encrypts a block and decrypts what it got, round by round in either  *)
(* build, then takes another block or initializes the context again.       *)
(***************************************************************************)
EXTENDS AesContext, Integers, Sequences

CONSTANTS
  RSBox,       \* AES_RSBox
  gmul(_, _),  \* the product of a byte and a coefficient in GF(2^8)
  Blocks       \* the blocks to encrypt, as 16 bytes

ASSUME RSBoxType == RSBox \in [Byte -> Byte]

\* The tables undo each other in the one direction decryption needs.
ASSUME TablesUndo == \A x \in Byte : RSBox[SBox[x]] = x

ASSUME gmulType ==
  \A x \in Byte : \A c \in {2, 3, 9, 11, 13, 14} : gmul(x, c) \in Byte

\* Multiplication by the coefficients of InvMixColumns distributes over ^.
ASSUME gmulAdds ==
  \A c \in {9, 11, 13, 14}, x, y \in Byte :
    gmul(Xor(x, y), c) = Xor(gmul(x, c), gmul(y, c))

\* The two matrices are inverse: what a byte of a column contributes, through
\* both, to itself and to the bytes three, two and one row below it.
Sum(a, b, c, d) == Xor(Xor(Xor(a, b), c), d)

ASSUME MatricesInverse ==
  \A x \in Byte :
    LET two == gmul(x, 2)  three == gmul(x, 3) IN
    /\ Sum(gmul(two, 14), gmul(x, 11), gmul(x, 13), gmul(three, 9)) = x
    /\ Sum(gmul(three, 14), gmul(two, 11), gmul(x, 13), gmul(x, 9)) = {}
    /\ Sum(gmul(x, 14), gmul(three, 11), gmul(two, 13), gmul(x, 9)) = {}
    /\ Sum(gmul(x, 14), gmul(x, 11), gmul(three, 13), gmul(two, 9)) = {}

ASSUME BlocksType == Blocks \subseteq [0..15 -> Byte]

VARIABLES
  plain,  \* the block to encrypt
  enc,    \* enc[b]: where build b writes the encrypted block
  dec,    \* dec[b]: where build b writes the decrypted block
  s,      \* the matrix of the generic build, s[row][column]
  block,  \* the register of the AES-NI build
  r,      \* r[b]: the loop variable
  at,     \* at[b]: the place in the two calls, "start" before and "done" after
  trace   \* auxiliary: trace[b][k + 1] is the state after k rounds of encryption

blockVars == <<plain, enc, dec, s, block, r, at, trace>>
vars == <<contextVars, blockVars>>

-----------------------------------------------------------------------------
(* The steps of aes/generic/impl.c.                                        *)

Row(a, b, c, d) ==
  [j \in 0..3 |-> CASE j = 0 -> a [] j = 1 -> b [] j = 2 -> c [] j = 3 -> d]

\* s[i % 4][i / 4] = in[i], and back.
Load(x)  == [row \in 0..3 |-> [col \in 0..3 |-> x[4 * col + row]]]
Out(m)   == [k \in 0..15 |-> m[k % 4][k \div 4]]

SubBytes(m)    == [row \in 0..3 |-> [col \in 0..3 |-> SBox[m[row][col]]]]
InvSubBytes(m) == [row \in 0..3 |-> [col \in 0..3 |-> RSBox[m[row][col]]]]

ShiftRows(m) ==
  Row(m[0],
      Row(m[1][1], m[1][2], m[1][3], m[1][0]),
      Row(m[2][2], m[2][3], m[2][0], m[2][1]),
      Row(m[3][3], m[3][0], m[3][1], m[3][2]))

InvShiftRows(m) ==
  Row(m[0],
      Row(m[1][3], m[1][0], m[1][1], m[1][2]),
      Row(m[2][2], m[2][3], m[2][0], m[2][1]),
      Row(m[3][1], m[3][2], m[3][3], m[3][0]))

\* Every column of m times the matrix whose first row is c; in the next row
\* the coefficients have moved one to the right.
Times(m, c(_, _)) ==
  LET row(j) == [col \in 0..3 |->
        Sum(c(m[j][col], 0), c(m[(j + 1) % 4][col], 1),
            c(m[(j + 2) % 4][col], 2), c(m[(j + 3) % 4][col], 3))]
  IN  Row(row(0), row(1), row(2), row(3))

\* The k-th term of a sum: the coefficients are 2, 3, 1, 1 ...
Mix(x, k) == CASE k = 0 -> gmul(x, 2) [] k = 1 -> gmul(x, 3) [] OTHER -> x

\* ... and 14, 11, 13, 9.
InvMix(x, k) ==
  CASE k = 0 -> gmul(x, 14) [] k = 1 -> gmul(x, 11)
    [] k = 2 -> gmul(x, 13) [] k = 3 -> gmul(x, 9)

MixColumns(m) == Times(m, Mix)
InvMixColumns(m) == Times(m, InvMix)

\* With the four words of round k.
AddRoundKey(m, k) ==
  [row \in 0..3 |-> [col \in 0..3 |->
     Xor(m[row][col], rndk["generic"][4 * k + col][row])]]

-----------------------------------------------------------------------------
(* The instructions of AES-NI, external: byte k of a register is in column *)
(* k / 4 and row k % 4 of the matrix, a register is a round key as well.   *)

XorReg(x, y) == [k \in 0..15 |-> Xor(x[k], y[k])]
SubReg(x)    == [k \in 0..15 |-> SBox[x[k]]]
InvSubReg(x) == [k \in 0..15 |-> RSBox[x[k]]]
ShiftReg(x)    == [k \in 0..15 |-> x[(k + 4 * (k % 4)) % 16]]
InvShiftReg(x) == [k \in 0..15 |-> x[(k + 12 * (k % 4)) % 16]]

\* The byte n rows below byte k, in the same column.
Below(x, k, n) == x[4 * (k \div 4) + ((k + n) % 4)]

MixReg(x) == [k \in 0..15 |->
  Sum(gmul(x[k], 2), gmul(Below(x, k, 1), 3), Below(x, k, 2), Below(x, k, 3))]
InvMixReg(x) == [k \in 0..15 |->
  Sum(gmul(x[k], 14), gmul(Below(x, k, 1), 11), gmul(Below(x, k, 2), 13),
      gmul(Below(x, k, 3), 9))]

aesenc(x, k)     == XorReg(MixReg(SubReg(ShiftReg(x))), k)
aesenclast(x, k) == XorReg(SubReg(ShiftReg(x)), k)
aesdec(x, k)     == XorReg(InvMixReg(InvSubReg(InvShiftReg(x))), k)
aesdeclast(x, k) == XorReg(InvSubReg(InvShiftReg(x)), k)
aesimc(k)        == InvMixReg(k)

\* round_keys[k]: four words of the context, read as 16 bytes.
RoundKey(k) == [j \in 0..15 |-> rndk["ni"][4 * k + (j \div 4)][j % 4]]

-----------------------------------------------------------------------------

Each(x) == [b \in Builds |-> x]
Blank == [k \in 0..15 |-> {}]

Init ==
  /\ ContextInit
  /\ plain \in Blocks
  /\ enc = Each(Blank) /\ dec = Each(Blank)
  /\ s = Load(plain)
  /\ block = plain
  /\ r = Each(0)
  /\ at = Each("start")
  /\ trace = Each(<<>>)

\* The calls on the context and those on blocks alternate.
ContextStep ==
  /\ \A b \in Builds : at[b] = "start"
  /\ ContextNext
  /\ UNCHANGED blockVars

\* Another block to encrypt, and buffers for what becomes of it.
NextBlock ==
  /\ \A b \in Builds : at[b] = "done"
  /\ plain' \in Blocks
  /\ enc' = Each(Blank) /\ dec' = Each(Blank)
  /\ s' = Load(plain')
  /\ block' = plain'
  /\ r' = Each(0)
  /\ at' = Each("start")
  /\ trace' = Each(<<>>)
  /\ UNCHANGED contextVars

\* Build b goes from one place to another, with the loop variable at n.
Go(b, from, to, n) ==
  /\ \A c \in Builds : pc[c] = "ready"
  /\ at[b] = from
  /\ at' = [at EXCEPT ![b] = to]
  /\ r' = [r EXCEPT ![b] = n]
  /\ UNCHANGED <<contextVars, plain>>

Record(b, m) == trace' = [trace EXCEPT ![b] = Append(@, m)]

(* AES_Context_EncryptBlock and AES_Context_DecryptBlock, generic.         *)

EncryptStart ==
  /\ Go("generic", "start", "encrypt", 1)
  /\ s' = AddRoundKey(Load(plain), 0)
  /\ Record("generic", s')
  /\ UNCHANGED <<block, enc, dec>>

\* Mutant: the round key is added before the columns are mixed.
EncryptRound_KeyFirst ==
  /\ r["generic"] < rndn["generic"]
  /\ Go("generic", "encrypt", "encrypt", r["generic"] + 1)
  /\ s' = MixColumns(AddRoundKey(ShiftRows(SubBytes(s)), r["generic"]))
  /\ Record("generic", s')
  /\ UNCHANGED <<block, enc, dec>>

EncryptRound ==
  /\ r["generic"] < rndn["generic"]
  /\ Go("generic", "encrypt", "encrypt", r["generic"] + 1)
  /\ s' = AddRoundKey(MixColumns(ShiftRows(SubBytes(s))), r["generic"])
  /\ Record("generic", s')
  /\ UNCHANGED <<block, enc, dec>>

EncryptLast ==
  /\ r["generic"] >= rndn["generic"]
  /\ Go("generic", "encrypt", "encrypted", r["generic"])
  /\ s' = AddRoundKey(ShiftRows(SubBytes(s)), rndn["generic"])
  /\ enc' = [enc EXCEPT !["generic"] = Out(s')]
  /\ UNCHANGED <<block, dec, trace>>

DecryptStart ==
  /\ Go("generic", "encrypted", "decrypt", rndn["generic"] - 1)
  /\ s' = AddRoundKey(Load(enc["generic"]), rndn["generic"])
  /\ UNCHANGED <<block, enc, dec, trace>>

DecryptRound ==
  /\ r["generic"] > 0
  /\ Go("generic", "decrypt", "decrypt", r["generic"] - 1)
  /\ s' = InvMixColumns(
            AddRoundKey(InvSubBytes(InvShiftRows(s)), r["generic"]))
  /\ UNCHANGED <<block, enc, dec, trace>>

DecryptLast ==
  /\ r["generic"] <= 0
  /\ Go("generic", "decrypt", "done", r["generic"])
  /\ s' = AddRoundKey(InvSubBytes(InvShiftRows(s)), 0)
  /\ dec' = [dec EXCEPT !["generic"] = Out(s')]
  /\ UNCHANGED <<block, enc, trace>>

(* The same two functions, AES-NI.                                         *)

NiEncryptStart ==
  /\ Go("ni", "start", "encrypt", 1)
  /\ block' = XorReg(plain, RoundKey(0))
  /\ Record("ni", Load(block'))
  /\ UNCHANGED <<s, enc, dec>>

NiEncryptRound ==
  /\ r["ni"] < rndn["ni"]
  /\ Go("ni", "encrypt", "encrypt", r["ni"] + 1)
  /\ block' = aesenc(block, RoundKey(r["ni"]))
  /\ Record("ni", Load(block'))
  /\ UNCHANGED <<s, enc, dec>>

NiEncryptLast ==
  /\ r["ni"] >= rndn["ni"]
  /\ Go("ni", "encrypt", "encrypted", r["ni"])
  /\ block' = aesenclast(block, RoundKey(rndn["ni"]))
  /\ enc' = [enc EXCEPT !["ni"] = block']
  /\ UNCHANGED <<s, dec, trace>>

NiDecryptStart ==
  /\ Go("ni", "encrypted", "decrypt", rndn["ni"] - 1)
  /\ block' = XorReg(enc["ni"], RoundKey(rndn["ni"]))
  /\ UNCHANGED <<s, enc, dec, trace>>

\* Mutant: the round keys are used as they are, without aesimc.
NiDecryptRound_PlainKey ==
  /\ r["ni"] > 0
  /\ Go("ni", "decrypt", "decrypt", r["ni"] - 1)
  /\ block' = aesdec(block, RoundKey(r["ni"]))
  /\ UNCHANGED <<s, enc, dec, trace>>

NiDecryptRound ==
  /\ r["ni"] > 0
  /\ Go("ni", "decrypt", "decrypt", r["ni"] - 1)
  /\ block' = aesdec(block, aesimc(RoundKey(r["ni"])))
  /\ UNCHANGED <<s, enc, dec, trace>>

NiDecryptLast ==
  /\ r["ni"] <= 0
  /\ Go("ni", "decrypt", "done", r["ni"])
  /\ block' = aesdeclast(block, RoundKey(0))
  /\ dec' = [dec EXCEPT !["ni"] = block']
  /\ UNCHANGED <<s, enc, trace>>

Next ==
  \/ ContextStep \/ NextBlock
  \/ EncryptStart \/ EncryptRound \/ EncryptLast
  \/ DecryptStart \/ DecryptRound \/ DecryptLast
  \/ NiEncryptStart \/ NiEncryptRound \/ NiEncryptLast
  \/ NiDecryptStart \/ NiDecryptRound \/ NiDecryptLast

Spec == Init /\ [][Next]_vars

-----------------------------------------------------------------------------
(* Properties.                                                             *)

Encrypted(b) == at[b] \in {"encrypted", "decrypt", "done"}

State(b) == IF b = "generic" THEN s ELSE Load(block)

\* Decryption goes back through the states of encryption, round by round, and
\* gives the block back, by either build and whatever the round keys are: also
\* those that the AES-NI build makes of 192 bits, where no test of a build
\* against itself can tell that they are wrong.  The generic build undoes the
\* mixing of columns after it has added the key, AES-NI before that.
RoundTrip ==
  \A b \in Builds :
    /\ at[b] = "decrypt" => State(b) = ShiftRows(SubBytes(trace[b][r[b] + 1]))
    /\ at[b] = "done" => dec[b] = plain

\* With a key of 128 or 256 bits the two builds are in the same state whenever
\* they have come to the same place, and so produce the same ciphertext: one
\* decrypts what the other has encrypted.
BuildsAgree ==
  key.nk # 6 =>
    /\ at["generic"] = at["ni"] /\ r["generic"] = r["ni"] => s = Load(block)
    /\ Encrypted("generic") /\ Encrypted("ni") => enc["generic"] = enc["ni"]
=============================================================================
