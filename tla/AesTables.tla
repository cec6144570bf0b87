----------------------------- MODULE AesTables -----------------------------
(***************************************************************************)
(* The tables of include/cryptone/aes.h and the field arithmetic of        *)
(* aes/generic/helpers.c, on real bytes: the values TLC gives to the       *)
(* parameters of AesContext and AesCipher.  The assumptions say what       *)
(* FIPS 197 says of the tables; TLC evaluates them for every byte.         *)
(***************************************************************************)
EXTENDS Naturals, Sequences, FiniteSetsExt

\* The bits of a number below 256, and back.
Bits(n) == {k \in 0..7 : (n \div 2^k) % 2 = 1}
Number(b) == MapThenSumSet(LAMBDA k : 2^k, b)

XorByte(a, b) == (a \ b) \cup (b \ a)
Bytes == {Bits(n) : n \in 0..255}

\* AES_SBox and AES_RSBox: entry n at position n + 1.
SBoxEntries == <<
     99, 124, 119, 123, 242, 107, 111, 197,  48,   1, 103,  43,
    254, 215, 171, 118, 202, 130, 201, 125, 250,  89,  71, 240,
    173, 212, 162, 175, 156, 164, 114, 192, 183, 253, 147,  38,
     54,  63, 247, 204,  52, 165, 229, 241, 113, 216,  49,  21,
      4, 199,  35, 195,  24, 150,   5, 154,   7,  18, 128, 226,
    235,  39, 178, 117,   9, 131,  44,  26,  27, 110,  90, 160,
     82,  59, 214, 179,  41, 227,  47, 132,  83, 209,   0, 237,
     32, 252, 177,  91, 106, 203, 190,  57,  74,  76,  88, 207,
    208, 239, 170, 251,  67,  77,  51, 133,  69, 249,   2, 127,
     80,  60, 159, 168,  81, 163,  64, 143, 146, 157,  56, 245,
    188, 182, 218,  33,  16, 255, 243, 210, 205,  12,  19, 236,
     95, 151,  68,  23, 196, 167, 126,  61, 100,  93,  25, 115,
     96, 129,  79, 220,  34,  42, 144, 136,  70, 238, 184,  20,
    222,  94,  11, 219, 224,  50,  58,  10,  73,   6,  36,  92,
    194, 211, 172,  98, 145, 149, 228, 121, 231, 200,  55, 109,
    141, 213,  78, 169, 108,  86, 244, 234, 101, 122, 174,   8,
    186, 120,  37,  46,  28, 166, 180, 198, 232, 221, 116,  31,
     75, 189, 139, 138, 112,  62, 181, 102,  72,   3, 246,  14,
     97,  53,  87, 185, 134, 193,  29, 158, 225, 248, 152,  17,
    105, 217, 142, 148, 155,  30, 135, 233, 206,  85,  40, 223,
    140, 161, 137,  13, 191, 230,  66, 104,  65, 153,  45,  15,
    176,  84, 187,  22>>

RSBoxEntries == <<
     82,   9, 106, 213,  48,  54, 165,  56, 191,  64, 163, 158,
    129, 243, 215, 251, 124, 227,  57, 130, 155,  47, 255, 135,
     52, 142,  67,  68, 196, 222, 233, 203,  84, 123, 148,  50,
    166, 194,  35,  61, 238,  76, 149,  11,  66, 250, 195,  78,
      8,  46, 161, 102,  40, 217,  36, 178, 118,  91, 162,  73,
    109, 139, 209,  37, 114, 248, 246, 100, 134, 104, 152,  22,
    212, 164,  92, 204,  93, 101, 182, 146, 108, 112,  72,  80,
    253, 237, 185, 218,  94,  21,  70,  87, 167, 141, 157, 132,
    144, 216, 171,   0, 140, 188, 211,  10, 247, 228,  88,   5,
    184, 179,  69,   6, 208,  44,  30, 143, 202,  63,  15,   2,
    193, 175, 189,   3,   1,  19, 138, 107,  58, 145,  17,  65,
     79, 103, 220, 234, 151, 242, 207, 206, 240, 180, 230, 115,
    150, 172, 116,  34, 231, 173,  53, 133, 226, 249,  55, 232,
     28, 117, 223, 110,  71, 241,  26, 113,  29,  41, 197, 137,
    111, 183,  98,  14, 170,  24, 190,  27, 252,  86,  62,  75,
    198, 210, 121,  32, 154, 219, 192, 254, 120, 205,  90, 244,
     31, 221, 168,  51, 136,   7, 199,  49, 177,  18,  16,  89,
     39, 128, 236,  95,  96,  81, 127, 169,  25, 181,  74,  13,
     45, 229, 122, 159, 147, 201, 156, 239, 160, 224,  59,  77,
    174,  42, 245, 176, 200, 235, 187,  60, 131,  83, 153,  97,
     23,  43,   4, 126, 186, 119, 214,  38, 225, 105,  20,  99,
     85,  33,  12, 125>>

AES_SBox  == [x \in Bytes |-> Bits(SBoxEntries[Number(x) + 1])]
AES_RSBox == [x \in Bytes |-> Bits(RSBoxEntries[Number(x) + 1])]

\* The first byte of the words AES_RCon[0..9]; the other three are zero.
RConEntries == <<1, 2, 4, 8, 16, 32, 64, 128, 27, 54>>
AES_RCon == [k \in 1..10 |-> Bits(RConEntries[k])]

\* (x << 1) ^ ((x >> 7) * 0x1b), cut to a byte.
xtime(x) ==
  XorByte({k + 1 : k \in x \ {7}}, IF 7 \in x THEN Bits(27) ELSE {})

\* The loop of gmul: after k rounds x has been doubled k times, and r is the
\* sum of those x whose bit of y was set.
GMul(x, y) ==
  LET after[k \in 0..8] ==
        IF k = 0 THEN [x |-> x, r |-> {}]
        ELSE LET b == after[k - 1]
             IN  [x |-> xtime(b.x),
                  r |-> IF k - 1 \in y THEN XorByte(b.r, b.x) ELSE b.r]
  IN  after[8].r

-----------------------------------------------------------------------------

\* The two substitution tables undo each other, so that InvSubBytes undoes
\* SubBytes for every byte.
ASSUME TablesInverse ==
  \A x \in Bytes : AES_RSBox[AES_SBox[x]] = x /\ AES_SBox[AES_RSBox[x]] = x

\* FIPS 197, 5.1.1: the entry of a byte is the affine image of its inverse
\* in the field, that of 0 being the image of 0.
Affine(b) ==
  XorByte(Bits(99), {k \in 0..7 :
    Cardinality({j \in {0, 4, 5, 6, 7} : (k + j) % 8 \in b}) % 2 = 1})

ASSUME SBoxIsStandard ==
  /\ AES_SBox[{}] = Affine({})
  /\ \A x \in Bytes \ {{}} :
       \E y \in Bytes : GMul(x, y) = {0} /\ AES_SBox[x] = Affine(y)

\* FIPS 197, 5.2: the round constants are the powers of x.
ASSUME RConIsStandard ==
  AES_RCon[1] = {0} /\ \A k \in 1..9 : AES_RCon[k + 1] = xtime(AES_RCon[k])
=============================================================================
