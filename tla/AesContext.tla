---------------------------- MODULE AesContext ----------------------------
(***************************************************************************)
(* The life of an AES_Context, aes/wcontext.c, and the key schedules of    *)
(* the two builds: the words of aes/generic/impl.c and the registers of    *)
(* aes/ni/context.c and aes/ni/impl.c.                                     *)
(*                                                                         *)
(* One program is run on either build: it makes the same calls on a        *)
(* context of its own, and each build expands the key at its own pace, the *)
(* generic one word by word, the AES-NI one register by register.          *)
(* AesCipher adds the block functions, which read the context.             *)
(***************************************************************************)
EXTENDS AesBytes

CONSTANTS
  SBox,      \* AES_SBox
  RCon,      \* RCon[k]: the byte in AES_RCon[k - 1]
  Keys,      \* the keys callers pass: nk words, 4 * nk bytes being key_len
  Junk,      \* the words malloc may leave in a context, and
  JunkRounds,  \*   the numbers of rounds
  MaxCalls   \* bound: the calls of AES_Context_Init

ASSUME SBoxType == SBox \in [Byte -> Byte]
ASSUME RConType == RCon \in [1..10 -> Byte]
ASSUME KeysType ==
  \A k \in Keys : k.nk \in Nat /\ k.word \in [0..k.nk - 1 -> Word]
ASSUME JunkType == Junk \subseteq Word

Builds == {"generic", "ni"}

VARIABLES
  key,   \* the argument of the last AES_Context_Init
  rndk,  \* rndk[b]: the 60 words of the context of build b
  rndn,  \* rndn[b]: its number of rounds
  i,     \* i[b]: the next word (generic), register or expansion (AES-NI)
  key1,  \* the two registers in which the AES-NI build keeps the last six
  key2,  \*   words of a schedule of 192 bits
  pc,    \* pc[b]: "none", "made", "load", "expand", "ready" or "aborted"
  calls  \* how often AES_Context_Init was called

contextVars == <<key, rndk, rndn, i, key1, key2, pc, calls>>

ContextInit ==
  /\ key \in Keys
  /\ rndk = [b \in Builds |-> [j \in 0..59 |-> ZeroWord]]
  /\ rndn = [b \in Builds |-> 0]
  /\ i = [b \in Builds |-> 0]
  /\ key1 = [d \in 0..3 |-> ZeroWord]
  /\ key2 = key1
  /\ pc = [b \in Builds |-> "none"]
  /\ calls = 0

Goto(b, place) == pc' = [pc EXCEPT ![b] = place]

\* The program is between two calls.
Between == pc["generic"] = pc["ni"] /\ pc["ni"] \in {"made", "ready"}

-----------------------------------------------------------------------------
(* Calls on the context, but for the expansion of the key.                 *)

\* malloc: the context starts with whatever is in its memory.
AES_Context_Create ==
  /\ \A b \in Builds : pc[b] = "none"
  /\ \E w \in Junk : rndk' = [b \in Builds |-> [j \in 0..59 |-> w]]
  /\ rndn' \in [Builds -> JunkRounds]
  /\ pc' = [b \in Builds |-> "made"]
  /\ UNCHANGED <<key, i, key1, key2, calls>>

Zeroed == [b \in Builds |-> [j \in 0..59 |-> ZeroWord]]

AES_Context_Flush ==
  /\ Between
  /\ rndk' = Zeroed
  /\ rndn' = [b \in Builds |-> 0]
  /\ pc' = [b \in Builds |-> "made"]
  /\ UNCHANGED <<key, i, key1, key2, calls>>

AES_Context_Destroy ==
  /\ Between
  /\ pc' = [b \in Builds |-> "none"]
  /\ UNCHANGED <<key, rndk, rndn, i, key1, key2, calls>>

\* The switch on key_len; ferroratf ends the process on any other length.
Switch(k) ==
  /\ Between
  /\ calls < MaxCalls
  /\ calls' = calls + 1
  /\ key' = k
  /\ i' = [b \in Builds |-> 0]
  /\ \/ /\ k.nk \in {4, 6, 8}
        /\ rndn' = [b \in Builds |->
                      CASE k.nk = 4 -> 10 [] k.nk = 6 -> 12 [] k.nk = 8 -> 14]
        /\ pc' = [b \in Builds |-> "load"]
     \/ /\ k.nk \notin {4, 6, 8}
        /\ pc' = [b \in Builds |-> "aborted"]
        /\ UNCHANGED rndn
  /\ UNCHANGED <<key1, key2>>

AES_Context_Init(k) == Switch(k) /\ UNCHANGED rndk
AES_Context_FlushInit(k) == Switch(k) /\ rndk' = Zeroed

-----------------------------------------------------------------------------
(* AES_KeyExpansion128, 192 and 256 of the generic build.                  *)

RotWord(w) == [j \in 0..3 |-> w[(j + 1) % 4]]
SubWord(w) == [j \in 0..3 |-> SBox[w[j]]]
AddRCon(w, c) == [w EXCEPT ![0] = Xor(@, c)]

\* The first loop: word i of the key.
GenericLoad ==
  /\ pc["generic"] = "load"
  /\ rndk' = [rndk EXCEPT !["generic"][i["generic"]] = key.word[i["generic"]]]
  /\ i' = [i EXCEPT !["generic"] = @ + 1]
  /\ Goto("generic", IF i["generic"] + 1 < key.nk THEN "load" ELSE "expand")
  /\ UNCHANGED <<key, rndn, key1, key2, calls>>

\* Mutant: 256-bit keys miss the extra substitution in the middle.
NextWord_NoMiddle(w, j, nk) ==
  LET temp == IF j % nk = 0
                THEN AddRCon(SubWord(RotWord(w[j - 1])), RCon[j \div nk])
                ELSE w[j - 1]
  IN  XorWords(w[j - nk], temp)

\* The body of the second loop; its else-branch is in AES_KeyExpansion256.
NextWord(w, j, nk) ==
  LET temp == CASE j % nk = 0 ->
                     AddRCon(SubWord(RotWord(w[j - 1])), RCon[j \div nk])
                [] nk = 8 /\ j % nk = 4 -> SubWord(w[j - 1])
                [] OTHER -> w[j - 1]
  IN  XorWords(w[j - nk], temp)

\* The words of a schedule: 44, 52 or 60.
Length(nk) == 4 * (nk + 7)

GenericExpand ==
  LET j == i["generic"] IN
  /\ pc["generic"] = "expand"
  /\ j < Length(key.nk)
  /\ rndk' = [rndk EXCEPT !["generic"][j] =
                            NextWord(rndk["generic"], j, key.nk)]
  /\ i' = [i EXCEPT !["generic"] = @ + 1]
  /\ UNCHANGED <<key, rndn, key1, key2, pc, calls>>

-----------------------------------------------------------------------------
(* AES-NI.  A register is four words, word 0 at the lowest address.  The   *)
(* instructions are external, by their definition in Intel's manual.       *)

slli4(x) == [d \in 0..3 |-> IF d = 0 THEN ZeroWord ELSE x[d - 1]]
srli12(x) == [d \in 0..3 |-> IF d = 0 THEN x[3] ELSE ZeroWord]
broadcast(x, d) == [e \in 0..3 |-> x[d]]
XorRegs(x, y) == [d \in 0..3 |-> XorWords(x[d], y[d])]
shuffle(x, y, a, b, c, d) == [e \in 0..3 |->
  CASE e = 0 -> x[a] [] e = 1 -> x[b] [] e = 2 -> y[c] [] e = 3 -> y[d]]

aeskeygenassist(x, c) == [d \in 0..3 |->
  CASE d = 0 -> SubWord(x[1])
    [] d = 1 -> AddRCon(RotWord(SubWord(x[1])), c)
    [] d = 2 -> SubWord(x[3])
    [] d = 3 -> AddRCon(RotWord(SubWord(x[3])), c)]

\* AESNI_KeyExpansion128, 256_1 and 256_2, which differ in the word of the
\* assist they take: x ^= x << 32, three times.
KeyExpansion(x, assist, d) ==
  LET once   == XorRegs(x, slli4(x))
      twice  == XorRegs(once, slli4(once))
      thrice == XorRegs(twice, slli4(twice))
  IN  XorRegs(thrice, broadcast(assist, d))

\* AESNI_KeyExpansion192 on *key1, and on *key2 given the new *key1.
Expanded1(x, assist) ==
  LET tmp1 == slli4(x)
      tmp2 == slli4(tmp1)
      tmp3 == slli4(tmp2)
  IN  XorRegs(XorRegs(XorRegs(XorRegs(x, tmp1), tmp2), tmp3),
              broadcast(assist, 1))

Expanded2(y, new1) ==
  XorRegs(XorRegs(y, slli4(y)), XorRegs(slli4(new1), srli12(y)))

\* Register k of a context, and the context with x stored in it.
Reg(w, k) == [d \in 0..3 |-> w[4 * k + d]]
Store(w, k, x) ==
  [j \in 0..59 |-> IF j \in 4 * k .. 4 * k + 3 THEN x[j - 4 * k] ELSE w[j]]

\* The 192-bit key fills one register and the lower half of the other.
NiLoad ==
  LET first  == [d \in 0..3 |-> key.word[d]]
      second == [d \in 0..3 |-> IF d + 4 < key.nk THEN key.word[d + 4]
                                                  ELSE ZeroWord]
      w      == Store(rndk["ni"], 0, first)
  IN
  /\ pc["ni"] = "load"
  /\ rndk' = [rndk EXCEPT !["ni"] = IF key.nk = 4 THEN w
                                                  ELSE Store(w, 1, second)]
  /\ i' = [i EXCEPT !["ni"] = IF key.nk = 8 THEN 2 ELSE 1]
  /\ key1' = first
  /\ key2' = second
  /\ Goto("ni", "expand")
  /\ UNCHANGED <<key, rndn, calls>>

NiExpand128 ==
  LET k    == i["ni"]
      last == Reg(rndk["ni"], k - 1)
  IN
  /\ pc["ni"] = "expand"
  /\ key.nk = 4
  /\ k <= 10
  /\ rndk' = [rndk EXCEPT !["ni"] = Store(@, k,
       KeyExpansion(last, aeskeygenassist(last, RCon[k]), 3))]
  /\ i' = [i EXCEPT !["ni"] = @ + 1]
  /\ UNCHANGED <<key, rndn, key1, key2, pc, calls>>

\* Mutant: every register is made by AESNI_KeyExpansion256_1.
NiNext256_OneKind(w, k) ==
  KeyExpansion(Reg(w, k - 2),
               aeskeygenassist(Reg(w, k - 1), RCon[k \div 2]), 3)

\* AESNI_KeyExpansion256_1 makes the even registers, 256_2 the odd ones.
NiNext256(w, k) ==
  IF k % 2 = 0
    THEN KeyExpansion(Reg(w, k - 2),
                      aeskeygenassist(Reg(w, k - 1), RCon[k \div 2]), 3)
    ELSE KeyExpansion(Reg(w, k - 2), aeskeygenassist(Reg(w, k - 1), {}), 2)

NiExpand256 ==
  LET k == i["ni"] IN
  /\ pc["ni"] = "expand"
  /\ key.nk = 8
  /\ k <= 14
  /\ rndk' = [rndk EXCEPT !["ni"] = Store(@, k, NiNext256(@, k))]
  /\ i' = [i EXCEPT !["ni"] = @ + 1]
  /\ UNCHANGED <<key, rndn, key1, key2, pc, calls>>

\* Two expansions of six words make three registers: the odd expansion
\* completes register 3h - 2 and makes 3h - 1, the even one makes 3h and the
\* lower half of 3h + 1.
NiExpand192 ==
  LET e  == i["ni"]
      h  == (e + 1) \div 2
      w  == rndk["ni"]
      x1 == Expanded1(key1, aeskeygenassist(key2, RCon[e]))
      x2 == Expanded2(key2, x1)
  IN
  /\ pc["ni"] = "expand"
  /\ key.nk = 6
  /\ e <= 8
  /\ key1' = x1
  /\ key2' = x2
  /\ rndk' = [rndk EXCEPT !["ni"] =
       CASE e % 2 = 1 ->
              Store(Store(w, 3 * h - 2,
                          shuffle(Reg(w, 3 * h - 2), x1, 1, 1, 0, 1)),
                    3 * h - 1, shuffle(x1, x2, 2, 3, 0, 1))
         [] e % 2 = 0 /\ e < 8 -> Store(Store(w, 3 * h, x1), 3 * h + 1, x2)
         [] e = 8 -> Store(w, 12, x1)]
  /\ i' = [i EXCEPT !["ni"] = @ + 1]
  /\ UNCHANGED <<key, rndn, pc, calls>>

-----------------------------------------------------------------------------

\* The steps after which a build returns.
End(b) ==
  IF b = "generic" THEN Length(key.nk)
  ELSE CASE key.nk = 4 -> 11 [] key.nk = 6 -> 9 [] key.nk = 8 -> 15

\* The registers of the caller of AESNI_KeyExpansion192 are gone with it.
Return(b) ==
  /\ pc[b] = "expand"
  /\ i[b] = End(b)
  /\ Goto(b, "ready")
  /\ IF b = "ni" THEN /\ key1' = [d \in 0..3 |-> ZeroWord]
                     /\ key2' = key1'
                ELSE UNCHANGED <<key1, key2>>
  /\ UNCHANGED <<key, rndk, rndn, i, calls>>

ContextNext ==
  \/ AES_Context_Create \/ AES_Context_Flush \/ AES_Context_Destroy
  \/ \E k \in Keys : AES_Context_Init(k) \/ AES_Context_FlushInit(k)
  \/ GenericLoad \/ GenericExpand
  \/ NiLoad \/ NiExpand128 \/ NiExpand192 \/ NiExpand256
  \/ \E b \in Builds : Return(b)

-----------------------------------------------------------------------------
(* Properties.                                                             *)

\* FIPS 197, figure 11: word j of the schedule w of the key k.
Standard(w, j, k) ==
  LET nk == k.nk IN
  IF j < nk THEN k.word[j]
  ELSE XorWords(w[j - nk],
         CASE j % nk = 0 ->
                AddRCon(SubWord(RotWord(w[j - 1])), RCon[j \div nk])
           [] nk > 6 /\ j % nk = 4 -> SubWord(w[j - 1])
           [] OTHER -> w[j - 1])

\* The words a block function will read, those of rounds 0 to rndn, are the
\* ones the standard derives from the key of the last AES_Context_Init.
IsSchedule(b) ==
  /\ rndn[b] = key.nk + 6
  /\ \A j \in 0..4 * rndn[b] + 3 : rndk[b][j] = Standard(rndk[b], j, key)

\* When AES_Context_Init has returned, the context holds the schedule of the
\* standard for the key of that call: whatever key, of whatever length, the
\* context had before, however far its words reached, and whatever malloc left
\* in its memory.  What the AES-NI build makes of 192 bits is another
\* schedule and exempt here.
FollowsStandard ==
  \A b \in Builds :
    pc[b] = "ready" /\ (b = "generic" \/ key.nk # 6) => IsSchedule(b)
=============================================================================
