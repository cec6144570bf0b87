---------------------------- MODULE AesCtrProofs ----------------------------
(***************************************************************************)
(* Proofs about counter mode, for every size of blocks and bytes, every    *)
(* cipher, message and way to cut it into calls.                           *)
(***************************************************************************)
EXTENDS AesCtr, FunctionTheorems, SequenceTheorems, FiniteSetTheorems,
        WellFoundedInduction, TLAPS

-----------------------------------------------------------------------------
(* Counters as numbers.                                                    *)

Period == Cardinality(Counter)

\* f numbers the counters in the order in which Increment goes round.
Numbers(f) ==
  /\ f \in [Counter -> 0..Period - 1]
  /\ \A c, d \in Counter : f[c] = f[d] => c = d
  /\ \A c \in Counter : f[Increment(c)] = (f[c] + 1) % Period

Number == CHOOSE f \in [Counter -> 0..Period - 1] : Numbers(f)

\* d comes at least one and at most k steps of Increment after c.
Ahead(c, d, k) ==
  \E s \in 1..k : Number[d] = (Number[c] + s) % Period

-----------------------------------------------------------------------------
(* The inductive invariant.                                                *)

Use == [by : Roles, call : Nat \ {0}, from : Nat, to : Nat, value : Counter]

TypeInv ==
  /\ impl \in [Roles -> {"generic", "ni"}] /\ shared \in BOOLEAN
  /\ plain \in Seq(Byte) /\ nonce0 \in Counter
  /\ text \in [Roles -> Seq(Byte)]
  /\ nonce \in [Roles -> Counter] /\ counter \in [Roles -> Counter]
  /\ packets \in Seq(Nat)
  /\ count \in [Roles -> Nat] /\ base \in [Roles -> Nat]
  /\ len \in [Roles -> Nat] /\ i \in [Roles -> Nat]
  /\ pc \in [Roles -> {"idle", "loop"}]
  /\ used \in [Roles -> Seq(Use)] /\ begun \in [Roles -> Seq(Counter)]

\* Where call n + 1 starts in the message, and where call n of r ends.
Start(n) == IF n = 0 THEN 0 ELSE packets[n]
End(r, n) == IF n <= Len(packets) THEN packets[n] ELSE base[r] + len[r]

\* How far r is: the text has what its calls have handled so far.
PlaceOf(r) ==
  /\ base[r] = Start(count[r])
  /\ pc[r] = "idle" => /\ Len(text[r]) = base[r]
                       /\ Len(begun[r]) = count[r]
  /\ pc[r] = "loop" => /\ Len(text[r]) = base[r] + i[r]
                       /\ Len(begun[r]) = count[r] + 1
                       /\ i[r] <= len[r] /\ len[r] > 0
                       /\ base[r] + len[r] <= Len(plain)

\* Decryption stays behind encryption, one call at a time on a shared nonce.
PlaceInv ==
  /\ \A r \in Roles : PlaceOf(r)
  /\ shared => \E r \in Roles : pc[r] = "idle"
  /\ Len(packets) = count["encrypt"] /\ count["decrypt"] <= count["encrypt"]
  /\ \A m, n \in 1..Len(packets) : m <= n => packets[m] <= packets[n]
  /\ base["encrypt"] <= Len(plain)
  /\ pc["decrypt"] = "loop" =>
       /\ count["decrypt"] < count["encrypt"]
       /\ base["decrypt"] + len["decrypt"] = packets[count["decrypt"] + 1]

\* A block of keystream is as long as the call allows, and its bytes are in
\* the text.
BlockOk(r, u) ==
  /\ u.call <= Len(begun[r])
  /\ u.from < u.to /\ u.to <= Len(text[r])
  /\ u.to = IF u.from + BlockSize < End(r, u.call) THEN u.from + BlockSize
                                                   ELSE End(r, u.call)
  /\ \A p \in u.from + 1..u.to :
       text[r][p] = XorByte(Input(r)[p], KeyStream(u.value)[p - u.from - 1])

Covered(r, p) == \E u \in Made(r) : p \in u.from + 1..u.to

BlocksInv ==
  \A r \in Roles :
    /\ \A u \in Made(r) : BlockOk(r, u)
    /\ \A p \in 1..Len(text[r]) : Covered(r, p)

\* Encryption made a block for call n from byte p on, with counter c.
MadeFor(n, p, c) ==
  \E v \in Made("encrypt") : v.call = n /\ v.from = p /\ v.value = c

\* The nonce from which call n + 1 of encryption started or will start.
NonceAfter(n) ==
  IF n < Len(begun["encrypt"]) THEN begun["encrypt"][n + 1]
                               ELSE nonce[Nonce("encrypt")]

\* The block after u has the next counter, if it is in the same call, or if
\* encryption leaves its counter in a nonce of its own.
NextOk(u) ==
  /\ u.call <= count["encrypt"] =>
       \/ MadeFor(u.call, u.to, Increment(u.value))
       \/ /\ u.to = packets[u.call]
          /\ ~shared /\ impl["encrypt"] = "ni" =>
               NonceAfter(u.call) = Increment(u.value)
  /\ u.call = count["encrypt"] + 1 =>
       \/ MadeFor(u.call, u.to, Increment(u.value))
       \/ /\ u.to = Len(text["encrypt"])
          /\ counter["encrypt"] = Increment(u.value)

\* The first block of a call has the nonce the call started from.
FirstOk(n) == MadeFor(n, Start(n - 1), begun["encrypt"][n])

EncryptInv ==
  /\ \A u \in Made("encrypt") : NextOk(u)
  /\ \A u, v \in Made("encrypt") : u.from <= v.from /\ v.from < u.to => u = v
  /\ \A n \in 1..count["encrypt"] : FirstOk(n)
  /\ pc["encrypt"] = "loop" =>
       IF i["encrypt"] = 0
         THEN counter["encrypt"] = begun["encrypt"][count["encrypt"] + 1]
         ELSE FirstOk(count["encrypt"] + 1)

\* The generic build leaves all nonces as they are.
GenericInv ==
  (\A r \in Roles : impl[r] = "generic") =>
    \A r \in Roles : /\ nonce[r] = nonce0
                     /\ \A n \in 1..Len(begun[r]) : begun[r][n] = nonce0

\* The same keystream for the same bytes of a call.
Same(u, v) ==
  u.call = v.call /\ u.from = v.from /\ u.to = v.to /\ u.value = v.value

Decrypted(v) == \E u \in Made("decrypt") : Same(u, v)
Encrypted(u) == \E v \in Made("encrypt") : Same(u, v)

\* Decryption makes the keystream of encryption once more, up to where it is.
DecryptInv ==
  /\ \A u \in Made("decrypt") : SameStart(u.call) => Encrypted(u)
  /\ \A v \in Made("encrypt") :
       SameStart(v.call) /\ v.from < Len(text["decrypt"]) => Decrypted(v)
  /\ SameStart(count["decrypt"] + 1) =>
       /\ pc["decrypt"] = "idle" =>
            nonce[Nonce("decrypt")] = NonceAfter(count["decrypt"])
       /\ pc["decrypt"] = "loop" =>
            IF i["decrypt"] < len["decrypt"]
              THEN MadeFor(count["decrypt"] + 1, Len(text["decrypt"]),
                           counter["decrypt"])
              ELSE ~shared /\ (\A r \in Roles : impl[r] = "ni") =>
                     counter["decrypt"] = NonceAfter(count["decrypt"] + 1)

\* The call of x has returned, and has left its counter in the nonce array.
Left(x) == impl[x.by] = "ni" /\ x.call <= count[x.by]

InCall(x, r) == x.by = r /\ x.call = count[r] + 1

\* The counters still to come are ahead of those that were enciphered, as far
\* as they follow from them.
FreshFrom(n, a) ==
  LET x == used[n][a] IN
  /\ Nonce(x.by) = n /\ x.call <= Len(begun[x.by])
  /\ \A b \in a + 1..Len(used[n]) :
       impl[x.by] = "ni" \/ (x.by = used[n][b].by /\ x.call = used[n][b].call)
         => Ahead(x.value, used[n][b].value, b - a)
  /\ Left(x) => Ahead(x.value, nonce[n], Len(used[n]) + 1 - a)
  /\ \A r \in Roles :
       Nonce(r) = n /\ pc[r] = "loop" /\ (Left(x) \/ InCall(x, r))
         => Ahead(x.value, counter[r], Len(used[n]) + 1 - a)

FreshInv == \A n \in Roles : \A a \in 1..Len(used[n]) : FreshFrom(n, a)

IInv ==
  /\ TypeInv /\ PlaceInv /\ BlocksInv /\ EncryptInv /\ GenericInv
  /\ DecryptInv /\ FreshInv

-----------------------------------------------------------------------------
(* Increment goes round all counters.                                      *)

\* Multiplication keeps order.
LEMMA TimesMonotone ==
  ASSUME NEW a \in Int, NEW b \in Int, NEW p \in Nat, a <= b
  PROVE  a * p <= b * p
<1> DEFINE d == b - a
<1>1. d \in Nat /\ b = a + d
  OBVIOUS
<1>2. b * p = a * p + d * p
  BY <1>1
<1>3. d * p >= 0
  BY <1>1
<1>4. QED BY <1>2, <1>3, <1>1

\* A number below b * p is a digit below b and a rest below p.
LEMMA DigitRange ==
  ASSUME NEW b \in Nat \ {0}, NEW p \in Nat \ {0},
         NEW x \in 0..b - 1, NEW y \in 0..p - 1
  PROVE  /\ x * p + y \in 0..b * p - 1
         /\ x * p \in Nat /\ b * p \in Nat \ {0}
<1>1. x * p \in Nat /\ (x + 1) * p = x * p + p
  OBVIOUS
<1>2. (x + 1) * p <= b * p
  BY TimesMonotone
<1>3. QED BY <1>1, <1>2

\* There is one such digit and rest.
LEMMA DigitUnique ==
  ASSUME NEW p \in Nat \ {0}, NEW x \in Nat, NEW y \in 0..p - 1,
         NEW v \in Nat, NEW w \in 0..p - 1, x * p + y = v * p + w
  PROVE  x = v /\ y = w
<1>1. /\ x * p \in Nat /\ (x + 1) * p = x * p + p
      /\ v * p \in Nat /\ (v + 1) * p = v * p + p
  OBVIOUS
<1>2. CASE x < v
  <2>1. (x + 1) * p <= v * p
    BY <1>2, TimesMonotone
  <2>2. QED BY <1>1, <2>1
<1>3. CASE v < x
  <2>1. (v + 1) * p <= x * p
    BY <1>3, TimesMonotone
  <2>2. QED BY <1>1, <2>1
<1>4. CASE x = v
  BY <1>1, <1>4
<1>5. QED BY <1>2, <1>3, <1>4

\* Every number below b * p has them.
LEMMA DigitExists ==
  ASSUME NEW b \in Nat \ {0}, NEW p \in Nat \ {0}, NEW n \in 0..b * p - 1
  PROVE  \E x \in 0..b - 1, y \in 0..p - 1 : n = x * p + y
<1> DEFINE x == n \div p
           y == n % p
<1>0. b * p \in Nat /\ n \in Nat
  OBVIOUS
<1>1. x \in Nat /\ y \in 0..p - 1 /\ n = x * p + y
  BY <1>0
<1> HIDE DEF x, y
<1>2. ~(b <= x)
  <2>1. SUFFICES ASSUME b <= x PROVE FALSE
    OBVIOUS
  <2>2. b * p <= x * p
    BY <1>1, <2>1, TimesMonotone
  <2>3. x * p \in Nat
    BY <1>1
  <2>4. QED BY <1>0, <1>1, <2>2, <2>3
<1>3. QED BY <1>1, <1>2

\* Counting on carries into the digit where the rest is at its end.
LEMMA DigitNext ==
  ASSUME NEW b \in Nat \ {0}, NEW p \in Nat \ {0},
         NEW x \in 0..b - 1, NEW y \in 0..p - 1
  PROVE  (x * p + y + 1) % (b * p) =
           (IF y = p - 1 THEN (x + 1) % b ELSE x) * p + ((y + 1) % p)
<1>1. /\ x * p + y \in 0..b * p - 1
      /\ x * p \in Nat /\ b * p \in Nat \ {0}
      /\ (x + 1) * p = x * p + p
  BY DigitRange
<1>2. CASE y # p - 1
  <2>1. (y + 1) % p = y + 1
    BY <1>2
  <2>2. x * p + (y + 1) \in 0..b * p - 1
    BY <1>2, DigitRange
  <2>3. (x * p + y + 1) % (b * p) = x * p + y + 1
    BY <1>1, <2>2
  <2>4. QED BY <1>1, <1>2, <2>1, <2>3
<1>3. CASE y = p - 1 /\ x # b - 1
  <2>1. (y + 1) % p = 0 /\ (x + 1) % b = x + 1
    BY <1>3
  <2>2. (x + 1) * p + 0 \in 0..b * p - 1
    BY <1>3, DigitRange
  <2>3. (x * p + y + 1) % (b * p) = (x + 1) * p
    BY <1>1, <1>3, <2>2
  <2>4. QED BY <1>1, <1>3, <2>1, <2>3
<1>4. CASE y = p - 1 /\ x = b - 1
  <2>1. (y + 1) % p = 0 /\ (x + 1) % b = 0
    BY <1>4
  <2>2. x * p + y + 1 = b * p
    <3>1. x + 1 = b
      BY <1>4
    <3>2. (x + 1) * p = b * p
      BY <3>1
    <3>3. QED BY <1>1, <1>4, <3>2
  <2>3. (b * p) % (b * p) = 0
    BY <1>1
  <2>4. 0 * p + 0 = 0
    OBVIOUS
  <2>5. QED BY <1>4, <2>1, <2>2, <2>3, <2>4
<1>5. QED BY <1>2, <1>3, <1>4

\* Counting on, the rest goes on.
LEMMA RestNext ==
  ASSUME NEW p \in Nat \ {0}, NEW n \in Nat
  PROVE  ((n % p) + 1) % p = (n + 1) % p
<1> DEFINE x == n \div p
           y == n % p
           v == (n + 1) \div p
           w == (n + 1) % p
<1>1. /\ x \in Nat /\ y \in 0..p - 1 /\ n = x * p + y
      /\ v \in Nat /\ w \in 0..p - 1 /\ n + 1 = v * p + w
  OBVIOUS
<1> HIDE DEF x, y, v, w
<1>2. x * p \in Nat /\ (x + 1) * p = x * p + p
  BY <1>1
<1>3. CASE y = p - 1
  <2>1. (x + 1) * p + 0 = v * p + w
    BY <1>1, <1>2, <1>3
  <2>2. w = 0
    BY <1>1, <2>1, DigitUnique
  <2>3. (y + 1) % p = 0
    BY <1>3
  <2>4. QED BY <2>2, <2>3 DEF y, w
<1>4. CASE y # p - 1
  <2>1. x * p + (y + 1) = v * p + w /\ y + 1 \in 0..p - 1
    BY <1>1, <1>2, <1>4
  <2>2. w = y + 1
    BY <1>1, <2>1, DigitUnique
  <2>3. (y + 1) % p = y + 1
    BY <2>1
  <2>4. QED BY <2>2, <2>3 DEF y, w
<1>5. QED BY <1>3, <1>4

\* The last m places of a counter, and Increment on them.
Low(m) == BlockSize - m..BlockSize - 1
Lows(m) == [Low(m) -> Byte]
Carried(m, c) ==
  [j \in Low(m) |->
     IF \A k \in Low(m) : k > j => c[k] = ByteMod - 1
       THEN (c[j] + 1) % ByteMod ELSE c[j]]
Last(m) == [j \in Low(m) |-> ByteMod - 1]
Rest(m, c) == [j \in Low(m) |-> c[j]]

\* f numbers the last m places from 0 to p - 1, p - 1 being the last.
NumbersLow(m, p, f) ==
  /\ f \in [Lows(m) -> 0..p - 1]
  /\ \A c, d \in Lows(m) : f[c] = f[d] => c = d
  /\ \A v \in 0..p - 1 : \E c \in Lows(m) : f[c] = v
  /\ f[Last(m)] = p - 1
  /\ \A c \in Lows(m) : f[Carried(m, c)] = (f[c] + 1) % p

CanNumber(m) == \E p \in Nat \ {0} : \E f : NumbersLow(m, p, f)

\* No places have one value.
LEMMA NumberNone == CanNumber(0)
<1> DEFINE f == [c \in Lows(0) |-> 0]
<1>1. BlockSize \in Nat \ {0}
  BY CtrAssumption
<1>2. Low(0) = {}
  BY <1>1 DEF Low
<1>3. \A c, d \in Lows(0) : c = d
  BY <1>2 DEF Lows
<1>4. \A c : Last(0) \in Lows(0) /\ Carried(0, c) \in Lows(0)
  BY <1>2 DEF Lows, Last, Carried
<1>5. f \in [Lows(0) -> 0..0] /\ \A c \in Lows(0) : f[c] = 0
  OBVIOUS
<1> HIDE DEF f
<1>6. NumbersLow(0, 1, f)
  BY <1>3, <1>4, <1>5 DEF NumbersLow
<1>7. QED BY <1>6 DEF CanNumber

\* The places of m + 1 are those of m and one before them.
LEMMA LowNext ==
  ASSUME NEW m \in Nat, m < BlockSize
  PROVE  LET h == BlockSize - m - 1 IN
         /\ h \in Low(m + 1) /\ h \notin Low(m)
         /\ Low(m + 1) = Low(m) \cup {h} /\ \A k \in Low(m) : k > h
         /\ \A k \in Low(m) : k \in Int
BY CtrAssumption DEF Low

\* Only the last value carries out of its first place.
LEMMA CarriedRest ==
  ASSUME NEW m \in Nat, m < BlockSize, NEW c \in Lows(m + 1)
  PROVE  LET h == BlockSize - m - 1 IN
         /\ Rest(m, c) \in Lows(m) /\ c[h] \in Byte
         /\ Carried(m + 1, c) \in Lows(m + 1)
         /\ Rest(m, Carried(m + 1, c)) = Carried(m, Rest(m, c))
         /\ Carried(m + 1, c)[h] =
              IF Rest(m, c) = Last(m) THEN (c[h] + 1) % ByteMod ELSE c[h]
<1> DEFINE h == BlockSize - m - 1
<1>1. /\ h \in Low(m + 1) /\ h \notin Low(m)
      /\ Low(m + 1) = Low(m) \cup {h} /\ \A k \in Low(m) : k > h
      /\ \A k \in Low(m) : k \in Int
  BY LowNext
<1>2. /\ c \in [Low(m + 1) -> Byte] /\ h \in Int
      /\ \A b \in Byte : (b + 1) % ByteMod \in Byte
  <2>1. ByteMod \in Nat \ {0} /\ BlockSize \in Nat
    BY CtrAssumption
  <2>2. \A b \in Byte : (b + 1) % ByteMod \in Byte
    BY <2>1 DEF Byte
  <2>3. QED BY <2>1, <2>2 DEF Lows
<1> HIDE DEF h
<1>3. Rest(m, c) \in Lows(m) /\ c[h] \in Byte
  BY <1>1, <1>2 DEF Rest, Lows
<1>4. Carried(m + 1, c) \in Lows(m + 1)
  BY <1>1, <1>2 DEF Carried, Lows
<1>5. ASSUME NEW j \in Low(m)
      PROVE  Carried(m + 1, c)[j] = Carried(m, Rest(m, c))[j]
  <2>1. (\A k \in Low(m + 1) : k > j => c[k] = ByteMod - 1) <=>
        (\A k \in Low(m) : k > j => Rest(m, c)[k] = ByteMod - 1)
    BY <1>1, <1>2, <1>5 DEF Rest
  <2>2. Rest(m, c)[j] = c[j] /\ j \in Low(m + 1)
    BY <1>1, <1>5 DEF Rest
  <2>3. QED BY <2>1, <2>2 DEF Carried
<1>6. Rest(m, Carried(m + 1, c)) = Carried(m, Rest(m, c))
  BY <1>5 DEF Rest, Carried
<1>7. Rest(m, c) = Last(m) <=> \A k \in Low(m) : c[k] = ByteMod - 1
  BY DEF Rest, Last
<1>8. (\A k \in Low(m + 1) : k > h => c[k] = ByteMod - 1) <=>
      (\A k \in Low(m) : c[k] = ByteMod - 1)
  BY <1>1, <1>2
<1>9. Carried(m + 1, c)[h] =
        IF Rest(m, c) = Last(m) THEN (c[h] + 1) % ByteMod ELSE c[h]
  BY <1>1, <1>7, <1>8 DEF Carried
<1>10. QED BY <1>3, <1>4, <1>6, <1>9 DEF h

\* One place more.
LEMMA NumberNext ==
  ASSUME NEW m \in Nat, m < BlockSize, CanNumber(m)
  PROVE  CanNumber(m + 1)
<1> DEFINE h == BlockSize - m - 1
<1>0. PICK p \in Nat \ {0} : \E f : NumbersLow(m, p, f)
  BY DEF CanNumber
<1>1. PICK f : NumbersLow(m, p, f)
  BY <1>0
<1> DEFINE q == ByteMod * p
           g == [c \in Lows(m + 1) |-> c[h] * p + f[Rest(m, c)]]
<1>2. /\ h \in Low(m + 1) /\ h \notin Low(m)
      /\ Low(m + 1) = Low(m) \cup {h}
  BY LowNext
<1>3. ByteMod \in Nat \ {0} /\ Byte = 0..ByteMod - 1
  BY CtrAssumption DEF Byte
<1>4. \A c \in Lows(m + 1) :
        /\ Rest(m, c) \in Lows(m) /\ c[h] \in 0..ByteMod - 1
        /\ f[Rest(m, c)] \in 0..p - 1
        /\ g[c] = c[h] * p + f[Rest(m, c)]
  BY <1>1, <1>3, CarriedRest DEF NumbersLow
<1>5. q \in Nat \ {0} /\ \A c \in Lows(m + 1) : g[c] \in 0..q - 1
  <2>1. q \in Nat \ {0}
    BY <1>3, DigitRange
  <2>2. ASSUME NEW c \in Lows(m + 1)
        PROVE  g[c] \in 0..q - 1
    BY <1>3, <1>4, DigitRange
  <2>3. QED BY <2>1, <2>2
<1>6. g \in [Lows(m + 1) -> 0..q - 1]
  BY <1>5
<1>7. ASSUME NEW c \in Lows(m + 1), NEW d \in Lows(m + 1), g[c] = g[d]
      PROVE  c = d
  <2>1. c[h] = d[h] /\ f[Rest(m, c)] = f[Rest(m, d)]
    BY <1>4, <1>7, DigitUnique, SMTT(30)
  <2>2. Rest(m, c) = Rest(m, d)
    BY <1>1, <1>4, <2>1 DEF NumbersLow
  <2>3. \A j \in Low(m) : Rest(m, c)[j] = c[j] /\ Rest(m, d)[j] = d[j]
    BY DEF Rest
  <2>4. \A j \in Low(m + 1) : c[j] = d[j]
    BY <1>2, <2>1, <2>2, <2>3
  <2>5. QED BY <2>4 DEF Lows
<1>8. ASSUME NEW v \in 0..q - 1
      PROVE  \E c \in Lows(m + 1) : g[c] = v
  <2>1. PICK x \in 0..ByteMod - 1, y \in 0..p - 1 : v = x * p + y
    BY <1>3, DigitExists
  <2>2. PICK e \in Lows(m) : f[e] = y
    BY <1>1 DEF NumbersLow
  <2> DEFINE c == [j \in Low(m + 1) |-> IF j = h THEN x ELSE e[j]]
  <2>3. e \in [Low(m) -> Byte]
    BY DEF Lows
  <2>4. c \in Lows(m + 1) /\ c[h] = x
    BY <1>2, <1>3, <2>3 DEF Lows
  <2>5. Rest(m, c) = e
    BY <1>2, <2>3 DEF Rest
  <2>6. g[c] = v
    BY <1>4, <2>1, <2>2, <2>4, <2>5
  <2>7. QED BY <2>4, <2>6
<1>9. /\ Last(m + 1) \in Lows(m + 1)
      /\ Last(m + 1)[h] = ByteMod - 1 /\ Rest(m, Last(m + 1)) = Last(m)
  BY <1>2, <1>3 DEF Last, Lows, Rest
<1>10. g[Last(m + 1)] = q - 1
  <2>1. g[Last(m + 1)] = (ByteMod - 1) * p + (p - 1)
    BY <1>1, <1>4, <1>9 DEF NumbersLow
  <2>2. (ByteMod - 1) * p = ByteMod * p - p /\ ByteMod * p \in Nat
    BY <1>3
  <2>3. QED BY <2>1, <2>2
<1>11. ASSUME NEW c \in Lows(m + 1)
       PROVE  g[Carried(m + 1, c)] = (g[c] + 1) % q
  <2> DEFINE d == Carried(m + 1, c)
             y == f[Rest(m, c)]
  <2>1. /\ d \in Lows(m + 1)
        /\ Rest(m, d) = Carried(m, Rest(m, c))
        /\ d[h] = IF Rest(m, c) = Last(m) THEN (c[h] + 1) % ByteMod
                                          ELSE c[h]
    BY CarriedRest
  <2>2. /\ y \in 0..p - 1 /\ Rest(m, c) \in Lows(m)
        /\ c[h] \in 0..ByteMod - 1
    BY <1>4
  <2>3. Rest(m, c) = Last(m) <=> y = p - 1
    <3>1. Last(m) \in Lows(m)
      BY <1>3 DEF Last, Lows
    <3>2. QED BY <1>1, <2>2, <3>1 DEF NumbersLow
  <2>4. f[Rest(m, d)] = (y + 1) % p
    BY <1>1, <2>1, <2>2 DEF NumbersLow
  <2>5. g[d] = d[h] * p + f[Rest(m, d)] /\ g[c] = c[h] * p + y
    BY <1>4, <2>1
  <2> HIDE DEF d, y, g
  <2>6. (c[h] * p + y + 1) % q =
          (IF y = p - 1 THEN (c[h] + 1) % ByteMod ELSE c[h]) * p
            + ((y + 1) % p)
    BY <1>3, <2>2, DigitNext
  <2>7. g[d] = (g[c] + 1) % q
    BY <2>1, <2>3, <2>4, <2>5, <2>6
  <2>8. QED BY <2>7 DEF d
<1> HIDE DEF g, q
<1>12. NumbersLow(m + 1, q, g)
  BY <1>6, <1>7, <1>8, <1>10, <1>11 DEF NumbersLow
<1>13. QED BY <1>5, <1>12 DEF CanNumber

\* A set of numbers has a least one.
LEMMA Least ==
  ASSUME NEW T, T \subseteq Nat, T # {}
  PROVE  \E x \in T : \A y \in T : x <= y
<1> DEFINE R == OpToRel(<, Nat)
<1>1. \A x, y \in Nat : y < x => <<y, x>> \in R
  BY DEF OpToRel
<1>2. IsWellFoundedOn(R, Nat)
  BY NatLessThanWellFounded
<1> HIDE DEF R
<1>3. PICK x \in T : \A y \in T : ~(<<y, x>> \in R)
  BY <1>2, WFMin
<1>4. ASSUME NEW y \in T
      PROVE  x <= y
  <2>1. x \in Nat /\ y \in Nat
    OBVIOUS
  <2>2. ~(y < x)
    BY <1>1, <1>3, <2>1
  <2>3. QED BY <2>1, <2>2
<1>5. QED BY <1>3, <1>4

\* All places can be numbered: otherwise there would be a least number of
\* places that can not.
LEMMA NumberAll == CanNumber(BlockSize)
<1> DEFINE T == {m \in 0..BlockSize : ~CanNumber(m)}
<1>1. BlockSize \in Nat \ {0}
  BY CtrAssumption
<1>2. ASSUME T # {} PROVE FALSE
  <2>0. T \subseteq Nat
    BY <1>1
  <2>1. PICK m \in T : \A k \in T : m <= k
    <3> HIDE DEF T
    <3>1. QED BY <2>0, <1>2, Least
  <2>2. m \in 0..BlockSize /\ ~CanNumber(m) /\ m # 0
    BY NumberNone
  <2>3. m - 1 \in Nat /\ m - 1 < BlockSize /\ m - 1 \in 0..BlockSize
    BY <1>1, <2>2
  <2>4. CanNumber(m - 1)
    BY <1>1, <2>1, <2>2, <2>3
  <2>5. CanNumber(m - 1 + 1)
    BY <2>3, <2>4, NumberNext
  <2>6. QED BY <1>1, <2>2, <2>5
<1>3. QED BY <1>1, <1>2

\* There are finitely many counters, and Number counts them.
LEMMA NumberExists ==
  /\ Period \in Nat \ {0} /\ Numbers(Number)
  /\ \A c \in Counter : Increment(c) \in Counter
<1>1. BlockSize \in Nat \ {0} /\ ByteMod \in Nat \ {0}
  BY CtrAssumption
<1>2. Low(BlockSize) = Indices /\ Lows(BlockSize) = Counter
  BY <1>1 DEF Low, Lows, Indices, Counter
<1>3. \A c \in Counter : Carried(BlockSize, c) = Increment(c)
  BY <1>2 DEF Carried, Increment
<1>0. PICK p \in Nat \ {0} : \E f : NumbersLow(BlockSize, p, f)
  BY NumberAll DEF CanNumber
<1>4. PICK f : NumbersLow(BlockSize, p, f)
  BY <1>0
<1>5. f \in Bijection(Counter, 0..p - 1)
  BY <1>2, <1>4 DEF NumbersLow, Bijection, Injection, Surjection, IsInjective
<1>6. IsFiniteSet(0..p - 1) /\ Cardinality(0..p - 1) = p
  BY FS_Interval
<1>7. Period = p
  <2>1. ExistsBijection(Counter, 0..p - 1)
    BY <1>5 DEF ExistsBijection
  <2>2. ExistsBijection(0..p - 1, Counter)
    BY <2>1, Fun_ExistsBijSymmetric
  <2>3. IsFiniteSet(Counter) /\ Cardinality(Counter) = p
    BY <1>6, <2>1, <2>2, FS_Bijection
  <2>4. QED BY <2>3 DEF Period
<1>8. Numbers(f)
  BY <1>2, <1>3, <1>4, <1>7 DEF NumbersLow, Numbers
<1>9. Numbers(Number)
  <2>1. f \in [Counter -> 0..Period - 1]
    BY <1>8 DEF Numbers
  <2>2. QED BY <1>8, <2>1 DEF Number
<1>10. \A c \in Counter : Increment(c) \in Counter
  BY <1>1 DEF Counter, Increment, Byte
<1>11. QED BY <1>7, <1>9, <1>10

\* The next counter is one ahead.
LEMMA AheadNext ==
  ASSUME NEW c \in Counter
  PROVE  Ahead(c, Increment(c), 1)
BY NumberExists DEF Numbers, Ahead

\* What is ahead stays ahead, a step farther.
LEMMA AheadStep ==
  ASSUME NEW c \in Counter, NEW d \in Counter, NEW k \in Nat, Ahead(c, d, k)
  PROVE  Ahead(c, Increment(d), k + 1)
<1>1. PICK s \in 1..k : Number[d] = (Number[c] + s) % Period
  BY DEF Ahead
<1>2. /\ Period \in Nat \ {0} /\ Number[c] \in Nat
      /\ Number[Increment(d)] = (Number[d] + 1) % Period
  BY NumberExists DEF Numbers
<1> DEFINE n == Number[c] + s
<1>3. n \in Nat
  BY <1>2
<1> HIDE DEF n
<1>4. ((n % Period) + 1) % Period = (n + 1) % Period
  BY <1>2, <1>3, RestNext
<1>5. s + 1 \in 1..k + 1 /\ n + 1 = Number[c] + (s + 1)
  BY <1>2 DEF n
<1>6. Number[Increment(d)] = (Number[c] + (s + 1)) % Period
  BY <1>1, <1>2, <1>4, <1>5 DEF n
<1>7. QED BY <1>5, <1>6 DEF Ahead

\* The bound on the steps may be larger.
LEMMA AheadMore ==
  ASSUME NEW c, NEW d, NEW k \in Nat, NEW l \in Nat, k <= l, Ahead(c, d, k)
  PROVE  Ahead(c, d, l)
<1>1. 1..k \subseteq 1..l
  OBVIOUS
<1>2. QED BY <1>1 DEF Ahead

\* Less than a round ahead there is another counter.
LEMMA AheadDiffers ==
  ASSUME NEW c \in Counter, NEW k \in Nat, k < Period
  PROVE  ~Ahead(c, c, k)
<1>1. SUFFICES ASSUME NEW s \in 1..k,
                      Number[c] = (Number[c] + s) % Period
               PROVE  FALSE
  BY DEF Ahead
<1>2. Period \in Nat \ {0} /\ Number[c] \in 0..Period - 1
  BY NumberExists DEF Numbers
<1> DEFINE n == Number[c]
<1> HIDE DEF n
<1>3. CASE n + s < Period
  <2>1. (n + s) % Period = n + s
    BY <1>2, <1>3 DEF n
  <2>2. QED BY <1>1, <1>2, <2>1 DEF n
<1>4. CASE n + s >= Period
  <2>1. n + s - Period \in 0..Period - 1
    BY <1>2, <1>4 DEF n
  <2>2. (n + s) % Period = n + s - Period
    BY <1>2, <2>1 DEF n
  <2>3. QED BY <1>1, <1>2, <2>2 DEF n
<1>5. QED BY <1>2, <1>3, <1>4 DEF n

-----------------------------------------------------------------------------
(* Facts every step uses.                                                  *)

\* The sizes and the roles.
LEMMA Basics ==
  /\ BlockSize \in Nat \ {0} /\ Roles = {"encrypt", "decrypt"}
  /\ \A r \in Roles : Nonce(r) \in Roles
BY CtrAssumption DEF Roles, Nonce

\* The types of what a caller has.
LEMMA TypesOf ==
  ASSUME TypeInv, NEW r \in Roles
  PROVE  /\ count[r] \in Nat /\ base[r] \in Nat /\ len[r] \in Nat
         /\ i[r] \in Nat /\ pc[r] \in {"idle", "loop"}
         /\ nonce[Nonce(r)] \in Counter /\ counter[r] \in Counter
         /\ text[r] \in Seq(Byte) /\ Len(text[r]) \in Nat
         /\ begun[r] \in Seq(Counter) /\ Len(begun[r]) \in Nat
         /\ used[Nonce(r)] \in Seq(Use) /\ Len(used[Nonce(r)]) \in Nat
         /\ packets \in Seq(Nat) /\ Len(packets) \in Nat
         /\ plain \in Seq(Byte) /\ Len(plain) \in Nat
BY Basics, SMTT(30) DEF TypeInv

\* Decryption is behind encryption, in calls and in bytes.
LEMMA Behind ==
  ASSUME TypeInv, PlaceInv
  PROVE  /\ Len(text["decrypt"]) <= base["encrypt"]
         /\ base["encrypt"] <= Len(text["encrypt"])
         /\ Len(text["encrypt"]) <= Len(plain)
         /\ \A n \in 1..Len(packets) : packets[n] <= base["encrypt"]
         /\ \A n \in 1..count["decrypt"] : packets[n] <= base["decrypt"]
         /\ base["decrypt"] <= Len(text["decrypt"])
         /\ Len(begun["decrypt"]) <= Len(packets)
         /\ count["decrypt"] <= Len(begun["decrypt"])
         /\ Len(packets) = count["encrypt"]
         /\ count["encrypt"] <= Len(begun["encrypt"])
<1>1. /\ packets \in Seq(Nat) /\ Len(packets) = count["encrypt"]
      /\ count \in [Roles -> Nat] /\ base \in [Roles -> Nat]
      /\ len \in [Roles -> Nat] /\ i \in [Roles -> Nat]
      /\ pc \in [Roles -> {"idle", "loop"}]
      /\ count["decrypt"] <= count["encrypt"]
      /\ "encrypt" \in Roles /\ "decrypt" \in Roles
      /\ PlaceOf("encrypt") /\ PlaceOf("decrypt")
      /\ \A m, n \in 1..Len(packets) : m <= n => packets[m] <= packets[n]
  BY Basics DEF TypeInv, PlaceInv
<1>2. \A n \in 1..Len(packets) : packets[n] \in Nat
  BY <1>1
<1>3. \A n \in 1..Len(packets) : packets[n] <= base["encrypt"]
  BY <1>1, <1>2 DEF PlaceOf, Start
<1>4. \A n \in 1..count["decrypt"] : packets[n] <= base["decrypt"]
  BY <1>1, <1>2 DEF PlaceOf, Start
<1>5. /\ base["encrypt"] <= Len(text["encrypt"])
      /\ base["decrypt"] <= Len(text["decrypt"])
      /\ Len(text["encrypt"]) <= Len(plain)
      /\ Len(begun["decrypt"]) <= Len(packets)
      /\ count["decrypt"] <= Len(begun["decrypt"])
      /\ count["encrypt"] <= Len(begun["encrypt"])
  <2>1. /\ \A r \in Roles : count[r] \in Nat /\ base[r] \in Nat
        /\ \A r \in Roles : len[r] \in Nat /\ i[r] \in Nat
        /\ \A r \in Roles : pc[r] \in {"idle", "loop"}
        /\ Len(plain) \in Nat
    BY <1>1 DEF TypeInv
  <2>2. ASSUME NEW r \in Roles, PlaceOf(r)
        PROVE  /\ base[r] <= Len(text[r]) /\ count[r] <= Len(begun[r])
               /\ base[r] <= Len(plain) => Len(text[r]) <= Len(plain)
               /\ pc[r] = "idle" => Len(begun[r]) = count[r]
               /\ pc[r] = "loop" => Len(begun[r]) = count[r] + 1
    BY <2>1, <2>2 DEF PlaceOf
  <2>3. /\ base["encrypt"] <= Len(plain)
        /\ pc["decrypt"] = "loop" => count["decrypt"] < count["encrypt"]
    BY DEF PlaceInv
  <2>4. Len(begun["decrypt"]) <= Len(packets)
    BY <1>1, <2>1, <2>2, <2>3
  <2>5. QED BY <1>1, <2>2, <2>3, <2>4
<1>6. Len(text["decrypt"]) <= base["encrypt"]
  <2>1. CASE pc["decrypt"] = "loop"
    <3>1. /\ count["decrypt"] + 1 \in 1..Len(packets)
          /\ base["decrypt"] + len["decrypt"] = packets[count["decrypt"] + 1]
      BY <1>1, <2>1 DEF PlaceInv
    <3>2. base["decrypt"] + len["decrypt"] <= base["encrypt"]
      BY <1>3, <3>1
    <3>3. QED BY <1>1, <2>1, <3>2 DEF PlaceOf
  <2>2. CASE pc["decrypt"] = "idle"
    <3>1. Len(text["decrypt"]) = Start(count["decrypt"])
      BY <1>1, <2>2 DEF PlaceOf
    <3>2. QED BY <1>1, <1>2, <1>3, <3>1 DEF Start
  <2>3. QED BY <1>1, <2>1, <2>2
<1>7. QED BY <1>1, <1>3, <1>4, <1>5, <1>6

\* Calls that start from the same nonce have done so before.
LEMMA SameBefore ==
  ASSUME NEW m \in Nat \ {0}, NEW n \in Nat, m <= n, SameStart(n)
  PROVE  SameStart(m)
BY DEF SameStart

\* What belongs to the setup is the same in every state.
LEMMA SetupStays ==
  ASSUME UNCHANGED setup
  PROVE  /\ UNCHANGED <<impl, shared, plain, nonce0>>
         /\ \A r : Nonce(r)' = Nonce(r)
         /\ \A n : SameStart(n)' = SameStart(n)
BY DEF setup, Nonce, SameStart

\* Steps that make no keystream.
LEMMA MadeStays ==
  ASSUME UNCHANGED <<shared, used>>, NEW r
  PROVE  Made(r)' = Made(r)
BY DEF Made, Nonce, Range

\* The blocks made are records of the right type.
LEMMA MadeTypes ==
  ASSUME TypeInv, NEW r \in Roles, NEW u \in Made(r)
  PROVE  /\ u \in Use /\ u.by = r /\ u.call \in Nat \ {0} /\ u.from \in Nat
         /\ u.to \in Nat /\ u.value \in Counter
         /\ \E k \in 1..Len(used[Nonce(r)]) : u = used[Nonce(r)][k]
<1>1. used[Nonce(r)] \in Seq(Use)
  BY Basics DEF TypeInv
<1>2. PICK k \in 1..Len(used[Nonce(r)]) : u = used[Nonce(r)][k]
  BY <1>1 DEF Made, Range
<1>3. u \in Use /\ u.by = r
  BY <1>1, <1>2 DEF Made
<1>4. QED BY <1>2, <1>3 DEF Use

\* The same of those in the order in which they were made.
LEMMA UsedTypes ==
  ASSUME TypeInv, NEW n \in Roles, NEW a \in 1..Len(used[n])
  PROVE  /\ used[n][a] \in Use /\ used[n][a].by \in Roles
         /\ used[n][a].call \in Nat /\ used[n][a].value \in Counter
<1>1. used[n] \in Seq(Use)
  BY DEF TypeInv
<1>2. used[n][a] \in Use
  BY <1>1
<1>3. QED BY <1>2 DEF Use

\* A step that makes one more.
LEMMA MadeGrows ==
  ASSUME TypeInv, UNCHANGED setup, NEW r \in Roles, NEW w \in Use, w.by = r,
         used' = [used EXCEPT ![Nonce(r)] = Append(@, w)]
  PROVE  /\ Made(r)' = Made(r) \cup {w}
         /\ \A q \in Roles : q # r => Made(q)' = Made(q)
<1> DEFINE n == Nonce(r)
           s == used[n]
<1>1. n \in Roles /\ s \in Seq(Use) /\ \A q : Nonce(q)' = Nonce(q)
  BY Basics, SetupStays DEF TypeInv
<1>2. used'[n] = Append(s, w) /\ \A q \in Roles : q # n => used'[q] = used[q]
  BY <1>1 DEF TypeInv
<1>3. Range(Append(s, w)) = Range(s) \cup {w}
  <2>1. /\ DOMAIN s = 1..Len(s) /\ DOMAIN Append(s, w) = 1..Len(s) + 1
        /\ Append(s, w)[Len(s) + 1] = w /\ Len(s) \in Nat
        /\ \A k \in 1..Len(s) : Append(s, w)[k] = s[k]
    BY <1>1
  <2> HIDE DEF s
  <2>2. 1..Len(s) + 1 = 1..Len(s) \cup {Len(s) + 1}
    BY <2>1
  <2>3. QED BY <2>1, <2>2 DEF Range
<1>4. ASSUME NEW q \in Roles
      PROVE  Made(q)' = {u \in Range(used'[Nonce(q)]) : u.by = q}
  BY <1>1 DEF Made
<1>5. Made(r)' = {u \in Range(s) \cup {w} : u.by = r}
  BY <1>2, <1>3, <1>4
<1>6. Made(r)' = Made(r) \cup {w}
  BY <1>5 DEF Made
<1>7. ASSUME NEW q \in Roles, q # r
      PROVE  Made(q)' = Made(q)
  <2>1. Nonce(q) \in Roles
    BY Basics
  <2>2. CASE Nonce(q) = n
    <3>1. Made(q)' = {u \in Range(s) \cup {w} : u.by = q}
      BY <1>2, <1>3, <1>4, <2>2
    <3>2. QED BY <1>7, <2>2, <3>1 DEF Made
  <2>3. CASE Nonce(q) # n
    BY <1>2, <1>4, <2>1, <2>3 DEF Made
  <2>4. QED BY <2>2, <2>3
<1>8. QED BY <1>6, <1>7

\* It is enough for the invariants of the calls that a block that was made
\* stays made.
LEMMA MadeForStays ==
  ASSUME NEW n, NEW p, NEW c, MadeFor(n, p, c),
         Made("encrypt") \subseteq Made("encrypt")'
  PROVE  MadeFor(n, p, c)'
BY DEF MadeFor

-----------------------------------------------------------------------------
(* The initial states.                                                     *)

\* IInv holds initially.
LEMMA Initially == Init => IInv
<1> SUFFICES ASSUME Init PROVE IInv
  OBVIOUS
<1>1. /\ nonce0 \in Counter /\ plain \in Seq(Byte) /\ shared \in BOOLEAN
      /\ impl \in [Roles -> {"generic", "ni"}]
      /\ "encrypt" \in Roles /\ "decrypt" \in Roles
      /\ \A r \in Roles : Nonce(r) \in Roles
  BY Basics, CtrAssumption DEF Init
<1>2. TypeInv
  BY <1>1 DEF Init, TypeInv
<1>3. \A r \in Roles : Made(r) = {}
  BY <1>1 DEF Init, Made, Range
<1>4. PlaceInv
  BY <1>1 DEF Init, PlaceInv, PlaceOf, Start
<1>5. BlocksInv
  BY <1>1, <1>3 DEF Init, BlocksInv
<1>6. EncryptInv
  BY <1>1, <1>3 DEF Init, EncryptInv
<1>7. GenericInv
  BY <1>1 DEF Init, GenericInv
<1>8. DecryptInv
  BY <1>1, <1>3 DEF Init, DecryptInv, NonceAfter
<1>9. FreshInv
  BY <1>1 DEF Init, FreshInv
<1>10. QED BY <1>2, <1>4, <1>5, <1>6, <1>7, <1>8, <1>9 DEF IInv

-----------------------------------------------------------------------------
(* What a step of one caller leaves to the other.                          *)

\* Encryption is as it was, if its state is; a shared nonce array is not part
\* of that.
LEMMA EncryptStays ==
  ASSUME IInv, UNCHANGED <<setup, packets>>,
         Made("encrypt")' = Made("encrypt"),
         text'["encrypt"] = text["encrypt"],
         begun'["encrypt"] = begun["encrypt"],
         counter'["encrypt"] = counter["encrypt"],
         count'["encrypt"] = count["encrypt"],
         pc'["encrypt"] = pc["encrypt"], i'["encrypt"] = i["encrypt"],
         ~shared => nonce'["encrypt"] = nonce["encrypt"]
  PROVE  EncryptInv'
<1>1. /\ UNCHANGED <<impl, shared>> /\ EncryptInv
      /\ \A r : Nonce(r)' = Nonce(r)
  BY SetupStays DEF IInv
<1>2. \A n, p, c : MadeFor(n, p, c)' <=> MadeFor(n, p, c)
  BY DEF MadeFor
<1>3. \A n : FirstOk(n)' <=> FirstOk(n)
  BY <1>2 DEF FirstOk, Start
<1>4. ~shared => \A n : NonceAfter(n)' = NonceAfter(n)
  BY <1>1 DEF NonceAfter, Nonce
<1>5. ASSUME NEW u \in Made("encrypt")
      PROVE  NextOk(u)'
  <2>1. NextOk(u)
    BY <1>1 DEF EncryptInv
  <2>2. QED BY <1>1, <1>2, <1>4, <2>1 DEF NextOk
<1>6. QED BY <1>1, <1>3, <1>5 DEF EncryptInv

\* The places where calls end stay, for calls that have begun.
LEMMA BlocksStay ==
  ASSUME IInv, UNCHANGED <<impl, shared, plain, text, used>>,
         NEW r \in Roles, Len(begun[r]) <= Len(begun[r]'),
         \A n \in 1..Len(begun[r]) : End(r, n)' = End(r, n)
  PROVE  /\ \A u \in Made(r)' : BlockOk(r, u)'
         /\ \A p \in 1..Len(text[r])' : Covered(r, p)'
<1>1. Made(r)' = Made(r) /\ BlocksInv /\ TypeInv
  BY MadeStays DEF IInv
<1>2. ASSUME NEW u \in Made(r)
      PROVE  BlockOk(r, u)'
  <2>1. BlockOk(r, u) /\ u.call \in Nat \ {0}
    BY <1>1, MadeTypes DEF BlocksInv
  <2>2. /\ Len(begun[r]) \in Nat /\ u.call \in 1..Len(begun[r])
        /\ Len(begun[r])' \in Nat
    BY <1>1, <2>1 DEF BlockOk, TypeInv
  <2>3. Input(r)' = Input(r)
    BY DEF Input
  <2>4. QED BY <2>1, <2>2, <2>3 DEF BlockOk
<1>3. QED BY <1>1, <1>2 DEF BlocksInv, Covered

-----------------------------------------------------------------------------
(* A call begins.                                                          *)

\* The types, and where the callers are.
LEMMA CallPlace ==
  ASSUME IInv, NEW r \in Roles, Call(r)
  PROVE  TypeInv' /\ PlaceInv'
<1>1. TypeInv /\ PlaceInv /\ Nonce(r) \in Roles /\ UNCHANGED setup
  BY Basics DEF IInv, Call
<1>2. PICK n \in 1..Len(plain) :
        NextLength(r, n) /\ len' = [len EXCEPT ![r] = n]
  BY DEF Call
<1>3. TypeInv'
  <2>1. /\ counter' = [counter EXCEPT ![r] = nonce[Nonce(r)]]
        /\ begun' = [begun EXCEPT ![r] = Append(@, nonce[Nonce(r)])]
        /\ i' = [i EXCEPT ![r] = 0] /\ pc' = [pc EXCEPT ![r] = "loop"]
        /\ UNCHANGED <<text, nonce, packets, count, base, used>>
    BY DEF Call
  <2>2. n \in Nat /\ nonce[Nonce(r)] \in Counter
    BY <1>1, TypesOf
  <2>3. Append(begun[r], nonce[Nonce(r)]) \in Seq(Counter)
    BY <1>1, <2>2, TypesOf
  <2>4. QED BY <1>1, <1>2, <2>1, <2>2, <2>3, SetupStays DEF TypeInv
<1>4. base[r] + n <= Len(plain)
  <2>1. CASE r = "encrypt"
    BY <1>2, <2>1 DEF NextLength
  <2>2. CASE r = "decrypt"
    <3>1. /\ count[r] < Len(packets) /\ base[r] + n = packets[count[r] + 1]
          /\ count[r] \in Nat /\ packets \in Seq(Nat)
      BY <1>1, <1>2, <2>2 DEF NextLength, TypeInv
    <3>2. count[r] + 1 \in 1..Len(packets)
      BY <3>1
    <3>3. packets[count[r] + 1] <= base["encrypt"]
      BY <1>1, <3>2, Behind
    <3>4. base["encrypt"] <= Len(plain)
      BY <1>1 DEF PlaceInv
    <3>5. /\ packets[count[r] + 1] \in Nat /\ Len(plain) \in Nat
          /\ base["encrypt"] \in Nat
      <4>1. packets[count[r] + 1] \in Nat
        BY <3>1, <3>2
      <4>2. QED BY <1>1, <4>1, TypesOf, Basics
    <3>6. QED BY <3>1, <3>3, <3>4, <3>5
  <2>3. QED BY <2>1, <2>2, Basics
<1>5. ASSUME NEW q \in Roles
      PROVE  PlaceOf(q)'
  <2>1. PlaceOf(q) /\ Start(count[q])' = Start(count[q]) /\ plain' = plain
    BY <1>1, SetupStays DEF PlaceInv, Start, Call
  <2>2. CASE q = r
    <3>1. /\ pc[r] = "idle" /\ pc'[r] = "loop" /\ i'[r] = 0 /\ len'[r] = n
          /\ begun'[r] = Append(begun[r], nonce[Nonce(r)])
          /\ base' = base /\ count' = count /\ text' = text
      BY <1>1, <1>2 DEF Call, MayCall, TypeInv
    <3>2. Len(begun'[r]) = Len(begun[r]) + 1
      BY <1>1, <3>1 DEF TypeInv
    <3>3. base[r] \in Nat /\ n \in Nat /\ n > 0
      BY <1>1 DEF TypeInv
    <3>4. QED BY <1>4, <2>1, <2>2, <3>1, <3>2, <3>3 DEF PlaceOf
  <2>3. CASE q # r
    <3>1. /\ pc'[q] = pc[q] /\ i'[q] = i[q] /\ len'[q] = len[q]
          /\ begun'[q] = begun[q]
          /\ base' = base /\ count' = count /\ text' = text
      BY <1>1, <1>2, <2>3 DEF Call, TypeInv
    <3>2. QED BY <2>1, <3>1 DEF PlaceOf
  <2>4. QED BY <2>2, <2>3
<1>6. shared => \E q \in Roles : pc'[q] = "idle"
  <2>1. SUFFICES ASSUME shared PROVE \E q \in Roles : pc'[q] = "idle"
    OBVIOUS
  <2>2. PICK q \in Roles : q # r
    BY Basics
  <2>3. pc[q] = "idle" /\ pc'[q] = pc[q]
    BY <1>1, <2>1, <2>2 DEF Call, MayCall, TypeInv
  <2>4. QED BY <2>3
<1>7. pc'["decrypt"] = "loop" =>
        /\ count["decrypt"] < count["encrypt"]
        /\ base["decrypt"] + len'["decrypt"] = packets[count["decrypt"] + 1]
  <2>1. CASE r = "decrypt"
    BY <1>1, <1>2, <2>1 DEF NextLength, PlaceInv, TypeInv
  <2>2. CASE r # "decrypt"
    BY <1>1, <1>2, <2>2, Basics DEF PlaceInv, Call, TypeInv
  <2>3. QED BY <2>1, <2>2
<1>8. PlaceInv'
  BY <1>1, <1>5, <1>6, <1>7, SetupStays DEF PlaceInv, Call
<1>9. QED BY <1>3, <1>8

\* The nonces of the calls of encryption are those they were to be.
LEMMA CallNonces ==
  ASSUME IInv, NEW r \in Roles, Call(r), NEW n \in 0..count["encrypt"]
  PROVE  NonceAfter(n)' = NonceAfter(n)
<1>1. /\ TypeInv /\ PlaceInv /\ "encrypt" \in Roles
      /\ UNCHANGED <<setup, nonce>> /\ n \in Nat
  BY Basics DEF IInv, Call, TypeInv
<1>2. Nonce("encrypt")' = Nonce("encrypt") /\ Nonce("encrypt") \in Roles
  BY <1>1, SetupStays, Basics
<1>3. CASE r = "encrypt"
  <2>1. /\ Len(begun["encrypt"]) = count["encrypt"]
        /\ count["encrypt"] \in Nat
        /\ begun["encrypt"] \in Seq(Counter)
    BY <1>1, <1>3 DEF Call, MayCall, PlaceInv, PlaceOf, TypeInv
  <2>2. begun'["encrypt"] = Append(begun["encrypt"], nonce[Nonce("encrypt")])
    BY <1>1, <1>3 DEF Call, TypeInv
  <2>3. /\ Len(begun'["encrypt"]) = count["encrypt"] + 1
        /\ begun'["encrypt"][count["encrypt"] + 1] = nonce[Nonce("encrypt")]
        /\ \A k \in 1..count["encrypt"] :
             begun'["encrypt"][k] = begun["encrypt"][k]
    BY <2>1, <2>2
  <2>4. CASE n = count["encrypt"]
    BY <1>1, <1>2, <2>1, <2>3, <2>4 DEF NonceAfter
  <2>5. CASE n < count["encrypt"]
    BY <1>1, <1>2, <2>1, <2>3, <2>5 DEF NonceAfter
  <2>6. QED BY <1>1, <2>1, <2>4, <2>5
<1>4. CASE r # "encrypt"
  <2>1. begun'["encrypt"] = begun["encrypt"]
    BY <1>1, <1>4 DEF Call, TypeInv
  <2>2. QED BY <1>1, <1>2, <2>1 DEF NonceAfter
<1>5. QED BY <1>3, <1>4

\* What is said of the blocks.
LEMMA CallBlocks ==
  ASSUME IInv, NEW r \in Roles, Call(r)
  PROVE  BlocksInv' /\ EncryptInv' /\ GenericInv'
<1>1. /\ TypeInv /\ PlaceInv /\ EncryptInv /\ GenericInv
      /\ UNCHANGED <<setup, text, nonce, packets, count, base, used>>
      /\ "encrypt" \in Roles /\ "decrypt" \in Roles
      /\ Len(packets) = count["encrypt"]
  BY Basics DEF IInv, Call, PlaceInv
<1>2. /\ UNCHANGED <<impl, shared, plain, nonce0>>
      /\ \A q : Nonce(q)' = Nonce(q)
  BY <1>1, SetupStays
<1>3. /\ begun'[r] = Append(begun[r], nonce[Nonce(r)])
      /\ Len(begun[r]) = count[r] /\ pc[r] = "idle"
      /\ pc'[r] = "loop" /\ i'[r] = 0 /\ counter'[r] = nonce[Nonce(r)]
      /\ \A q \in Roles : q # r =>
           /\ begun'[q] = begun[q] /\ len'[q] = len[q] /\ pc'[q] = pc[q]
           /\ i'[q] = i[q] /\ counter'[q] = counter[q]
  BY <1>1 DEF Call, MayCall, TypeInv, PlaceInv, PlaceOf
<1>4. /\ Len(begun'[r]) = Len(begun[r]) + 1
      /\ begun'[r][Len(begun[r]) + 1] = nonce[Nonce(r)]
      /\ \A k \in 1..Len(begun[r]) : begun'[r][k] = begun[r][k]
  BY <1>1, <1>3, TypesOf
<1>5. BlocksInv'
  <2>1. ASSUME NEW q \in Roles, NEW n \in 1..Len(begun[q])
        PROVE  End(q, n)' = End(q, n)
    <3>1. CASE q = r
      <4>1. n <= Len(packets)
        <5>1. /\ Len(begun[r]) = count[r] /\ count["decrypt"] \in Nat
              /\ count["decrypt"] <= count["encrypt"]
              /\ count["encrypt"] \in Nat
          BY <1>1, <1>3, TypesOf DEF PlaceInv
        <5>2. r = "encrypt" \/ r = "decrypt"
          BY Basics
        <5>3. QED BY <1>1, <3>1, <5>1, <5>2
      <4>2. QED BY <1>1, <4>1 DEF End
    <3>2. CASE q # r
      BY <1>1, <1>3, <3>2 DEF End
    <3>3. QED BY <3>1, <3>2
  <2>2. ASSUME NEW q \in Roles
        PROVE  Len(begun[q]) <= Len(begun[q]')
    BY <1>1, <1>3, <1>4, TypesOf, SMTT(30)
  <2>3. QED BY <1>1, <1>2, <2>1, <2>2, BlocksStay DEF BlocksInv
<1>6. EncryptInv'
  <2>1. CASE r # "encrypt"
    BY <1>1, <1>2, <1>3, <2>1, MadeStays, EncryptStays
  <2>2. CASE r = "encrypt"
    <3>1. Made("encrypt")' = Made("encrypt")
      BY <1>1, <1>2, MadeStays
    <3>2. \A n, p, c : MadeFor(n, p, c)' <=> MadeFor(n, p, c)
      BY <3>1 DEF MadeFor
    <3>3. ASSUME NEW u \in Made("encrypt")
          PROVE  NextOk(u)'
      <4>1. NextOk(u) /\ BlockOk("encrypt", u) /\ u.call \in Nat \ {0}
        BY <1>1, MadeTypes DEF EncryptInv, IInv, BlocksInv
      <4>2. u.call <= count["encrypt"] /\ count["encrypt"] \in Nat
        BY <1>1, <1>3, <2>2, <4>1, TypesOf DEF BlockOk
      <4>3. NonceAfter(u.call)' = NonceAfter(u.call)
        BY <1>1, <4>1, <4>2, CallNonces
      <4>4. ~(u.call = count["encrypt"] + 1)
        BY <4>1, <4>2
      <4>5. QED BY <1>1, <1>2, <3>2, <4>1, <4>2, <4>3, <4>4 DEF NextOk
    <3>4. ASSUME NEW n \in 1..count["encrypt"]
          PROVE  FirstOk(n)'
      <4>1. FirstOk(n) /\ begun'["encrypt"][n] = begun["encrypt"][n]
        BY <1>1, <1>3, <1>4, <2>2 DEF EncryptInv
      <4>2. Start(n - 1)' = Start(n - 1)
        BY <1>1 DEF Start
      <4>3. QED BY <3>2, <4>1, <4>2 DEF FirstOk
    <3>5. /\ i'["encrypt"] = 0
          /\ counter'["encrypt"] = begun'["encrypt"][count["encrypt"] + 1]
      BY <1>3, <1>4, <2>2
    <3>6. QED BY <1>1, <3>1, <3>3, <3>4, <3>5 DEF EncryptInv
  <2>3. QED BY <2>1, <2>2
<1>7. GenericInv'
  <2>1. SUFFICES ASSUME \A q \in Roles : impl[q] = "generic",
                        NEW q \in Roles
                 PROVE  /\ nonce[q]' = nonce0
                        /\ \A n \in 1..Len(begun[q]') : begun[q]'[n] = nonce0
    BY <1>2 DEF GenericInv
  <2>2. /\ \A a \in Roles : nonce[a] = nonce0
        /\ \A a \in Roles : \A n \in 1..Len(begun[a]) : begun[a][n] = nonce0
    BY <1>1, <2>1 DEF GenericInv
  <2>3. CASE q = r
    <3>1. nonce[Nonce(r)] = nonce0
      BY <2>2, Basics
    <3>2. begun[r] \in Seq(Counter) /\ Len(begun[r]) \in Nat
      BY <1>1, TypesOf
    <3>3. \A n \in 1..Len(begun'[r]) : begun'[r][n] = nonce0
      BY <1>4, <2>2, <3>1, <3>2
    <3>4. QED BY <1>1, <2>2, <2>3, <3>3
  <2>4. CASE q # r
    BY <1>1, <1>3, <2>2, <2>4
  <2>5. QED BY <2>3, <2>4
<1>8. QED BY <1>5, <1>6, <1>7

\* What is said of decryption.
LEMMA CallDecrypt ==
  ASSUME IInv, NEW r \in Roles, Call(r)
  PROVE  DecryptInv'
<1>1. /\ TypeInv /\ PlaceInv /\ DecryptInv /\ EncryptInv
      /\ UNCHANGED <<setup, text, nonce, packets, count, base, used>>
      /\ "encrypt" \in Roles /\ "decrypt" \in Roles
      /\ Len(packets) = count["encrypt"]
      /\ count["decrypt"] <= count["encrypt"]
      /\ count["encrypt"] \in Nat /\ count["decrypt"] \in Nat
  BY Basics, TypesOf DEF IInv, Call, PlaceInv
<1>2. /\ UNCHANGED <<impl, shared, plain, nonce0>>
      /\ \A q : Nonce(q)' = Nonce(q)
      /\ \A n : SameStart(n)' = SameStart(n)
  BY <1>1, SetupStays
<1>3. \A q : Made(q)' = Made(q)
  BY <1>1, <1>2, MadeStays
<1>4. /\ \A n, p, c : MadeFor(n, p, c)' <=> MadeFor(n, p, c)
      /\ \A u : (Encrypted(u)' <=> Encrypted(u))
      /\ \A u : (Decrypted(u)' <=> Decrypted(u))
  BY <1>3 DEF MadeFor, Encrypted, Decrypted
<1>5. \A n \in 0..count["encrypt"] : NonceAfter(n)' = NonceAfter(n)
  BY CallNonces
<1>6. NonceAfter(count["decrypt"])' = NonceAfter(count["decrypt"])
  BY <1>1, <1>5
<1>7. CASE r = "encrypt"
  <2>1. /\ pc'["decrypt"] = pc["decrypt"] /\ i'["decrypt"] = i["decrypt"]
        /\ len'["decrypt"] = len["decrypt"]
        /\ counter'["decrypt"] = counter["decrypt"]
    BY <1>1, <1>7 DEF Call, TypeInv
  <2>2. pc["decrypt"] = "loop" =>
          NonceAfter(count["decrypt"] + 1)' = NonceAfter(count["decrypt"] + 1)
    BY <1>1, <1>5 DEF PlaceInv
  <2>3. QED BY <1>1, <1>2, <1>3, <1>4, <1>6, <2>1, <2>2 DEF DecryptInv
<1>8. CASE r = "decrypt"
  <2>1. /\ pc["decrypt"] = "idle" /\ pc'["decrypt"] = "loop"
        /\ i'["decrypt"] = 0 /\ len'["decrypt"] > 0
        /\ counter'["decrypt"] = nonce[Nonce("decrypt")]
        /\ count["decrypt"] < count["encrypt"]
    BY <1>1, <1>8 DEF Call, MayCall, NextLength, TypeInv
  <2> DEFINE n == count["decrypt"] + 1
  <2>2. ASSUME SameStart(n)
        PROVE  MadeFor(n, Len(text["decrypt"]), counter'["decrypt"])
    <3>1. n \in 1..count["encrypt"] /\ n - 1 = count["decrypt"]
      BY <1>1, <2>1
    <3>2. MadeFor(n, Start(count["decrypt"]), begun["encrypt"][n])
      BY <1>1, <3>1 DEF EncryptInv, FirstOk
    <3>3. Start(count["decrypt"]) = Len(text["decrypt"])
      BY <1>1, <2>1 DEF PlaceInv, PlaceOf
    <3>4. nonce[Nonce("decrypt")] = NonceAfter(count["decrypt"])
      BY <1>1, <2>1, <2>2 DEF DecryptInv
    <3>5. NonceAfter(count["decrypt"]) = begun["encrypt"][n]
      <4>1. count["decrypt"] < Len(begun["encrypt"])
        BY <1>1, <2>1, Behind, TypesOf
      <4>2. QED BY <4>1 DEF NonceAfter
    <3>6. QED BY <2>1, <3>2, <3>3, <3>4, <3>5
  <2>3. QED BY <1>1, <1>2, <1>3, <1>4, <2>1, <2>2 DEF DecryptInv
<1>9. QED BY <1>7, <1>8, Basics

\* What is said of the counters.
LEMMA CallFresh ==
  ASSUME IInv, NEW r \in Roles, Call(r)
  PROVE  FreshInv'
<1>1. /\ TypeInv /\ PlaceInv /\ FreshInv
      /\ UNCHANGED <<setup, text, nonce, packets, count, base, used>>
  BY DEF IInv, Call
<1>2. impl' = impl /\ \A q : Nonce(q)' = Nonce(q)
  BY <1>1, SetupStays
<1>3. /\ Len(begun[r]) = count[r] /\ pc[r] = "idle"
      /\ Len(begun'[r]) = Len(begun[r]) + 1
      /\ counter'[r] = nonce[Nonce(r)]
      /\ \A q \in Roles : q # r =>
           /\ begun'[q] = begun[q] /\ pc'[q] = pc[q]
           /\ counter'[q] = counter[q]
  BY <1>1, TypesOf DEF Call, MayCall, TypeInv, PlaceInv, PlaceOf
<1>4. ASSUME NEW n \in Roles, NEW a \in 1..Len(used[n])
      PROVE  FreshFrom(n, a)'
  <2> DEFINE x == used[n][a]
  <2>1. x \in Use /\ x.by \in Roles /\ x.call \in Nat
    BY <1>1, UsedTypes
  <2>2. FreshFrom(n, a) /\ x' = x /\ used' = used
    BY <1>1 DEF FreshInv
  <2>3. (Left(x)' <=> Left(x)) /\ \A q : InCall(x, q)' <=> InCall(x, q)
    BY <1>1, <1>2 DEF Left, InCall
  <2>4. ~InCall(x, r)
    <3>1. SUFFICES ASSUME x.by = r, x.call = count[r] + 1 PROVE FALSE
      BY DEF InCall
    <3>2. x.call <= count[r]
      BY <1>3, <2>2, <3>1 DEF FreshFrom
    <3>3. QED BY <1>1, <2>1, <3>1, <3>2, TypesOf
  <2>5. x.call <= Len(begun'[x.by])
    <3>1. x.call <= Len(begun[x.by])
      BY <2>2 DEF FreshFrom
    <3>2. Len(begun[x.by]) \in Nat
      BY <1>1, <2>1, TypesOf
    <3>3. Len(begun[x.by]) <= Len(begun'[x.by])
      BY <1>3, <2>1, <3>2, SMTT(30)
    <3>4. Len(begun'[x.by]) \in Nat
      BY <1>3, <2>1, <3>2
    <3> HIDE DEF x
    <3>5. QED BY <2>1, <3>1, <3>2, <3>3, <3>4
  <2> HIDE DEF x
  <2>6. ASSUME NEW q \in Roles, Nonce(q) = n, pc'[q] = "loop",
               Left(x) \/ InCall(x, q)
        PROVE  Ahead(x.value, counter'[q], Len(used[n]) + 1 - a)
    <3>1. CASE q = r
      <4>1. Left(x) /\ counter'[q] = nonce[n]
        BY <1>3, <2>4, <2>6, <3>1
      <4>2. QED BY <2>2, <4>1 DEF FreshFrom, x
    <3>2. CASE q # r
      BY <1>3, <2>2, <2>6, <3>2 DEF FreshFrom, x
    <3>3. QED BY <3>1, <3>2
  <2>7. \A c, d, k : Ahead(c, d, k)' <=> Ahead(c, d, k)
    BY DEF Ahead, Number, Numbers
  <2>8. QED BY <1>1, <1>2, <2>2, <2>3, <2>5, <2>6 DEF FreshFrom, x
<1>5. QED BY <1>1, <1>4 DEF FreshInv

-----------------------------------------------------------------------------
(* A block of keystream.                                                   *)

\* What the step of r does, w being the block it makes.
BlockDone(r, w) ==
  /\ pc[r] = "loop" /\ i[r] < len[r]
  /\ UNCHANGED <<setup, nonce, packets, count, base, len, pc, begun>>
  /\ w \in Use /\ w.by = r /\ w.call = count[r] + 1
  /\ w.from = Len(text[r]) /\ w.from = base[r] + i[r]
  /\ w.value = counter[r] /\ w.from < w.to
  /\ w.to = IF w.from + BlockSize < base[r] + len[r]
              THEN w.from + BlockSize ELSE base[r] + len[r]
  /\ text'[r] \in Seq(Byte) /\ Len(text'[r]) = w.to
  /\ \A p \in 1..Len(text[r]) : text'[r][p] = text[r][p]
  /\ \A p \in w.from + 1..w.to :
       text'[r][p] = XorByte(Input(r)[p], KeyStream(w.value)[p - w.from - 1])
  /\ text' = [text EXCEPT ![r] = text'[r]]
  /\ counter' = [counter EXCEPT ![r] = Increment(counter[r])]
  /\ i' = [i EXCEPT ![r] = i'[r]] /\ base[r] + i'[r] = w.to /\ i'[r] \in Nat
  /\ used' = [used EXCEPT ![Nonce(r)] = Append(@, w)]

\* A byte of the message or of the ciphertext is there to be encrypted or
\* decrypted.
LEMMA InputThere ==
  ASSUME TypeInv, PlaceInv, NEW r \in Roles, pc[r] = "loop"
  PROVE  /\ Input(r) \in Seq(Byte)
         /\ base[r] + len[r] <= Len(Input(r))
<1>1. CASE r = "encrypt"
  BY <1>1, TypesOf DEF Input, PlaceInv, PlaceOf
<1>2. CASE r = "decrypt"
  <2>1. /\ Input(r) = text["encrypt"] /\ "encrypt" \in Roles
        /\ count[r] + 1 \in 1..Len(packets)
        /\ base[r] + len[r] = packets[count[r] + 1]
    <3>1. "encrypt" \in Roles /\ "decrypt" \in Roles
      BY Basics
    <3>2. count["decrypt"] \in Nat /\ count["encrypt"] \in Nat
      BY <3>1, TypesOf
    <3>3. /\ count[r] < count["encrypt"] /\ Len(packets) = count["encrypt"]
          /\ base[r] + len[r] = packets[count[r] + 1]
      BY <1>2 DEF PlaceInv
    <3>4. count[r] + 1 \in 1..Len(packets)
      BY <1>2, <3>2, <3>3
    <3>5. QED BY <1>2, <3>1, <3>3, <3>4 DEF Input
  <2>2. /\ packets[count[r] + 1] <= base["encrypt"]
        /\ base["encrypt"] <= Len(text["encrypt"])
    BY <2>1, Behind
  <2>3. /\ text["encrypt"] \in Seq(Byte) /\ base["encrypt"] \in Nat
        /\ base[r] \in Nat /\ len[r] \in Nat
        /\ Len(text["encrypt"]) \in Nat
    BY <2>1, TypesOf
  <2>4. QED BY <2>1, <2>2, <2>3
<1>3. QED BY <1>1, <1>2, Basics

\* A block of r has one record of use, and BlockDone says all of its step.
LEMMA BlockEffect ==
  ASSUME IInv, NEW r \in Roles, Block(r)
  PROVE  \E w : BlockDone(r, w)
<1> DEFINE left  == len[r] - i[r]
           size  == IF left < BlockSize THEN left ELSE BlockSize
           bytes == [j \in 1..size |->
                       XorByte(Input(r)[base[r] + i[r] + j],
                               KeyStream(counter[r])[j - 1])]
           w == [by |-> r, call |-> count[r] + 1, from |-> base[r] + i[r],
                 to |-> base[r] + i[r] + size, value |-> counter[r]]
<1>1. TypeInv /\ PlaceInv /\ PlaceOf(r)
  BY DEF IInv, PlaceInv
<1>2. /\ pc[r] = "loop" /\ i[r] < len[r]
      /\ UNCHANGED <<setup, nonce, packets, count, base, len, pc, begun>>
      /\ text' = [text EXCEPT ![r] = @ \o bytes]
      /\ counter' = [counter EXCEPT ![r] = Increment(counter[r])]
      /\ i' = [i EXCEPT ![r] = @ + size]
      /\ used' = [used EXCEPT ![Nonce(r)] = Append(@, w)]
  BY DEF Block, Advance
<1>3. /\ BlockSize \in Nat \ {0} /\ i[r] \in Nat /\ len[r] \in Nat
      /\ base[r] \in Nat /\ count[r] \in Nat /\ counter[r] \in Counter
      /\ text[r] \in Seq(Byte) /\ Len(text[r]) \in Nat
      /\ Len(text[r]) = base[r] + i[r]
  BY <1>1, <1>2, TypesOf, Basics DEF PlaceOf
<1>4. size \in Nat \ {0} /\ size <= BlockSize /\ size <= left
  BY <1>2, <1>3, SMTT(30)
<1>5. /\ w \in Use /\ w.by = r /\ w.call = count[r] + 1
      /\ w.from = base[r] + i[r] /\ w.to = w.from + size
      /\ w.value = counter[r]
  <2> HIDE DEF size, left, w, bytes
  <2>1. /\ base[r] + i[r] \in Nat /\ base[r] + i[r] + size \in Nat
        /\ count[r] + 1 \in Nat \ {0}
    BY <1>3, <1>4
  <2>2. QED BY <1>3, <2>1 DEF w, Use
<1>6. ASSUME NEW j \in 1..size
      PROVE  bytes[j] \in Byte
  <2>1. /\ Input(r) \in Seq(Byte) /\ Len(Input(r)) \in Nat
        /\ base[r] + len[r] <= Len(Input(r))
    BY <1>1, <1>2, InputThere
  <2>2. base[r] + i[r] + j \in 1..Len(Input(r)) /\ j - 1 \in Indices
    <3>1. /\ size \in Nat /\ size <= BlockSize
          /\ base[r] + i[r] + size <= base[r] + len[r]
      BY <1>2, <1>3, <1>4, SMTT(30)
    <3> HIDE DEF size
    <3>2. j \in Nat /\ 1 <= j /\ j <= size
      BY <3>1
    <3>3. base[r] + i[r] + j <= Len(Input(r)) /\ base[r] + i[r] + j \in Nat
      BY <1>3, <2>1, <3>1, <3>2, SMTT(30)
    <3>4. base[r] + i[r] + j \in 1..Len(Input(r))
      <4>1. 1 <= base[r] + i[r] + j
        BY <1>3, <3>2
      <4> DEFINE b == base[r] + i[r] + j
      <4> HIDE DEF b
      <4>2. b \in Nat /\ b <= Len(Input(r)) /\ 1 <= b /\ Len(Input(r)) \in Nat
        BY <2>1, <3>3, <4>1 DEF b
      <4>3. b \in 1..Len(Input(r))
        BY <4>2
      <4>4. QED BY <4>3 DEF b
    <3>5. j - 1 \in Indices
      <4>1. BlockSize \in Nat
        BY <1>3
      <4>2. j - 1 \in Nat /\ j - 1 <= BlockSize - 1
        BY <3>1, <3>2, <4>1
      <4>3. j - 1 \in 0..BlockSize - 1
        BY <4>1, <4>2
      <4>4. QED BY <4>3 DEF Indices
    <3>6. QED BY <3>4, <3>5
  <2>3. Input(r)[base[r] + i[r] + j] \in Byte
    BY <2>1, <2>2
  <2>4. KeyStream(counter[r])[j - 1] \in Byte
    BY <1>3, <2>2, CtrAssumption
  <2>5. QED BY <2>3, <2>4, CtrAssumption
<1>7. bytes \in Seq(Byte) /\ Len(bytes) = size
  <2> HIDE DEF size
  <2>1. bytes \in [1..size -> Byte]
    BY <1>6
  <2>2. size \in Nat
    BY <1>4
  <2>3. QED BY <2>1, <2>2
<1>8. text'[r] = text[r] \o bytes
  BY <1>1, <1>2 DEF TypeInv
<1>9. \A j \in 1..size : bytes[j] = XorByte(Input(r)[base[r] + i[r] + j],
                                            KeyStream(counter[r])[j - 1])
  OBVIOUS
<1> HIDE DEF bytes, w
<1>10. /\ text[r] \o bytes \in Seq(Byte)
       /\ Len(text[r] \o bytes) = Len(text[r]) + size
       /\ \A p \in 1..Len(text[r]) : (text[r] \o bytes)[p] = text[r][p]
       /\ \A p \in Len(text[r]) + 1..Len(text[r]) + size :
            (text[r] \o bytes)[p] = bytes[p - Len(text[r])]
  <2> DEFINE s == text[r]
  <2>1. s \in Seq(Byte) /\ Len(s) \in Nat /\ size \in Nat
    BY <1>3, <1>4
  <2> HIDE DEF size, s
  <2>2. /\ s \o bytes \in Seq(Byte)
        /\ Len(s \o bytes) = Len(s) + size
        /\ \A p \in 1..Len(s) : (s \o bytes)[p] = s[p]
        /\ \A p \in Len(s) + 1..Len(s) + size :
             (s \o bytes)[p] = bytes[p - Len(s)]
    BY <1>7, <2>1
  <2>3. QED BY <2>2 DEF s
<1>11. ASSUME NEW p \in w.from + 1..w.to
       PROVE  text'[r][p] =
                XorByte(Input(r)[p], KeyStream(w.value)[p - w.from - 1])
  <2> DEFINE j == p - Len(text[r])
  <2>1. /\ w.from = Len(text[r]) /\ w.to = Len(text[r]) + size
        /\ p \in Len(text[r]) + 1..Len(text[r]) + size
    BY <1>3, <1>5, <1>11
  <2>2. j \in 1..size /\ base[r] + i[r] + j = p /\ j - 1 = p - w.from - 1
    <3> DEFINE l == Len(text[r])
    <3>1. /\ l \in Nat /\ size \in Nat /\ l = base[r] + i[r] /\ w.from = l
          /\ p \in l + 1..l + size /\ base[r] \in Nat /\ i[r] \in Nat
      BY <1>3, <1>4, <2>1
    <3>2. j = p - l
      OBVIOUS
    <3> HIDE DEF size, l, j
    <3>3. QED BY <3>1, <3>2
  <2>3. text'[r][p] = bytes[j]
    BY <1>8, <1>10, <2>1
  <2>4. bytes[j] = XorByte(Input(r)[p], KeyStream(counter[r])[j - 1])
    <3> HIDE DEF size, j
    <3>1. QED BY <1>9, <2>2
  <2>5. QED BY <1>5, <2>2, <2>3, <2>4
<1>12. /\ i'[r] = i[r] + size /\ i'[r] \in Nat
       /\ i' = [i EXCEPT ![r] = i'[r]]
  <2>1. i \in [Roles -> Nat] /\ i' = [i EXCEPT ![r] = @ + size]
    BY <1>1, <1>2 DEF TypeInv
  <2>2. size \in Nat /\ i[r] \in Nat
    BY <1>3, <1>4
  <2> HIDE DEF size
  <2>3. QED BY <2>1, <2>2
<1>13. text' = [text EXCEPT ![r] = text'[r]]
  BY <1>2, <1>8
<1>14. w.to = IF w.from + BlockSize < base[r] + len[r]
                THEN w.from + BlockSize ELSE base[r] + len[r]
  BY <1>2, <1>3, <1>5, SMTT(30)
<1>15. w.from < w.to /\ base[r] + i'[r] = w.to
  <2> HIDE DEF size
  <2>1. QED BY <1>3, <1>4, <1>5, <1>12, SMTT(30)
<1>16. BlockDone(r, w)
  <2> HIDE DEF size
  <2>1. /\ text'[r] \in Seq(Byte) /\ Len(text'[r]) = w.to
        /\ \A p \in 1..Len(text[r]) : text'[r][p] = text[r][p]
    BY <1>3, <1>5, <1>8, <1>10
  <2>2. QED BY <1>2, <1>3, <1>5, <1>11, <1>12, <1>13, <1>14, <1>15, <2>1
               DEF BlockDone
<1>17. QED BY <1>16

\* What that says of the other caller.
LEMMA BlockOthers ==
  ASSUME TypeInv, NEW r \in Roles, NEW w, BlockDone(r, w)
  PROVE  /\ counter'[r] = Increment(counter[r])
         /\ Made(r)' = Made(r) \cup {w}
         /\ \A q \in Roles : q # r =>
              /\ Made(q)' = Made(q) /\ text'[q] = text[q]
              /\ counter'[q] = counter[q] /\ i'[q] = i[q]
         /\ UNCHANGED <<impl, shared, plain, nonce0>>
         /\ \A q : Nonce(q)' = Nonce(q)
         /\ \A n : SameStart(n)' = SameStart(n)
<1>1. UNCHANGED setup
  BY DEF BlockDone
<1>2. /\ Made(r)' = Made(r) \cup {w}
      /\ \A q \in Roles : q # r => Made(q)' = Made(q)
  BY <1>1, MadeGrows DEF BlockDone
<1>3. /\ counter'[r] = Increment(counter[r])
      /\ \A q \in Roles : q # r =>
           text'[q] = text[q] /\ counter'[q] = counter[q] /\ i'[q] = i[q]
  BY DEF BlockDone, TypeInv
<1>4. QED BY <1>1, <1>2, <1>3, SetupStays

\* The types, and where the callers are.
LEMMA BlockPlace ==
  ASSUME IInv, NEW r \in Roles, NEW w, BlockDone(r, w)
  PROVE  TypeInv' /\ PlaceInv'
<1>1. TypeInv /\ PlaceInv
  BY DEF IInv
<1>2. /\ UNCHANGED <<impl, shared, plain, nonce0>>
      /\ UNCHANGED <<nonce, packets, count, base, len, pc, begun>>
      /\ \A q \in Roles : q # r => text'[q] = text[q] /\ i'[q] = i[q]
  BY <1>1, BlockOthers DEF BlockDone
<1>3. TypeInv'
  <2>1. text' \in [Roles -> Seq(Byte)] /\ i' \in [Roles -> Nat]
    BY <1>1 DEF BlockDone, TypeInv
  <2>2. counter' \in [Roles -> Counter]
    <3>1. Increment(counter[r]) \in Counter
      BY <1>1, NumberExists, TypesOf
    <3>2. QED BY <1>1, <3>1 DEF BlockDone, TypeInv
  <2>3. used' \in [Roles -> Seq(Use)]
    <3>1. Append(used[Nonce(r)], w) \in Seq(Use)
      BY <1>1, TypesOf DEF BlockDone
    <3>2. QED BY <1>1, <3>1 DEF BlockDone, TypeInv
  <2>4. QED BY <1>1, <1>2, <2>1, <2>2, <2>3 DEF TypeInv
<1>4. ASSUME NEW q \in Roles
      PROVE  PlaceOf(q)'
  <2>1. PlaceOf(q) /\ Start(count[q])' = Start(count[q])
    BY <1>1, <1>2 DEF PlaceInv, Start
  <2>2. CASE q = r
    <3>1. /\ pc[r] = "loop" /\ Len(text'[r]) = base[r] + i'[r]
          /\ base[r] + i'[r] = w.to /\ i'[r] \in Nat
          /\ w.to = IF w.from + BlockSize < base[r] + len[r]
                      THEN w.from + BlockSize ELSE base[r] + len[r]
          /\ w.from \in Nat /\ base[r] \in Nat /\ len[r] \in Nat
          /\ BlockSize \in Nat
      BY <1>1, TypesOf, Basics DEF BlockDone, Use
    <3>2. i'[r] <= len[r]
      BY <3>1
    <3>3. QED BY <1>2, <2>1, <2>2, <3>1, <3>2 DEF PlaceOf
  <2>3. CASE q # r
    BY <1>2, <2>1, <2>3 DEF PlaceOf
  <2>4. QED BY <2>2, <2>3
<1>5. PlaceInv'
  BY <1>1, <1>2, <1>4 DEF PlaceInv
<1>6. QED BY <1>3, <1>5

\* The new block is in the text, where the others were not.
LEMMA BlockBlocks ==
  ASSUME IInv, NEW r \in Roles, NEW w, BlockDone(r, w)
  PROVE  BlocksInv'
<1>1. TypeInv /\ PlaceInv /\ BlocksInv
  BY DEF IInv
<1>2. /\ UNCHANGED <<plain, packets, count, base, len, begun>>
      /\ Made(r)' = Made(r) \cup {w}
      /\ \A q \in Roles : q # r =>
           Made(q)' = Made(q) /\ text'[q] = text[q]
  <2>1. UNCHANGED <<plain, packets, count, base, len, begun>>
    BY <1>1 DEF BlockDone, setup
  <2>2. QED BY <1>1, <2>1, BlockOthers
<1>3. \A q, n : End(q, n)' = End(q, n)
  BY <1>2 DEF End
<1>4. /\ w.from = Len(text[r]) /\ w.from < w.to /\ Len(text'[r]) = w.to
      /\ w.from \in Nat /\ w.to \in Nat /\ Len(text[r]) \in Nat
      /\ \A p \in 1..Len(text[r]) : text'[r][p] = text[r][p]
  BY <1>1, TypesOf DEF BlockDone, Use
<1>5. ASSUME NEW q \in Roles, NEW p \in 1..Len(text[q])
      PROVE  text'[q][p] = text[q][p]
  BY <1>2, <1>4
<1>6. \A q \in Roles : Len(text[q]) <= Len(text'[q]) /\ Len(text'[q]) \in Nat
  BY <1>1, <1>2, <1>4, TypesOf
<1>7. ASSUME NEW q \in Roles, NEW p \in 1..Len(text[q])
      PROVE  Input(q)'[p] = Input(q)[p]
  <2>1. CASE q = "encrypt"
    BY <1>2, <2>1 DEF Input
  <2>2. CASE q = "decrypt"
    <3>1. p \in 1..Len(text["encrypt"]) /\ "encrypt" \in Roles
      <4>1. "encrypt" \in Roles /\ "decrypt" \in Roles
        BY Basics
      <4>2. /\ Len(text["decrypt"]) \in Nat /\ Len(text["encrypt"]) \in Nat
            /\ base["encrypt"] \in Nat
        BY <1>1, <4>1, TypesOf
      <4>3. Len(text["decrypt"]) <= Len(text["encrypt"])
        BY <1>1, <4>2, Behind
      <4>4. QED BY <2>2, <4>1, <4>2, <4>3
    <3>2. QED BY <1>5, <2>2, <3>1 DEF Input
  <2>3. QED BY <2>1, <2>2, Basics
<1>8. ASSUME NEW q \in Roles, NEW u \in Made(q)
      PROVE  BlockOk(q, u)'
  <2>1. BlockOk(q, u) /\ u.from \in Nat /\ u.to \in Nat
    BY <1>1, MadeTypes DEF BlocksInv
  <2>2. /\ u.call <= Len(begun[q]) /\ u.from < u.to /\ u.to <= Len(text[q])
        /\ Len(text[q]) \in Nat
    BY <1>1, <2>1, TypesOf DEF BlockOk
  <2>3. ASSUME NEW p \in u.from + 1..u.to
        PROVE  text'[q][p] = XorByte(Input(q)'[p],
                                     KeyStream(u.value)[p - u.from - 1])
    <3>1. p \in 1..Len(text[q])
      BY <2>1, <2>2
    <3>2. text[q][p] = XorByte(Input(q)[p],
                               KeyStream(u.value)[p - u.from - 1])
      BY <2>1 DEF BlockOk
    <3>3. QED BY <1>5, <1>7, <3>1, <3>2
  <2>4. u.to <= Len(text'[q])
    BY <1>6, <2>1, <2>2
  <2>5. QED BY <1>2, <1>3, <2>1, <2>3, <2>4 DEF BlockOk
<1>9. BlockOk(r, w)'
  <2>1. /\ pc[r] = "loop" /\ w.call = count[r] + 1
        /\ w.to = IF w.from + BlockSize < base[r] + len[r]
                    THEN w.from + BlockSize ELSE base[r] + len[r]
        /\ \A p \in w.from + 1..w.to :
             text'[r][p] =
               XorByte(Input(r)[p], KeyStream(w.value)[p - w.from - 1])
    BY DEF BlockDone
  <2>2. w.call <= Len(begun[r])
    BY <1>1, <2>1, TypesOf DEF PlaceInv, PlaceOf
  <2>3. End(r, w.call) = base[r] + len[r]
    <3>1. CASE r = "encrypt"
      <4>1. Len(packets) = count[r] /\ count[r] \in Nat
        BY <1>1, <3>1, TypesOf DEF PlaceInv
      <4>2. QED BY <2>1, <4>1 DEF End
    <3>2. CASE r = "decrypt"
      <4>1. /\ count[r] < Len(packets) /\ count[r] \in Nat
            /\ Len(packets) \in Nat
            /\ base[r] + len[r] = packets[count[r] + 1]
        BY <1>1, <2>1, <3>2, TypesOf DEF PlaceInv
      <4>2. QED BY <2>1, <4>1 DEF End
    <3>3. QED BY <3>1, <3>2, Basics
  <2>4. Input(r)' = Input(r)
    BY <1>2, Basics DEF Input
  <2>5. QED BY <1>2, <1>3, <1>4, <2>1, <2>2, <2>3, <2>4 DEF BlockOk
<1>10. ASSUME NEW q \in Roles, NEW p \in 1..Len(text'[q])
       PROVE  Covered(q, p)'
  <2>1. CASE p \in 1..Len(text[q])
    <3>1. PICK u \in Made(q) : p \in u.from + 1..u.to
      BY <1>1, <2>1 DEF BlocksInv, Covered
    <3>2. u \in Made(q)'
      BY <1>2, <3>1
    <3>3. QED BY <3>1, <3>2 DEF Covered
  <2>2. CASE p \notin 1..Len(text[q])
    <3>1. q = r
      BY <1>2, <2>2
    <3>2. w \in Made(q)' /\ p \in w.from + 1..w.to
      BY <1>2, <1>4, <2>2, <3>1
    <3>3. QED BY <3>2 DEF Covered
  <2>3. QED BY <2>1, <2>2
<1>11. ASSUME NEW q \in Roles, NEW u \in Made(q)'
       PROVE  BlockOk(q, u)'
  BY <1>2, <1>8, <1>9
<1>12. QED BY <1>10, <1>11 DEF BlocksInv

\* Encryption makes the successors of its blocks, one after the other.
LEMMA BlockEncrypt ==
  ASSUME IInv, NEW r \in Roles, NEW w, BlockDone(r, w)
  PROVE  EncryptInv'
<1>1. /\ TypeInv /\ PlaceInv /\ BlocksInv /\ EncryptInv
      /\ UNCHANGED <<setup, nonce, packets, count, base, len, pc, begun>>
      /\ "encrypt" \in Roles
  BY Basics DEF IInv, BlockDone
<1>2. CASE r # "encrypt"
  BY <1>1, <1>2, BlockOthers, EncryptStays
<1>3. CASE r = "encrypt"
  <2>1. /\ UNCHANGED <<impl, shared>> /\ \A q : Nonce(q)' = Nonce(q)
        /\ Made("encrypt")' = Made("encrypt") \cup {w}
        /\ counter'["encrypt"] = Increment(counter["encrypt"])
    BY <1>1, <1>3, BlockOthers
  <2>2. /\ w.call = count["encrypt"] + 1 /\ w.from = Len(text["encrypt"])
        /\ w.from = base["encrypt"] + i["encrypt"]
        /\ w.value = counter["encrypt"] /\ w.from < w.to
        /\ pc["encrypt"] = "loop" /\ Len(text'["encrypt"]) = w.to
        /\ base["encrypt"] + i'["encrypt"] = w.to
        /\ w.from \in Nat /\ w.to \in Nat /\ i'["encrypt"] \in Nat
        /\ base["encrypt"] \in Nat /\ i["encrypt"] \in Nat
        /\ count["encrypt"] \in Nat
    BY <1>1, <1>3, TypesOf DEF BlockDone, Use
  <2>3. \A n, p, c : MadeFor(n, p, c) => MadeFor(n, p, c)'
    BY <2>1, MadeForStays
  <2>4. ASSUME NEW n, NEW p, NEW c,
               n = w.call, p = w.from, c = w.value
        PROVE  MadeFor(n, p, c)'
    BY <2>1, <2>4 DEF MadeFor
  <2>5. \A n : NonceAfter(n)' = NonceAfter(n)
    BY <1>1, <2>1 DEF NonceAfter
  <2>6. ASSUME NEW u \in Made("encrypt")
        PROVE  NextOk(u)'
    <3>1. NextOk(u) /\ u.call \in Nat
      BY <1>1, MadeTypes DEF EncryptInv
    <3>2. CASE u.call <= count["encrypt"]
      <4>1. ~(u.call = count["encrypt"] + 1)
        BY <2>2, <3>1, <3>2
      <4>2. QED BY <1>1, <2>1, <2>3, <2>5, <3>1, <3>2, <4>1 DEF NextOk
    <3>3. CASE u.call = count["encrypt"] + 1
      <4>1. ~(u.call <= count["encrypt"])
        BY <2>2, <3>3
      <4>2. CASE MadeFor(u.call, u.to, Increment(u.value))
        BY <1>1, <2>3, <4>1, <4>2 DEF NextOk
      <4>3. CASE /\ u.to = Len(text["encrypt"])
                 /\ counter["encrypt"] = Increment(u.value)
        <5>1. MadeFor(u.call, u.to, Increment(u.value))'
          BY <2>2, <2>4, <3>3, <4>3
        <5>2. QED BY <1>1, <4>1, <5>1 DEF NextOk
      <4>4. QED BY <3>1, <3>3, <4>2, <4>3 DEF NextOk
    <3>4. CASE ~(u.call <= count["encrypt"]) /\ u.call # count["encrypt"] + 1
      BY <1>1, <3>4 DEF NextOk
    <3>5. QED BY <3>2, <3>3, <3>4
  <2>7. NextOk(w)'
    <3>1. ~(w.call <= count["encrypt"])
      BY <2>2
    <3>2. w.to = Len(text'["encrypt"])
          /\ counter'["encrypt"] = Increment(w.value)
      BY <2>1, <2>2
    <3>3. QED BY <1>1, <3>1, <3>2 DEF NextOk
  <2>8. ASSUME NEW u \in Made("encrypt") \cup {w},
               NEW v \in Made("encrypt") \cup {w},
               u.from <= v.from, v.from < u.to
        PROVE  u = v
    <3>1. ASSUME NEW x \in Made("encrypt")
          PROVE  /\ x.from \in Nat /\ x.to \in Nat
                 /\ x.from < x.to /\ x.to <= w.from
      <4>1. BlockOk("encrypt", x) /\ x.from \in Nat /\ x.to \in Nat
        BY <1>1, MadeTypes DEF BlocksInv
      <4>2. x.from < x.to /\ x.to <= Len(text["encrypt"])
        BY <4>1 DEF BlockOk
      <4>3. QED BY <2>2, <4>1, <4>2
    <3>2. CASE u \in Made("encrypt") /\ v \in Made("encrypt")
      BY <1>1, <2>8, <3>2 DEF EncryptInv
    <3>3. CASE u \in Made("encrypt") /\ v = w
      BY <2>2, <2>8, <3>1, <3>3
    <3>4. CASE u = w /\ v \in Made("encrypt")
      BY <2>2, <2>8, <3>1, <3>4
    <3>5. QED BY <3>2, <3>3, <3>4
  <2>9. \A n : Start(n)' = Start(n)
    BY <1>1 DEF Start
  <2>10. \A n : FirstOk(n) => FirstOk(n)'
    BY <1>1, <2>3, <2>9 DEF FirstOk
  <2>11. FirstOk(count["encrypt"] + 1)' /\ i'["encrypt"] # 0
    <3>1. CASE i["encrypt"] = 0
      <4>1. counter["encrypt"] = begun["encrypt"][count["encrypt"] + 1]
        BY <1>1, <2>2, <3>1 DEF EncryptInv
      <4>2. w.from = Start(count["encrypt"])
        BY <1>1, <2>2, <3>1 DEF PlaceInv, PlaceOf
      <4>3. ASSUME NEW n, n = w.call
            PROVE  FirstOk(n)'
        <5>1. n - 1 = count["encrypt"]
          BY <2>2, <4>3
        <5>2. begun["encrypt"][n] = w.value /\ Start(n - 1) = w.from
          BY <2>2, <4>1, <4>2, <4>3, <5>1
        <5>3. QED BY <1>1, <2>4, <2>9, <4>3, <5>2 DEF FirstOk
      <4>4. QED BY <1>1, <2>2, <4>3
    <3>2. CASE i["encrypt"] # 0
      <4>1. FirstOk(count["encrypt"] + 1)
        BY <1>1, <2>2, <3>2 DEF EncryptInv
      <4>2. QED BY <1>1, <2>2, <2>10, <4>1
    <3>3. i'["encrypt"] # 0
      BY <2>2
    <3>4. QED BY <3>1, <3>2, <3>3
  <2>12. QED BY <1>1, <2>1, <2>6, <2>7, <2>8, <2>10, <2>11 DEF EncryptInv
<1>4. QED BY <1>2, <1>3

\* A block that encryption makes concerns no block of decryption.
LEMMA BlockEncryptDecrypt ==
  ASSUME IInv, NEW w, BlockDone("encrypt", w)
  PROVE  DecryptInv'
<1>1. /\ TypeInv /\ PlaceInv /\ DecryptInv
      /\ UNCHANGED <<setup, nonce, packets, count, base, len, pc, begun>>
      /\ "encrypt" \in Roles /\ "decrypt" \in Roles
  BY Basics DEF IInv, BlockDone
<1>2. /\ UNCHANGED <<impl, shared>> /\ \A q : Nonce(q)' = Nonce(q)
      /\ \A n : SameStart(n)' = SameStart(n)
      /\ Made("encrypt")' = Made("encrypt") \cup {w}
      /\ Made("decrypt")' = Made("decrypt")
      /\ text'["decrypt"] = text["decrypt"]
      /\ counter'["decrypt"] = counter["decrypt"]
      /\ i'["decrypt"] = i["decrypt"]
  BY <1>1, BlockOthers
<1>3. /\ \A n, p, c : MadeFor(n, p, c) => MadeFor(n, p, c)'
      /\ \A u : Encrypted(u) => Encrypted(u)'
      /\ \A u : Decrypted(u) => Decrypted(u)'
      /\ \A n : NonceAfter(n)' = NonceAfter(n)
  BY <1>1, <1>2, MadeForStays DEF Encrypted, Decrypted, NonceAfter
<1>4. ~(w.from < Len(text["decrypt"]))
  <2>1. w.from = Len(text["encrypt"])
    BY DEF BlockDone
  <2>2. /\ Len(text["decrypt"]) <= base["encrypt"]
        /\ base["encrypt"] <= Len(text["encrypt"])
    BY <1>1, Behind
  <2>3. QED BY <1>1, <2>1, <2>2, TypesOf
<1>5. \A u \in Made("decrypt") : SameStart(u.call) => Encrypted(u)'
  BY <1>1, <1>3 DEF DecryptInv
<1>6. \A v \in Made("encrypt") \cup {w} :
        SameStart(v.call) /\ v.from < Len(text["decrypt"]) => Decrypted(v)'
  BY <1>1, <1>3, <1>4 DEF DecryptInv
<1>7. QED BY <1>1, <1>2, <1>3, <1>5, <1>6 DEF DecryptInv

\* Decryption makes the next block of encryption once more.
LEMMA BlockDecrypt ==
  ASSUME IInv, NEW w, BlockDone("decrypt", w)
  PROVE  DecryptInv'
<1> DEFINE n == count["decrypt"] + 1
<1>1. /\ TypeInv /\ PlaceInv /\ BlocksInv /\ EncryptInv /\ DecryptInv
      /\ UNCHANGED <<setup, nonce, packets, count, base, len, pc, begun>>
      /\ "encrypt" \in Roles /\ "decrypt" \in Roles
  BY Basics DEF IInv, BlockDone
<1>2. /\ UNCHANGED <<impl, shared>> /\ \A q : Nonce(q)' = Nonce(q)
      /\ \A m : SameStart(m)' = SameStart(m)
      /\ Made("encrypt")' = Made("encrypt")
      /\ Made("decrypt")' = Made("decrypt") \cup {w}
      /\ counter'["decrypt"] = Increment(counter["decrypt"])
  BY <1>1, BlockOthers
<1>3. /\ w.from = Len(text["decrypt"]) /\ w.call = n
      /\ w.value = counter["decrypt"] /\ w.from < w.to
      /\ w.to = IF w.from + BlockSize < base["decrypt"] + len["decrypt"]
                  THEN w.from + BlockSize
                  ELSE base["decrypt"] + len["decrypt"]
      /\ Len(text'["decrypt"]) = w.to /\ pc["decrypt"] = "loop"
      /\ i["decrypt"] < len["decrypt"]
      /\ base["decrypt"] + i'["decrypt"] = w.to /\ i'["decrypt"] \in Nat
      /\ w.from \in Nat /\ w.to \in Nat
  BY DEF BlockDone, Use
<1>4. /\ count["decrypt"] \in Nat /\ count["encrypt"] \in Nat
      /\ base["decrypt"] \in Nat /\ len["decrypt"] \in Nat
      /\ count["decrypt"] < count["encrypt"] /\ Len(packets) = count["encrypt"]
      /\ n \in 1..Len(packets)
      /\ base["decrypt"] + len["decrypt"] = packets[n]
  <2>1. /\ count["decrypt"] \in Nat /\ count["encrypt"] \in Nat
        /\ base["decrypt"] \in Nat /\ len["decrypt"] \in Nat
    BY <1>1, TypesOf
  <2>2. /\ count["decrypt"] < count["encrypt"]
        /\ Len(packets) = count["encrypt"]
        /\ base["decrypt"] + len["decrypt"] = packets[n]
    BY <1>1, <1>3 DEF PlaceInv
  <2>3. n \in 1..Len(packets)
    BY <2>1, <2>2
  <2>4. QED BY <2>1, <2>2, <2>3
<1>5. /\ \A m, p, c : MadeFor(m, p, c) <=> MadeFor(m, p, c)'
      /\ \A u : Encrypted(u) <=> Encrypted(u)'
      /\ \A u : Decrypted(u) => Decrypted(u)'
      /\ \A m : NonceAfter(m)' = NonceAfter(m)
  BY <1>1, <1>2 DEF MadeFor, Encrypted, Decrypted, NonceAfter
<1> HIDE DEF n
<1>6. ASSUME NEW v \in Made("encrypt")
      PROVE  /\ BlockOk("encrypt", v) /\ v.call \in Nat \ {0}
             /\ v.from \in Nat /\ v.to \in Nat /\ v.from < v.to
             /\ v.call <= Len(packets) => v.to <= packets[v.call]
  <2>1. BlockOk("encrypt", v)
    BY <1>1 DEF BlocksInv
  <2>2. v.call \in Nat \ {0} /\ v.from \in Nat /\ v.to \in Nat
    BY <1>1, MadeTypes
  <2>3. v.from < v.to
    BY <2>1 DEF BlockOk
  <2>4. ASSUME v.call <= Len(packets)
        PROVE  v.to <= packets[v.call]
    <3>1. End("encrypt", v.call) = packets[v.call]
      BY <2>4 DEF End
    <3>2. packets \in Seq(Nat) /\ BlockSize \in Nat
      BY <1>1, TypesOf, Basics
    <3>3. packets[v.call] \in Nat
      BY <2>2, <2>4, <3>2
    <3>4. v.to = IF v.from + BlockSize < packets[v.call]
                   THEN v.from + BlockSize ELSE packets[v.call]
      BY <2>1, <3>1 DEF BlockOk
    <3>5. QED BY <2>2, <3>2, <3>3, <3>4
  <2>5. QED BY <2>1, <2>2, <2>3, <2>4
<1>7. ASSUME SameStart(n)
      PROVE  \E v \in Made("encrypt") : Same(w, v)
  <2>1. PICK v \in Made("encrypt") :
          v.call = n /\ v.from = w.from /\ v.value = w.value
    BY <1>1, <1>3, <1>7 DEF DecryptInv, MadeFor, n
  <2>2. End("encrypt", v.call) = base["decrypt"] + len["decrypt"]
    BY <1>4, <2>1 DEF End
  <2>3. v.to = w.to
    BY <1>3, <1>6, <2>1, <2>2 DEF BlockOk
  <2>4. QED BY <1>3, <2>1, <2>3 DEF Same
<1>8. ASSUME NEW u \in Made("decrypt") \cup {w}, SameStart(u.call)
      PROVE  Encrypted(u)'
  BY <1>1, <1>3, <1>5, <1>7, <1>8 DEF DecryptInv, Encrypted
<1>9. ASSUME NEW v \in Made("encrypt"), SameStart(v.call), v.from < w.to
      PROVE  Decrypted(v)'
  <2>1. CASE v.from < w.from
    BY <1>1, <1>3, <1>5, <1>9, <2>1 DEF DecryptInv
  <2>2. CASE ~(v.from < w.from)
    <3>1. SameStart(n)
      <4>1. SUFFICES ASSUME ~SameStart(n) PROVE FALSE
        OBVIOUS
      <4>2. n \in Nat \ {0}
        BY <1>4
      <4>3. v.call < n /\ v.call \in Nat \ {0}
        BY <1>6, <1>9, <4>1, <4>2, SameBefore
      <4>4. v.call \in 1..count["decrypt"]
        BY <1>4, <4>3 DEF n
      <4>5. /\ packets[v.call] <= base["decrypt"]
            /\ base["decrypt"] <= Len(text["decrypt"])
        BY <1>1, <4>4, Behind
      <4>6. /\ v.to <= packets[v.call] /\ v.to \in Nat /\ v.from \in Nat
            /\ v.from < v.to /\ v.call \in 1..Len(packets)
        BY <1>4, <1>6, <4>4
      <4>7. packets[v.call] \in Nat
        BY <1>1, <4>6, TypesOf
      <4>8. QED BY <1>3, <1>4, <2>2, <4>5, <4>6, <4>7, SMTT(30)
    <3>2. PICK x \in Made("encrypt") : Same(w, x)
      BY <1>7, <3>1
    <3>3. x.from <= v.from /\ v.from < x.to
      BY <1>3, <1>6, <1>9, <2>2, <3>2 DEF Same
    <3>4. x = v
      BY <1>1, <3>3 DEF EncryptInv
    <3>5. QED BY <1>2, <3>2, <3>4 DEF Decrypted
  <2>3. QED BY <2>1, <2>2
<1>10. ASSUME SameStart(n)
       PROVE  IF i'["decrypt"] < len["decrypt"]
                THEN MadeFor(n, w.to, Increment(w.value))
                ELSE ~shared /\ (\A q \in Roles : impl[q] = "ni") =>
                       Increment(w.value) = NonceAfter(n)
  <2>1. PICK v \in Made("encrypt") : Same(w, v)
    BY <1>7, <1>10
  <2>2. /\ v.call = n /\ v.to = w.to /\ v.value = w.value
        /\ n <= count["encrypt"]
    BY <1>3, <1>4, <2>1 DEF Same
  <2>3. \/ MadeFor(n, w.to, Increment(w.value))
        \/ /\ w.to = packets[n]
           /\ ~shared /\ impl["encrypt"] = "ni" =>
                NonceAfter(n) = Increment(w.value)
    BY <1>1, <2>2 DEF EncryptInv, NextOk
  <2>4. CASE i'["decrypt"] < len["decrypt"]
    <3>1. w.to # packets[n]
      BY <1>3, <1>4, <2>4
    <3>2. QED BY <2>3, <2>4, <3>1
  <2>5. CASE ~(i'["decrypt"] < len["decrypt"])
    <3>1. w.to >= packets[n] /\ packets[n] \in Nat
      BY <1>3, <1>4, <2>5
    <3>2. ~MadeFor(n, w.to, Increment(w.value))
      <4>1. SUFFICES ASSUME NEW x \in Made("encrypt"),
                            x.call = n, x.from = w.to
                     PROVE  FALSE
        BY DEF MadeFor
      <4>2. x.from < x.to /\ x.to <= packets[n] /\ x.to \in Nat
        BY <1>4, <1>6, <4>1
      <4>3. QED BY <1>3, <3>1, <4>1, <4>2
    <3>3. QED BY <1>1, <2>3, <2>5, <3>2
  <2>6. QED BY <2>4, <2>5
<1>11. \A u \in Made("decrypt")' : SameStart(u.call)' => Encrypted(u)'
  BY <1>2, <1>8
<1>12. \A v \in Made("encrypt")' :
         SameStart(v.call)' /\ v.from < Len(text'["decrypt"]) => Decrypted(v)'
  BY <1>2, <1>3, <1>9
<1>13. ASSUME SameStart(n)
       PROVE  IF i'["decrypt"] < len["decrypt"]
                THEN \A p, c : p = w.to /\ c = counter'["decrypt"] =>
                       MadeFor(n, p, c)
                ELSE ~shared /\ (\A q \in Roles : impl[q] = "ni") =>
                       counter'["decrypt"] = NonceAfter(n)
  BY <1>2, <1>3, <1>10, <1>13
<1>14. QED BY <1>1, <1>2, <1>3, <1>5, <1>11, <1>12, <1>13
              DEF DecryptInv, n

\* The new block has the next counter, which is ahead of those before it.
LEMMA BlockFresh ==
  ASSUME IInv, NEW r \in Roles, NEW w, BlockDone(r, w)
  PROVE  FreshInv'
<1>0. PICK m \in Roles, l \in Nat : m = Nonce(r) /\ l = Len(used[m])
  <2>1. TypeInv /\ Nonce(r) \in Roles
    BY Basics DEF IInv
  <2>2. QED BY <2>1, TypesOf
<1>1. /\ TypeInv /\ PlaceInv /\ FreshInv
      /\ UNCHANGED <<setup, nonce, packets, count, base, len, pc, begun>>
      /\ pc[r] = "loop"
  BY DEF IInv, BlockDone
<1>2. /\ UNCHANGED <<impl, shared>> /\ \A q : Nonce(q)' = Nonce(q)
      /\ counter'[r] = Increment(counter[r])
      /\ \A q \in Roles : q # r => counter'[q] = counter[q]
  BY <1>1, BlockOthers
<1>3. /\ w.by = r /\ w.call = count[r] + 1 /\ w.value = counter[r]
      /\ w \in Use /\ used' = [used EXCEPT ![m] = Append(@, w)]
  BY <1>0 DEF BlockDone
<1>4. /\ used[m] \in Seq(Use) /\ l \in Nat
      /\ used'[m] = Append(used[m], w)
      /\ Len(used'[m]) = l + 1 /\ used'[m][l + 1] = w
      /\ \A a \in 1..l : used'[m][a] = used[m][a]
      /\ \A n \in Roles : n # m => used'[n] = used[n]
  <2>1. used[m] \in Seq(Use) /\ l \in Nat
    BY <1>0, <1>1, TypesOf
  <2>2. /\ used'[m] = Append(used[m], w)
        /\ \A n \in Roles : n # m => used'[n] = used[n]
    BY <1>1, <1>3 DEF TypeInv
  <2>3. QED BY <1>0, <1>3, <2>1, <2>2
<1>5. /\ counter[r] \in Counter /\ counter'[r] \in Counter
      /\ count[r] \in Nat /\ Len(begun[r]) = count[r] + 1
  BY <1>1, <1>2, TypesOf, NumberExists DEF PlaceInv, PlaceOf
<1>6. \A q \in Roles : Nonce(q) = m /\ pc[q] = "loop" => q = r
  <2>1. SUFFICES ASSUME NEW q \in Roles, Nonce(q) = m, pc[q] = "loop", q # r
                 PROVE  FALSE
    OBVIOUS
  <2>2. shared
    BY <1>0, <2>1 DEF Nonce
  <2>3. PICK x \in Roles : pc[x] = "idle"
    BY <1>1, <2>2 DEF PlaceInv
  <2>4. QED BY <1>1, <2>1, <2>3, Basics
<1>7. \A x : (Left(x)' <=> Left(x)) /\ \A q : InCall(x, q)' <=> InCall(x, q)
  BY <1>1, <1>2 DEF Left, InCall
<1>8. \A c, d, k : Ahead(c, d, k)' <=> Ahead(c, d, k)
  BY DEF Ahead, Number, Numbers
<1>9. ASSUME NEW n \in Roles, n # m, NEW a \in 1..Len(used[n])
      PROVE  FreshFrom(n, a)'
  <2>1. FreshFrom(n, a) /\ used'[n] = used[n]
    BY <1>1, <1>4, <1>9 DEF FreshInv
  <2>2. \A q \in Roles : Nonce(q) = n => counter'[q] = counter[q]
    BY <1>0, <1>2, <1>9
  <2>3. QED BY <1>1, <1>2, <1>7, <1>8, <2>1, <2>2 DEF FreshFrom
<1>10. ASSUME NEW a \in 1..l
       PROVE  FreshFrom(m, a)'
  <2> DEFINE x == used[m][a]
  <2>1. /\ x \in Use /\ x.by \in Roles /\ x.call \in Nat /\ x.value \in Counter
        /\ used'[m][a] = x
    BY <1>0, <1>1, <1>4, UsedTypes
  <2>2. FreshFrom(m, a)
    BY <1>0, <1>1 DEF FreshInv
  <2> HIDE DEF x
  <2>3. Nonce(x.by) = m /\ x.call <= Len(begun[x.by])
    BY <2>2 DEF FreshFrom, x
  <2>4. a \in Nat /\ l + 1 - a \in Nat /\ l + 1 + 1 - a \in Nat
    BY <1>4
  <2>5. Left(x) \/ InCall(x, r) => Ahead(x.value, counter[r], l + 1 - a)
    BY <1>0, <1>1, <2>2 DEF FreshFrom, x
  <2>6. impl[x.by] = "ni" \/ (x.by = r /\ x.call = w.call) =>
          Left(x) \/ InCall(x, r)
    <3>1. CASE x.by = r
      BY <1>3, <1>5, <2>1, <2>3, <3>1 DEF Left, InCall
    <3>2. CASE x.by # r
      <4>1. pc[x.by] = "idle"
        BY <1>1, <1>6, <2>1, <2>3, <3>2 DEF TypeInv
      <4>2. x.call <= count[x.by]
        BY <1>1, <2>1, <2>3, <4>1 DEF PlaceInv, PlaceOf
      <4>3. QED BY <3>2, <4>2 DEF Left
    <3>3. QED BY <3>1, <3>2
  <2>7. ASSUME NEW b \in a + 1..l + 1,
               impl[x.by] = "ni" \/
                 (x.by = used'[m][b].by /\ x.call = used'[m][b].call)
        PROVE  Ahead(x.value, used'[m][b].value, b - a)
    <3>1. CASE b = l + 1
      BY <1>3, <1>4, <2>5, <2>6, <2>7, <3>1
    <3>2. CASE b # l + 1
      <4>1. b \in a + 1..l /\ b \in 1..l
        BY <1>4, <2>4, <3>2
      <4>2. used'[m][b] = used[m][b]
        BY <1>4, <4>1
      <4>3. QED BY <1>0, <2>2, <2>7, <4>1, <4>2 DEF FreshFrom, x
    <3>3. QED BY <3>1, <3>2
  <2>8. Left(x) => Ahead(x.value, nonce[m], l + 1 + 1 - a)
    <3>1. Left(x) => Ahead(x.value, nonce[m], l + 1 - a)
      BY <1>0, <2>2 DEF FreshFrom, x
    <3>2. l + 1 - a <= l + 1 + 1 - a
      BY <1>0, <2>4
    <3>3. QED BY <2>4, <3>1, <3>2, AheadMore
  <2>9. ASSUME NEW q \in Roles, Nonce(q) = m, pc[q] = "loop",
               Left(x) \/ InCall(x, q)
        PROVE  Ahead(x.value, counter'[q], l + 1 + 1 - a)
    <3>1. q = r
      BY <1>6, <2>9
    <3>2. Ahead(x.value, counter[r], l + 1 - a)
      BY <2>5, <2>9, <3>1
    <3>3. Ahead(x.value, Increment(counter[r]), (l + 1 - a) + 1)
      BY <1>5, <2>1, <2>4, <3>2, AheadStep
    <3>4. (l + 1 - a) + 1 = l + 1 + 1 - a
      BY <1>4, <2>4
    <3>5. QED BY <1>2, <3>1, <3>3, <3>4
  <2>10. QED BY <1>1, <1>2, <1>4, <1>7, <1>8, <2>1, <2>3, <2>7, <2>8, <2>9
                DEF FreshFrom
<1>11. FreshFrom(m, l + 1)'
  <2>1. Nonce(w.by) = m /\ w.call <= Len(begun[w.by])
    BY <1>0, <1>3, <1>5
  <2>2. ~Left(w)
    BY <1>3, <1>5 DEF Left
  <2>3. l + 1 + 1 - (l + 1) = 1 /\ (l + 1) + 1..l + 1 = {}
    BY <1>4
  <2>4. ASSUME NEW q \in Roles, Nonce(q) = m, pc[q] = "loop",
               Left(w) \/ InCall(w, q)
        PROVE  Ahead(w.value, counter'[q], 1)
    <3>1. q = r
      BY <1>6, <2>4
    <3>2. QED BY <1>2, <1>3, <1>5, <3>1, AheadNext
  <2>5. QED BY <1>1, <1>2, <1>4, <1>7, <1>8, <2>1, <2>2, <2>3, <2>4
               DEF FreshFrom
<1>12. ASSUME NEW n \in Roles, NEW a \in 1..Len(used'[n])
       PROVE  FreshFrom(n, a)'
  <2>1. CASE n # m
    BY <1>4, <1>9, <2>1
  <2>2. CASE n = m
    <3>1. a \in 1..l \/ a = l + 1
      BY <1>4, <2>2
    <3>2. QED BY <1>10, <1>11, <2>2, <3>1
  <2>3. QED BY <2>1, <2>2
<1>13. QED BY <1>12 DEF FreshInv

\* A block leaves the invariant true.
LEMMA BlockInv ==
  ASSUME IInv, NEW r \in Roles, Block(r)
  PROVE  IInv'
<1>1. PICK w : BlockDone(r, w)
  BY BlockEffect
<1>2. GenericInv'
  <2>1. UNCHANGED <<impl, nonce, nonce0, begun>>
    BY <1>1, BlockOthers DEF IInv, BlockDone
  <2>2. QED BY <2>1 DEF IInv, GenericInv
<1>3. r = "encrypt" \/ r = "decrypt"
  BY Basics
<1>4. QED BY <1>1, <1>2, <1>3, BlockPlace, BlockBlocks, BlockEncrypt,
             BlockEncryptDecrypt, BlockDecrypt, BlockFresh DEF IInv

\* A call leaves the invariant true.
LEMMA CallInv ==
  ASSUME IInv, NEW r \in Roles, Call(r)
  PROVE  IInv'
BY CallPlace, CallBlocks, CallDecrypt, CallFresh DEF IInv

-----------------------------------------------------------------------------
(* A call returns.                                                         *)

\* What the step of r does to r, and what it leaves to the other caller.
LEMMA ReturnEffect ==
  ASSUME IInv, NEW r \in Roles, Return(r)
  PROVE  /\ UNCHANGED <<impl, shared, plain, nonce0>>
         /\ UNCHANGED <<text, len, i, counter, used, begun>>
         /\ \A q : Nonce(q)' = Nonce(q) /\ Made(q)' = Made(q)
         /\ \A n : SameStart(n)' = SameStart(n)
         /\ pc[r] = "loop" /\ pc'[r] = "idle" /\ i[r] = len[r]
         /\ count'[r] = count[r] + 1 /\ base'[r] = base[r] + len[r]
         /\ \A q \in Roles : q # r =>
              /\ count'[q] = count[q] /\ base'[q] = base[q]
              /\ pc'[q] = pc[q]
         /\ packets' = IF r = "encrypt" THEN Append(packets, base[r] + len[r])
                                        ELSE packets
         /\ impl[r] = "ni" => nonce'[Nonce(r)] = counter[r]
         /\ impl[r] = "generic" => nonce' = nonce
         /\ \A n \in Roles : n # Nonce(r) => nonce'[n] = nonce[n]
         /\ \A n \in 1..Len(packets) : packets'[n] = packets[n]
         /\ Len(packets) <= Len(packets') /\ Len(packets') \in Nat
<1>1. /\ TypeInv /\ UNCHANGED setup /\ Nonce(r) \in Roles
      /\ UNCHANGED <<text, len, i, counter, used, begun>>
  BY Basics DEF IInv, Return
<1>2. /\ UNCHANGED <<impl, shared, plain, nonce0>>
      /\ \A q : Nonce(q)' = Nonce(q) /\ Made(q)' = Made(q)
      /\ \A n : SameStart(n)' = SameStart(n)
  BY <1>1, SetupStays, MadeStays
<1>3. /\ pc[r] = "loop" /\ pc'[r] = "idle" /\ i[r] = len[r]
      /\ count'[r] = count[r] + 1 /\ base'[r] = base[r] + len[r]
      /\ \A q \in Roles : q # r =>
           /\ count'[q] = count[q] /\ base'[q] = base[q]
           /\ pc'[q] = pc[q]
  BY <1>1 DEF Return, TypeInv
<1>4. /\ impl[r] = "ni" => nonce'[Nonce(r)] = counter[r]
      /\ impl[r] = "generic" => nonce' = nonce
      /\ \A n \in Roles : n # Nonce(r) => nonce'[n] = nonce[n]
  BY <1>1 DEF Return, TypeInv
<1>5. packets' = IF r = "encrypt" THEN Append(packets, base[r] + len[r])
                                  ELSE packets
  BY DEF Return
<1>6. /\ \A n \in 1..Len(packets) : packets'[n] = packets[n]
      /\ Len(packets) <= Len(packets') /\ Len(packets') \in Nat
  <2>1. packets \in Seq(Nat) /\ Len(packets) \in Nat
    BY <1>1, TypesOf
  <2>2. QED BY <1>5, <2>1
<1>7. QED BY <1>1, <1>2, <1>3, <1>4, <1>5, <1>6

\* The types, and where the callers are.
LEMMA ReturnPlace ==
  ASSUME IInv, NEW r \in Roles, Return(r)
  PROVE  TypeInv' /\ PlaceInv'
<1>1. /\ TypeInv /\ PlaceInv /\ "encrypt" \in Roles /\ "decrypt" \in Roles
      /\ \A q \in Roles : PlaceOf(q)
  BY Basics DEF IInv, PlaceInv
<1>2. /\ count[r] \in Nat /\ base[r] \in Nat /\ len[r] \in Nat
      /\ counter[r] \in Counter /\ packets \in Seq(Nat)
      /\ Len(packets) \in Nat
  BY <1>1, TypesOf
<1>3. TypeInv'
  <2>1. /\ count' \in [Roles -> Nat] /\ base' \in [Roles -> Nat]
        /\ pc' \in [Roles -> {"idle", "loop"}]
    <3>1. /\ count' = [count EXCEPT ![r] = @ + 1]
          /\ base' = [base EXCEPT ![r] = @ + len[r]]
          /\ pc' = [pc EXCEPT ![r] = "idle"]
      BY DEF Return
    <3>2. count[r] + 1 \in Nat /\ base[r] + len[r] \in Nat
      BY <1>2
    <3>3. QED BY <1>1, <3>1, <3>2 DEF TypeInv
  <2>4. nonce' \in [Roles -> Counter]
    <3>1. nonce' = [nonce EXCEPT ![Nonce(r)] = counter[r]] \/ nonce' = nonce
      BY DEF Return
    <3>2. nonce \in [Roles -> Counter]
      BY <1>1 DEF TypeInv
    <3>3. QED BY <1>2, <3>1, <3>2
  <2>2. packets' \in Seq(Nat)
    BY <1>2 DEF Return
  <2>3. /\ UNCHANGED <<impl, shared, plain, nonce0>>
        /\ UNCHANGED <<text, len, i, counter, used, begun>>
    BY ReturnEffect
  <2>5. QED BY <1>1, <2>1, <2>2, <2>3, <2>4 DEF TypeInv
<1>4. Len(packets) = count["encrypt"] /\ count["decrypt"] <= count["encrypt"]
  BY <1>1 DEF PlaceInv
<1>5. /\ count["encrypt"] \in Nat /\ count["decrypt"] \in Nat
      /\ base["encrypt"] \in Nat /\ base["decrypt"] \in Nat
      /\ len["decrypt"] \in Nat
  BY <1>1, TypesOf
<1>6. \A n \in 0..Len(packets) : Start(n)' = Start(n)
  BY <1>2, ReturnEffect DEF Start
<1>7. ASSUME NEW n, n = count[r] + 1
      PROVE  /\ Start(n)' = base[r] + len[r] /\ n \in Nat \ {0}
             /\ r = "encrypt" => n = Len(packets) + 1 /\ Len(packets') = n
             /\ r = "decrypt" => n \in 1..Len(packets)
  <2>1. CASE r = "encrypt"
    <3>1. packets' = Append(packets, base[r] + len[r]) /\ n = Len(packets) + 1
      BY <1>4, <1>7, <2>1, ReturnEffect
    <3>2. packets'[n] = base[r] + len[r] /\ n # 0 /\ Len(packets') = n
      BY <1>2, <3>1
    <3>3. QED BY <1>2, <1>7, <2>1, <3>1, <3>2 DEF Start
  <2>2. CASE r = "decrypt"
    <3>1. /\ count[r] < count["encrypt"]
          /\ base[r] + len[r] = packets[n]
      BY <1>1, <1>7, <2>2, ReturnEffect DEF PlaceInv
    <3>2. n \in 1..Len(packets) /\ n \in 0..Len(packets)
      BY <1>2, <1>4, <1>5, <1>7, <2>2, <3>1
    <3>3. QED BY <1>2, <1>6, <2>2, <3>1, <3>2 DEF Start
  <2>3. QED BY <2>1, <2>2, Basics
<1>8. ASSUME NEW q \in Roles
      PROVE  PlaceOf(q)'
  <2>1. CASE q = r
    <3>1. PICK n : n = count[r] + 1
      OBVIOUS
    <3>2. /\ pc'[r] = "idle" /\ count'[r] = n /\ base'[r] = base[r] + len[r]
          /\ text' = text /\ begun' = begun
      BY <3>1, ReturnEffect
    <3>3. Len(text[r]) = base[r] + len[r] /\ Len(begun[r]) = n
      BY <1>1, <3>1, ReturnEffect DEF PlaceOf
    <3>4. Start(n)' = base[r] + len[r]
      BY <1>7, <3>1
    <3>5. base'[r] = Start(count[r])'
      BY <3>2, <3>4 DEF Start
    <3>6. QED BY <2>1, <3>2, <3>3, <3>5 DEF PlaceOf
  <2>2. CASE q # r
    <3>1. /\ pc'[q] = pc[q] /\ count'[q] = count[q] /\ base'[q] = base[q]
          /\ text' = text /\ begun' = begun /\ i' = i /\ len' = len
          /\ plain' = plain
      BY <2>2, ReturnEffect
    <3>2. PICK n : n = count[q]
      OBVIOUS
    <3>3. n \in 0..Len(packets)
      BY <1>4, <1>5, <3>2, Basics
    <3>4. Start(n)' = Start(n)
      BY <1>6, <3>3
    <3>5. Start(count[q])' = Start(count[q])
      BY <3>1, <3>2, <3>4 DEF Start
    <3>6. PlaceOf(q)
      BY <1>1
    <3>7. QED BY <3>1, <3>5, <3>6 DEF PlaceOf
  <2>3. QED BY <2>1, <2>2
<1>9. PICK m : m = count[r] + 1
  OBVIOUS
<1>10. /\ Len(packets') = count'["encrypt"]
       /\ count'["decrypt"] <= count'["encrypt"]
  <2>1. CASE r = "encrypt"
    <3>1. Len(packets') = m /\ count'["encrypt"] = m
      BY <1>7, <1>9, <2>1, ReturnEffect
    <3>2. count'["decrypt"] = count["decrypt"]
      BY <1>1, <2>1, ReturnEffect
    <3>3. QED BY <1>4, <1>5, <1>9, <2>1, <3>1, <3>2
  <2>2. CASE r = "decrypt"
    <3>1. /\ count'["decrypt"] = m /\ m \in 1..Len(packets)
          /\ count'["encrypt"] = count["encrypt"] /\ packets' = packets
      BY <1>1, <1>7, <1>9, <2>2, ReturnEffect
    <3>2. QED BY <1>4, <3>1
  <2>3. QED BY <2>1, <2>2, Basics
<1>11. ASSUME NEW j \in 1..Len(packets'), NEW k \in 1..Len(packets'), j <= k
       PROVE  packets'[j] <= packets'[k]
  <2>1. CASE r = "decrypt"
    BY <1>1, <1>11, <2>1, ReturnEffect DEF PlaceInv
  <2>2. CASE r = "encrypt"
    <3>1. /\ packets' = Append(packets, base[r] + len[r])
          /\ Len(packets') = Len(packets) + 1
      BY <1>2, <2>2, ReturnEffect
    <3>2. CASE k \in 1..Len(packets)
      <4>1. j \in 1..Len(packets)
        BY <1>2, <1>11, <3>2
      <4>2. QED BY <1>1, <1>11, <3>2, <4>1, ReturnEffect DEF PlaceInv
    <3>3. CASE k \notin 1..Len(packets)
      <4>1. k = Len(packets) + 1 /\ packets'[k] = base[r] + len[r]
        BY <1>2, <3>1, <3>3
      <4>2. CASE j = k
        BY <1>2, <4>1, <4>2
      <4>3. CASE j # k
        <5>1. j \in 1..Len(packets) /\ packets'[j] = packets[j]
          BY <1>2, <1>11, <3>1, <4>1, <4>3, ReturnEffect
        <5>2. packets[j] <= base["encrypt"] /\ packets[j] \in Nat
          BY <1>1, <1>2, <5>1, Behind, SMTT(30)
        <5>3. QED BY <1>2, <2>2, <4>1, <5>1, <5>2
      <4>4. QED BY <4>2, <4>3
    <3>4. QED BY <3>2, <3>3
  <2>3. QED BY <2>1, <2>2, Basics
<1>12. base'["encrypt"] <= Len(plain)
  <2>1. CASE r = "encrypt"
    BY <1>1, <2>1, ReturnEffect DEF PlaceOf
  <2>2. CASE r # "encrypt"
    BY <1>1, <2>2, ReturnEffect DEF PlaceInv
  <2>3. QED BY <2>1, <2>2
<1>13. pc'["decrypt"] = "loop" =>
         /\ count'["decrypt"] < count'["encrypt"]
         /\ \A n : n = count'["decrypt"] + 1 =>
              base'["decrypt"] + len'["decrypt"] = packets'[n]
  <2>1. SUFFICES ASSUME pc'["decrypt"] = "loop", NEW n,
                        n = count'["decrypt"] + 1
                 PROVE  /\ count'["decrypt"] < count'["encrypt"]
                        /\ base'["decrypt"] + len'["decrypt"] = packets'[n]
    OBVIOUS
  <2>2. r = "encrypt"
    BY <2>1, Basics, ReturnEffect
  <2>3. /\ pc["decrypt"] = "loop" /\ count'["decrypt"] = count["decrypt"]
        /\ base'["decrypt"] = base["decrypt"] /\ len' = len
        /\ count'["encrypt"] = count["encrypt"] + 1
    BY <1>1, <2>1, <2>2, ReturnEffect
  <2>4. /\ count["decrypt"] < count["encrypt"]
        /\ base["decrypt"] + len["decrypt"] = packets[n]
    BY <1>1, <2>1, <2>3 DEF PlaceInv
  <2>5. n \in 1..Len(packets)
    BY <1>4, <1>5, <2>1, <2>3, <2>4
  <2>6. QED BY <1>5, <2>3, <2>4, <2>5, ReturnEffect
<1>14. shared => \E q \in Roles : pc'[q] = "idle"
  BY ReturnEffect
<1>15. PlaceInv'
  BY <1>8, <1>10, <1>11, <1>12, <1>13, <1>14, ReturnEffect DEF PlaceInv
<1>16. QED BY <1>3, <1>15

\* What is said of the blocks.
LEMMA ReturnBlocks ==
  ASSUME IInv, NEW r \in Roles, Return(r)
  PROVE  BlocksInv' /\ GenericInv'
<1>1. TypeInv /\ PlaceInv
  BY DEF IInv
<1>2. ASSUME NEW q \in Roles, NEW n \in 1..Len(begun[q])
      PROVE  End(q, n)' = End(q, n)
  <2>0. /\ Len(packets) \in Nat /\ Len(begun[q]) \in Nat
        /\ Len(packets) = count["encrypt"]
    BY <1>1, TypesOf DEF PlaceInv
  <2>1. CASE n <= Len(packets)
    <3>1. n \in 1..Len(packets) /\ n <= Len(packets')
      BY <1>2, <2>0, <2>1, ReturnEffect
    <3>2. QED BY <2>1, <3>1, ReturnEffect DEF End
  <2>2. CASE ~(n <= Len(packets))
    <3>1. q = "encrypt"
      BY <1>1, <2>0, <2>2, Basics, Behind
    <3>2. CASE r = "encrypt"
      <4>1. /\ Len(begun[r]) = count[r] + 1 /\ n = Len(packets) + 1
        BY <1>1, <2>0, <2>2, <3>1, <3>2, ReturnEffect DEF PlaceInv, PlaceOf
      <4>2. packets' = Append(packets, base[r] + len[r])
        BY <3>2, ReturnEffect
      <4>3. packets'[n] = base[r] + len[r] /\ n <= Len(packets')
        BY <1>1, <4>1, <4>2, TypesOf
      <4>4. QED BY <2>2, <3>1, <3>2, <4>3 DEF End
    <3>3. CASE r # "encrypt"
      BY <3>1, <3>3, ReturnEffect DEF End
    <3>4. QED BY <3>2, <3>3
  <2>3. QED BY <2>1, <2>2
<1>3. BlocksInv'
  <2>1. /\ UNCHANGED <<impl, shared, plain, text, used, begun>>
        /\ \A q \in Roles : Len(begun[q]) <= Len(begun[q]')
    BY <1>1, TypesOf, ReturnEffect
  <2>2. QED BY <1>2, <2>1, BlocksStay DEF BlocksInv
<1>4. GenericInv'
  <2>1. (\A q \in Roles : impl[q] = "generic") => nonce' = nonce
    BY ReturnEffect
  <2>2. UNCHANGED <<impl, nonce0, begun>> /\ GenericInv
    BY ReturnEffect DEF IInv
  <2>3. QED BY <2>1, <2>2 DEF GenericInv
<1>5. QED BY <1>3, <1>4

\* What is said of encryption: its last block is the end of a call, and an
\* AES-NI build leaves the counter after it.
LEMMA ReturnEncrypt ==
  ASSUME IInv, NEW r \in Roles, Return(r)
  PROVE  EncryptInv'
<1>1. /\ TypeInv /\ PlaceInv /\ BlocksInv /\ EncryptInv /\ UNCHANGED setup
      /\ "encrypt" \in Roles /\ "decrypt" \in Roles
  BY Basics DEF IInv, Return
<1>2. CASE r # "encrypt"
  <2>1. /\ UNCHANGED <<packets, text, begun, counter, i>> /\ r = "decrypt"
        /\ Made("encrypt")' = Made("encrypt")
        /\ count'["encrypt"] = count["encrypt"]
        /\ pc'["encrypt"] = pc["encrypt"]
    BY <1>1, <1>2, Basics, ReturnEffect
  <2>2. ~shared => nonce'["encrypt"] = nonce["encrypt"]
    BY <1>1, <2>1, ReturnEffect DEF Nonce
  <2>3. QED BY <1>1, <2>1, <2>2, EncryptStays
<1>3. CASE r = "encrypt"
  <2>1. PICK m : m = count["encrypt"] + 1
    OBVIOUS
  <2>2. /\ count["encrypt"] \in Nat /\ base["encrypt"] \in Nat
        /\ len["encrypt"] \in Nat /\ i["encrypt"] \in Nat
        /\ packets \in Seq(Nat) /\ Len(packets) = count["encrypt"]
        /\ begun["encrypt"] \in Seq(Counter)
    BY <1>1, TypesOf DEF PlaceInv
  <2>3. /\ UNCHANGED <<impl, shared, text, i, counter, begun>>
        /\ Made("encrypt")' = Made("encrypt")
        /\ pc["encrypt"] = "loop" /\ pc'["encrypt"] = "idle"
        /\ count'["encrypt"] = m
        /\ packets' = Append(packets, base["encrypt"] + len["encrypt"])
        /\ i["encrypt"] = len["encrypt"]
        /\ \A n \in 1..Len(packets) : packets'[n] = packets[n]
        /\ Nonce("encrypt")' = Nonce("encrypt")
        /\ impl["encrypt"] = "ni" =>
             nonce'[Nonce("encrypt")] = counter["encrypt"]
    BY <1>3, <2>1, ReturnEffect
  <2>4. /\ packets'[m] = base["encrypt"] + len["encrypt"]
        /\ packets'[m] = Len(text["encrypt"])
        /\ Len(begun["encrypt"]) = m /\ len["encrypt"] > 0
    BY <1>1, <2>1, <2>2, <2>3 DEF PlaceInv, PlaceOf
  <2>5. \A n, p, c : MadeFor(n, p, c)' <=> MadeFor(n, p, c)
    BY <2>3 DEF MadeFor
  <2>6. /\ \A n \in 1..count["encrypt"] : NonceAfter(n)' = NonceAfter(n)
        /\ impl["encrypt"] = "ni" => NonceAfter(m)' = counter["encrypt"]
    <3>1. \A n \in 1..count["encrypt"] : n < m
      BY <2>1, <2>2
    <3>2. ~(m < m)
      BY <2>1, <2>2
    <3>3. QED BY <2>3, <2>4, <3>1, <3>2 DEF NonceAfter
  <2>7. ASSUME NEW u \in Made("encrypt")
        PROVE  NextOk(u)'
    <3>1. NextOk(u) /\ BlockOk("encrypt", u) /\ u.call \in Nat \ {0}
      BY <1>1, MadeTypes DEF EncryptInv, BlocksInv
    <3>2. u.call <= m
      BY <2>4, <3>1 DEF BlockOk
    <3>3. ~(u.call = m + 1)
      BY <2>1, <2>2, <3>1, <3>2
    <3>4. CASE u.call <= count["encrypt"]
      <4>1. /\ packets'[u.call] = packets[u.call]
            /\ NonceAfter(u.call)' = NonceAfter(u.call)
        BY <2>2, <2>3, <2>6, <3>1, <3>4
      <4>2. QED BY <2>3, <2>5, <3>1, <3>3, <3>4, <4>1 DEF NextOk
    <3>5. CASE u.call = m
      <4>1. CASE MadeFor(u.call, u.to, Increment(u.value))
        BY <2>3, <2>5, <3>3, <4>1 DEF NextOk
      <4>2. CASE /\ u.to = Len(text["encrypt"])
                 /\ counter["encrypt"] = Increment(u.value)
        <5>1. /\ u.to = packets'[u.call]
              /\ impl["encrypt"] = "ni" =>
                   NonceAfter(u.call)' = Increment(u.value)
          BY <2>4, <2>6, <3>5, <4>2
        <5>2. QED BY <2>3, <3>3, <5>1 DEF NextOk
      <4>3. QED BY <2>1, <3>1, <3>5, <4>1, <4>2 DEF NextOk
    <3>6. QED BY <2>1, <2>2, <3>1, <3>2, <3>4, <3>5
  <2>8. ASSUME NEW n \in 1..m
        PROVE  FirstOk(n)'
    <3>1. FirstOk(n)
      <4>1. CASE n \in 1..count["encrypt"]
        BY <1>1, <4>1 DEF EncryptInv
      <4>2. CASE n = m
        <5>1. i["encrypt"] # 0
          BY <2>2, <2>3, <2>4
        <5>2. QED BY <1>1, <2>1, <2>3, <4>2, <5>1 DEF EncryptInv
      <4>3. QED BY <2>1, <2>2, <4>1, <4>2
    <3>2. n - 1 = 0 \/ n - 1 \in 1..Len(packets)
      BY <2>1, <2>2
    <3>3. Start(n - 1)' = Start(n - 1)
      BY <2>3, <3>2 DEF Start
    <3>4. QED BY <2>3, <2>5, <3>1, <3>3 DEF FirstOk
  <2>9. QED BY <1>1, <2>3, <2>7, <2>8 DEF EncryptInv
<1>4. QED BY <1>2, <1>3

\* What is said of decryption.
LEMMA ReturnDecrypt ==
  ASSUME IInv, NEW r \in Roles, Return(r)
  PROVE  DecryptInv'
<1>1. /\ TypeInv /\ PlaceInv /\ DecryptInv
      /\ "encrypt" \in Roles /\ "decrypt" \in Roles
  BY Basics DEF IInv
<1>2. /\ count["decrypt"] \in Nat /\ count["encrypt"] \in Nat
      /\ count["decrypt"] <= count["encrypt"]
      /\ Len(begun["encrypt"]) \in Nat
      /\ count["encrypt"] <= Len(begun["encrypt"])
  BY <1>1, TypesOf, Behind
<1>3. /\ UNCHANGED <<impl, shared, text, len, i, counter, begun>>
      /\ \A q : Nonce(q)' = Nonce(q) /\ Made(q)' = Made(q)
      /\ \A n : SameStart(n)' = SameStart(n)
  BY ReturnEffect
<1>4. /\ \A n, p, c : MadeFor(n, p, c)' <=> MadeFor(n, p, c)
      /\ \A u : (Encrypted(u)' <=> Encrypted(u))
      /\ \A u : (Decrypted(u)' <=> Decrypted(u))
  BY <1>3 DEF MadeFor, Encrypted, Decrypted
<1>5. \A q \in Roles : impl[q] \in {"generic", "ni"}
  BY <1>1 DEF TypeInv
<1>6. ASSUME NEW n, n < Len(begun["encrypt"])
      PROVE  NonceAfter(n)' = NonceAfter(n)
  BY <1>3, <1>6 DEF NonceAfter
<1>7. CASE r = "encrypt"
  <2>1. /\ count'["decrypt"] = count["decrypt"]
        /\ pc'["decrypt"] = pc["decrypt"] /\ pc["encrypt"] = "loop"
    BY <1>1, <1>7, ReturnEffect
  <2>2. Len(begun["encrypt"]) = count["encrypt"] + 1
    BY <1>1, <2>1 DEF PlaceInv, PlaceOf
  <2>3. NonceAfter(count["decrypt"])' = NonceAfter(count["decrypt"])
    <3>1. PICK n : n = count["decrypt"]
      OBVIOUS
    <3>2. NonceAfter(n)' = NonceAfter(n)
      BY <1>2, <1>6, <2>2, <3>1
    <3>3. NonceAfter(count["decrypt"])' = NonceAfter(n)'
      BY <2>1, <3>1 DEF NonceAfter
    <3>4. QED BY <3>1, <3>2, <3>3
  <2>4. ASSUME pc["decrypt"] = "loop"
        PROVE  NonceAfter(count["decrypt"] + 1)' =
                 NonceAfter(count["decrypt"] + 1)
    <3>1. PICK n : n = count["decrypt"] + 1
      OBVIOUS
    <3>2. n < Len(begun["encrypt"])
      BY <1>1, <1>2, <2>2, <2>4, <3>1 DEF PlaceInv
    <3>3. NonceAfter(n)' = NonceAfter(n)
      BY <1>6, <3>2
    <3>4. NonceAfter(count["decrypt"] + 1)' = NonceAfter(n)'
      BY <2>1, <3>1 DEF NonceAfter
    <3>5. QED BY <3>1, <3>3, <3>4
  <2>5. ASSUME SameStart(count["decrypt"] + 1)
        PROVE  nonce'[Nonce("decrypt")] = nonce[Nonce("decrypt")]
    <3>1. CASE \A q \in Roles : impl[q] = "generic"
      BY <1>7, <3>1, ReturnEffect
    <3>2. CASE ~shared
      BY <1>1, <1>7, <3>2, ReturnEffect DEF Nonce
    <3>3. QED BY <2>5, <3>1, <3>2 DEF SameStart
  <2>6. MadeFor(count["decrypt"] + 1, Len(text["decrypt"]),
                counter["decrypt"])' <=>
        MadeFor(count["decrypt"] + 1, Len(text["decrypt"]),
                counter["decrypt"])
    BY <1>3, <2>1 DEF MadeFor
  <2>7. SameStart(count["decrypt"] + 1)' <=> SameStart(count["decrypt"] + 1)
    BY <1>3, <2>1 DEF SameStart
  <2>8. QED BY <1>1, <1>3, <1>4, <2>1, <2>3, <2>4, <2>5, <2>6, <2>7
               DEF DecryptInv
<1>8. CASE r = "decrypt"
  <2>1. PICK n : n = count["decrypt"] + 1
    OBVIOUS
  <2>2. /\ count'["decrypt"] = n /\ pc["decrypt"] = "loop"
        /\ pc'["decrypt"] = "idle" /\ i["decrypt"] = len["decrypt"]
        /\ len["decrypt"] \in Nat
        /\ impl["decrypt"] = "ni" =>
             nonce'[Nonce("decrypt")] = counter["decrypt"]
        /\ \A q \in Roles : q # Nonce("decrypt") => nonce'[q] = nonce[q]
    BY <1>1, <1>8, <2>1, TypesOf, ReturnEffect
  <2>3. ASSUME SameStart(n + 1)
        PROVE  nonce'[Nonce("decrypt")] = NonceAfter(n)'
    <3>1. CASE \A q \in Roles : impl[q] = "generic"
      <4>1. /\ \A q \in Roles : nonce'[q] = nonce0
            /\ \A q \in Roles : \A k \in 1..Len(begun[q]) :
                 begun[q][k] = nonce0
        BY <1>8, <3>1, ReturnEffect DEF IInv, GenericInv
      <4>2. NonceAfter(n)' = nonce0
        <5>1. CASE n < Len(begun["encrypt"])
          <6>1. n + 1 \in 1..Len(begun["encrypt"])
            BY <1>2, <2>1, <5>1
          <6>2. QED BY <1>1, <1>3, <4>1, <5>1, <6>1 DEF NonceAfter
        <5>2. CASE ~(n < Len(begun["encrypt"]))
          BY <1>1, <1>3, <4>1, <5>2, Basics DEF NonceAfter
        <5>3. QED BY <5>1, <5>2
      <4>3. QED BY <1>1, <4>1, <4>2, Basics
    <3>2. CASE ~(\A q \in Roles : impl[q] = "generic")
      <4>1. /\ ~shared /\ impl["encrypt"] = impl["decrypt"]
            /\ n + 1 # 1
        BY <1>2, <2>1, <2>3, <3>2 DEF SameStart
      <4>2. \A q \in Roles : impl[q] = "ni"
        BY <1>1, <1>5, <3>2, <4>1, Basics
      <4>3. SameStart(n) /\ ~(i["decrypt"] < len["decrypt"])
        BY <2>2, <4>1 DEF SameStart
      <4>4. counter["decrypt"] = NonceAfter(n)
        BY <1>1, <2>1, <2>2, <4>1, <4>2, <4>3 DEF DecryptInv
      <4>5. nonce'["encrypt"] = nonce["encrypt"]
        BY <1>1, <2>2, <4>1 DEF Nonce
      <4>6. NonceAfter(n)' = NonceAfter(n)
        BY <1>3, <4>1, <4>5 DEF NonceAfter, Nonce
      <4>7. QED BY <1>1, <2>2, <4>2, <4>4, <4>6
    <3>3. QED BY <3>1, <3>2
  <2>4. NonceAfter(count["decrypt"])' = NonceAfter(n)'
    BY <2>2 DEF NonceAfter
  <2>5. SameStart(count["decrypt"] + 1)' <=> SameStart(n + 1)
    BY <1>3, <2>2 DEF SameStart
  <2>6. QED BY <1>1, <1>3, <1>4, <2>2, <2>3, <2>4, <2>5 DEF DecryptInv
<1>9. QED BY <1>7, <1>8, Basics

\* What is said of the counters: those of the call are now before the nonce.
LEMMA ReturnFresh ==
  ASSUME IInv, NEW r \in Roles, Return(r)
  PROVE  FreshInv'
<1>1. TypeInv /\ PlaceInv /\ FreshInv
  BY DEF IInv
<1>2. /\ UNCHANGED <<impl, shared, counter, used, begun>>
      /\ \A q : Nonce(q)' = Nonce(q)
      /\ pc[r] = "loop" /\ pc'[r] = "idle" /\ count'[r] = count[r] + 1
      /\ \A q \in Roles : q # r => count'[q] = count[q] /\ pc'[q] = pc[q]
      /\ count[r] \in Nat
  BY <1>1, TypesOf, ReturnEffect
<1>3. \A c, d, k : Ahead(c, d, k)' <=> Ahead(c, d, k)
  BY DEF Ahead, Number, Numbers
<1>4. ASSUME NEW n \in Roles, NEW a \in 1..Len(used[n])
      PROVE  FreshFrom(n, a)'
  <2> DEFINE x == used[n][a]
             k == Len(used[n]) + 1 - a
  <2>1. /\ x.by \in Roles /\ x.call \in Nat /\ x' = x /\ k' = k
    BY <1>1, <1>2, UsedTypes
  <2>2. FreshFrom(n, a)
    BY <1>1 DEF FreshInv
  <2> HIDE DEF x, k
  <2>3. Nonce(x.by) = n
    BY <2>2 DEF FreshFrom, x
  <2>4. ASSUME NEW y, y = x, Left(y)'
        PROVE  Left(x) \/ (InCall(x, r) /\ impl[r] = "ni" /\ n = Nonce(r))
    <3>1. CASE x.by = r
      <4>1. impl[r] = "ni" /\ x.call <= count[r] + 1
        BY <1>2, <2>4, <3>1 DEF Left
      <4>2. CASE x.call = count[r] + 1
        BY <2>3, <3>1, <4>1, <4>2 DEF InCall
      <4>3. CASE x.call # count[r] + 1
        BY <1>2, <2>1, <3>1, <4>1, <4>3 DEF Left
      <4>4. QED BY <4>2, <4>3
    <3>2. CASE x.by # r
      BY <1>2, <2>1, <2>4, <3>2 DEF Left
    <3>3. QED BY <3>1, <3>2
  <2>5. ASSUME NEW y, y = x, Left(y)'
        PROVE  Ahead(x.value, nonce'[n], k)
    <3>1. Left(x) \/ InCall(x, r)
      BY <2>4, <2>5
    <3>2. CASE n = Nonce(r) /\ impl[r] = "ni"
      <4>1. nonce'[n] = counter[r]
        BY <3>2, ReturnEffect
      <4>2. QED BY <1>2, <2>2, <3>1, <3>2, <4>1 DEF FreshFrom, x, k
    <3>3. CASE ~(n = Nonce(r) /\ impl[r] = "ni")
      <4>1. Left(x)
        BY <2>4, <2>5, <3>3
      <4>2. nonce'[n] = nonce[n]
        BY <1>1, <3>3, ReturnEffect DEF TypeInv
      <4>3. QED BY <2>2, <4>1, <4>2 DEF FreshFrom, x, k
    <3>4. QED BY <3>2, <3>3
  <2>6. ASSUME NEW y, y = x, NEW q \in Roles, Nonce(q) = n, pc'[q] = "loop",
               Left(y)' \/ InCall(y, q)'
        PROVE  Ahead(x.value, counter[q], k)
    <3>1. q # r /\ pc[q] = "loop"
      BY <1>2, <2>6
    <3>2. n # Nonce(r)
      <4>1. SUFFICES ASSUME Nonce(q) = Nonce(r) PROVE FALSE
        BY <2>6
      <4>2. shared
        BY <3>1, <4>1 DEF Nonce
      <4>3. PICK z \in Roles : pc[z] = "idle"
        BY <1>1, <4>2 DEF PlaceInv
      <4>4. QED BY <1>2, <3>1, <4>3, Basics
    <3>3. Left(x) \/ InCall(x, q)
      <4>1. CASE Left(y)'
        BY <2>4, <2>6, <3>2, <4>1
      <4>2. CASE InCall(y, q)'
        BY <1>2, <2>6, <3>1, <4>2 DEF InCall
      <4>3. QED BY <2>6, <4>1, <4>2
    <3>4. QED BY <2>2, <2>6, <3>1, <3>3 DEF FreshFrom, x, k
  <2>7. /\ Left(used[n][a])' => Ahead(x.value, nonce'[n], k)
        /\ \A q \in Roles :
             Nonce(q) = n /\ pc'[q] = "loop"
               /\ (Left(used[n][a])' \/ InCall(used[n][a], q)')
               => Ahead(x.value, counter[q], k)
    <3>1. PICK y : y = x
      OBVIOUS
    <3>2. /\ Left(used[n][a])' <=> Left(y)'
          /\ \A q : InCall(used[n][a], q)' <=> InCall(y, q)'
      BY <1>2, <3>1 DEF Left, InCall, x
    <3>3. QED BY <2>5, <2>6, <3>1, <3>2
  <2>8. QED BY <1>2, <1>3, <2>2, <2>7 DEF FreshFrom, x, k
<1>5. QED BY <1>2, <1>4 DEF FreshInv

\* A return leaves the invariant true.
LEMMA ReturnInv ==
  ASSUME IInv, NEW r \in Roles, Return(r)
  PROVE  IInv'
BY ReturnPlace, ReturnBlocks, ReturnEncrypt, ReturnDecrypt, ReturnFresh
   DEF IInv

-----------------------------------------------------------------------------
(* Theorems.                                                               *)

\* IInv is inductive.
LEMMA Inductive == IInv /\ [Next]_vars => IInv'
<1> SUFFICES ASSUME IInv, [Next]_vars PROVE IInv'
  OBVIOUS
<1>1. ASSUME NEW r \in Roles, Call(r) PROVE IInv'
  BY <1>1, CallInv
<1>2. ASSUME NEW r \in Roles, Block(r) PROVE IInv'
  BY <1>2, BlockInv
<1>3. ASSUME NEW r \in Roles, Return(r) PROVE IInv'
  BY <1>3, ReturnInv
<1>4. ASSUME UNCHANGED vars PROVE IInv'
  <2>1. /\ UNCHANGED <<impl, shared, plain, nonce0, text, nonce, packets>>
        /\ UNCHANGED <<count, base, len, i, counter, pc, used, begun>>
    BY <1>4 DEF vars, setup
  <2>2. /\ TypeInv' = TypeInv /\ PlaceInv' = PlaceInv
        /\ GenericInv' = GenericInv
    BY <2>1 DEF TypeInv, PlaceInv, PlaceOf, Start, GenericInv
  <2>3. /\ \A r : Made(r)' = Made(r) /\ Nonce(r)' = Nonce(r)
        /\ \A n : SameStart(n)' = SameStart(n)
        /\ \A n, p, c : MadeFor(n, p, c)' <=> MadeFor(n, p, c)
        /\ \A u : Encrypted(u)' <=> Encrypted(u)
        /\ \A u : Decrypted(u)' <=> Decrypted(u)
        /\ \A n : NonceAfter(n)' = NonceAfter(n)
    BY <2>1 DEF Made, Nonce, SameStart, MadeFor, Encrypted, Decrypted,
                NonceAfter
  <2>4. BlocksInv'
    BY <2>1, BlocksStay DEF BlocksInv, End
  <2>5. EncryptInv'
    BY <2>1, <2>3, EncryptStays DEF setup
  <2>6. DecryptInv'
    BY <2>1, <2>3 DEF DecryptInv, IInv
  <2>7. FreshInv'
    <3>1. /\ \A x : Left(x)' <=> Left(x)
          /\ \A x, r : InCall(x, r)' <=> InCall(x, r)
          /\ \A c, d, k : Ahead(c, d, k)' <=> Ahead(c, d, k)
      BY <2>1 DEF Left, InCall, Ahead, Number, Numbers
    <3>2. ASSUME NEW n \in Roles, NEW a \in 1..Len(used[n])
          PROVE  FreshFrom(n, a)'
      <4>1. FreshFrom(n, a)
        BY <3>2 DEF IInv, FreshInv
      <4>2. PICK x : x = used[n][a]
        OBVIOUS
      <4>3. used' = used /\ (\A r : Nonce(r)' = Nonce(r))
        BY <2>1, <2>3
      <4>4. /\ Left(used[n][a])' <=> Left(x)
            /\ \A r : InCall(used[n][a], r)' <=> InCall(x, r)
        BY <2>1, <4>2 DEF Left, InCall
      <4>5. QED BY <2>1, <3>1, <4>1, <4>2, <4>3, <4>4 DEF FreshFrom
    <3>3. QED BY <2>1, <3>2 DEF FreshInv
  <2>8. QED BY <2>2, <2>4, <2>5, <2>6, <2>7 DEF IInv
<1>5. QED BY <1>1, <1>2, <1>3, <1>4 DEF Next, Done

\* IInv holds in every state.
THEOREM Invariance == Spec => []IInv
<1>1. Init => IInv
  BY Initially
<1>2. IInv /\ [Next]_vars => IInv'
  BY Inductive
<1>3. QED BY <1>1, <1>2, PTL DEF Spec

\* KeyStreamFresh of AesCtr: no counter is enciphered twice from one nonce
\* array within a round of the counter, but by another call after one of the
\* generic build.
THEOREM KeyStreamIsFresh == Spec => []KeyStreamFresh
<1>1. IInv => KeyStreamFresh
  <2>1. SUFFICES ASSUME IInv, NEW n \in Roles,
                        NEW a \in 1..Len(used[n]), NEW b \in 1..Len(used[n]),
                        a < b, b - a < Period,
                        used[n][a].value = used[n][b].value,
                        impl[used[n][a].by] = "ni" \/
                          (used[n][a].by = used[n][b].by /\
                             used[n][a].call = used[n][b].call)
                 PROVE  FALSE
    <3>1. ASSUME NEW n \in Roles, NEW a \in 1..Len(used[n]), IInv
          PROVE  impl[used[n][a].by] \in {"generic", "ni"}
      <4>1. TypeInv
        BY <3>1 DEF IInv
      <4>2. QED BY <4>1, <3>1, UsedTypes DEF TypeInv
    <3>2. QED BY <3>1 DEF KeyStreamFresh, Period
  <2>2. TypeInv /\ FreshFrom(n, a)
    BY <2>1 DEF IInv, FreshInv
  <2>3. Len(used[n]) \in Nat /\ used[n][a].value \in Counter
    BY <2>2, UsedTypes, SMTT(30) DEF TypeInv
  <2>4. b \in a + 1..Len(used[n]) /\ b - a \in Nat
    BY <2>1, <2>3
  <2>5. Ahead(used[n][a].value, used[n][a].value, b - a)
    BY <2>1, <2>2, <2>4 DEF FreshFrom
  <2>6. QED BY <2>1, <2>3, <2>4, <2>5, AheadDiffers
<1>2. QED BY <1>1, Invariance, PTL

\* BuildsAgree of AesCtr: calls that start from the same nonce make the same
\* keystream for the same bytes, in both builds.
THEOREM BuildsAgreeCorrect == Spec => []BuildsAgree
<1>1. IInv => BuildsAgree
  <2>1. SUFFICES ASSUME IInv, NEW n \in 1..count["decrypt"], SameStart(n)
                 PROVE  CountersOf("encrypt", n) = CountersOf("decrypt", n)
    BY DEF BuildsAgree
  <2>2. /\ TypeInv /\ PlaceInv /\ BlocksInv /\ DecryptInv
        /\ "encrypt" \in Roles /\ "decrypt" \in Roles
    BY <2>1, Basics DEF IInv
  <2>3. ASSUME NEW u \in Made("decrypt"), u.call = n
        PROVE  Encrypted(u)
    BY <2>1, <2>2, <2>3 DEF DecryptInv
  <2>4. ASSUME NEW v \in Made("encrypt"), v.call = n
        PROVE  Decrypted(v)
    <3>1. /\ n \in 1..Len(packets) /\ packets[n] <= base["decrypt"]
          /\ base["decrypt"] <= Len(text["decrypt"])
          /\ count["decrypt"] \in Nat /\ Len(packets) = count["encrypt"]
      <4>1. /\ count["decrypt"] \in Nat /\ count["encrypt"] \in Nat
            /\ count["decrypt"] <= count["encrypt"]
            /\ Len(packets) = count["encrypt"]
        BY <2>2, TypesOf DEF PlaceInv
      <4>2. QED BY <2>1, <2>2, <4>1, Behind
    <3>2. BlockOk("encrypt", v) /\ End("encrypt", n) = packets[n]
      BY <2>2, <3>1 DEF BlocksInv, End
    <3>3. /\ v.from \in Nat /\ v.to \in Nat /\ packets[n] \in Nat
          /\ base["decrypt"] \in Nat /\ Len(text["decrypt"]) \in Nat
          /\ BlockSize \in Nat
      <4>1. v.from \in Nat /\ v.to \in Nat
        BY <2>2, MadeTypes
      <4>2. /\ packets \in Seq(Nat)
            /\ base["decrypt"] \in Nat /\ Len(text["decrypt"]) \in Nat
        BY <2>2, TypesOf
      <4>3. packets[n] \in Nat
        BY <3>1, <4>2
      <4>4. BlockSize \in Nat
        BY CtrAssumption
      <4>5. QED BY <4>1, <4>2, <4>3, <4>4
    <3>4. v.from < packets[n]
      BY <2>4, <3>2, <3>3 DEF BlockOk
    <3>5. v.from < Len(text["decrypt"])
      BY <3>1, <3>3, <3>4
    <3>6. QED BY <2>1, <2>2, <2>4, <3>5 DEF DecryptInv
  <2>5. QED BY <2>3, <2>4 DEF CountersOf, Encrypted, Decrypted, Same
<1>2. QED BY <1>1, Invariance, PTL

\* RoundTrip of AesCtr: decrypting the packets one by one restores the
\* message, as long as the calls start from the same nonce.
THEOREM RoundTripCorrect == Spec => []RoundTrip
<1>1. IInv => RoundTrip
  <2> DEFINE m == count["decrypt"] + (IF pc["decrypt"] = "idle" THEN 0 ELSE 1)
  <2>1. SUFFICES ASSUME IInv, NEW p \in 1..Len(text["decrypt"]), SameStart(m)
                 PROVE  text["decrypt"][p] = plain[p]
    BY DEF RoundTrip
  <2>2. /\ TypeInv /\ PlaceInv /\ BlocksInv /\ DecryptInv
        /\ "encrypt" \in Roles /\ "decrypt" \in Roles
    BY <2>1, Basics DEF IInv
  <2>3. PICK u \in Made("decrypt") : p \in u.from + 1..u.to
    BY <2>1, <2>2 DEF BlocksInv, Covered
  <2>4. /\ BlockOk("decrypt", u) /\ u.call \in Nat \ {0}
        /\ u.from \in Nat /\ u.to \in Nat /\ u.value \in Counter
    BY <2>2, MadeTypes DEF BlocksInv
  <2>5. SameStart(u.call)
    <3>1. Len(begun["decrypt"]) = m /\ m \in Nat
      BY <2>2, TypesOf DEF PlaceInv, PlaceOf
    <3>2. u.call <= m
      BY <2>4, <3>1 DEF BlockOk
    <3> HIDE DEF m
    <3>3. QED BY <2>1, <2>4, <3>1, <3>2, SameBefore
  <2>6. PICK v \in Made("encrypt") : Same(u, v)
    BY <2>2, <2>5 DEF DecryptInv, Encrypted
  <2>7. BlockOk("encrypt", v) /\ p \in v.from + 1..v.to
    BY <2>2, <2>3, <2>6 DEF BlocksInv, Same
  <2> DEFINE k == KeyStream(u.value)[p - u.from - 1]
  <2>8. text["decrypt"][p] = XorByte(text["encrypt"][p], k)
    BY <2>3, <2>4 DEF BlockOk, Input
  <2>9. text["encrypt"][p] = XorByte(plain[p], k)
    BY <2>6, <2>7 DEF BlockOk, Input, Same
  <2>10. k \in Byte
    <3>1. KeyStream(u.value) \in [Indices -> Byte] /\ BlockSize \in Nat
      BY <2>4, CtrAssumption
    <3>2. u.to <= u.from + BlockSize
      <4>1. End("decrypt", u.call) \in Nat
        <5>1. /\ packets \in Seq(Nat) /\ base["decrypt"] \in Nat
              /\ len["decrypt"] \in Nat
          BY <2>2, TypesOf
        <5>2. QED BY <2>4, <5>1 DEF End
      <4>2. QED BY <2>4, <3>1, <4>1 DEF BlockOk
    <3>3. p - u.from - 1 \in Indices
      BY <2>3, <2>4, <3>1, <3>2 DEF Indices
    <3>4. QED BY <3>1, <3>3
  <2>11. plain[p] \in Byte
    <3>1. /\ plain \in Seq(Byte) /\ Len(plain) \in Nat
          /\ Len(text["decrypt"]) \in Nat /\ base["encrypt"] \in Nat
          /\ Len(text["encrypt"]) \in Nat
      BY <2>2, TypesOf
    <3>2. Len(text["decrypt"]) <= Len(plain)
      BY <2>2, <3>1, Behind
    <3>3. p \in 1..Len(plain)
      BY <2>1, <3>1, <3>2
    <3>4. QED BY <3>1, <3>3
  <2>12. QED BY <2>8, <2>9, <2>10, <2>11, CtrAssumption
<1>2. QED BY <1>1, Invariance, PTL

-----------------------------------------------------------------------------
(* The keystream as the standard has it (NIST SP 800-38A, 6.5).            *)

\* The counter block n blocks after the one that starts with the nonce c.
CounterBlock(c, n) ==
  LET t[k \in Nat] == IF k = 0 THEN c ELSE Increment(t[k - 1])
  IN  t[n]

\* t has the first n of them.
Counts(t, n, c) ==
  /\ t \in [0..n -> Counter]
  /\ t[0] = c /\ \A k \in 1..n : t[k] = Increment(t[k - 1])

\* What passes from each number to the next holds up to a bound.
LEMMA UpTo ==
  ASSUME NEW n \in Nat, NEW P, 0 \in P, \A k \in 1..n : k - 1 \in P => k \in P
  PROVE  \A k \in 0..n : k \in P
<1> DEFINE T == {k \in 0..n : k \notin P}
<1>1. SUFFICES ASSUME T # {} PROVE FALSE
  OBVIOUS
<1>2. T \subseteq Nat
  OBVIOUS
<1>3. PICK x \in T : \A y \in T : x <= y
  <2> HIDE DEF T
  <2>1. QED BY <1>1, <1>2, Least
<1>4. x \in 1..n
  OBVIOUS
<1>5. x - 1 \in 0..n /\ x - 1 \notin T
  BY <1>3, <1>4
<1>6. QED BY <1>4, <1>5

\* One can count as far as one likes.
LEMMA CountsExist ==
  ASSUME NEW c \in Counter, NEW n \in Nat
  PROVE  \E t : Counts(t, n, c)
<1> DEFINE P == {m \in 0..n : \E t : Counts(t, m, c)}
<1>1. 0 \in P
  <2>1. Counts([k \in 0..0 |-> c], 0, c)
    BY DEF Counts
  <2>2. 0 \in 0..n
    OBVIOUS
  <2>3. QED BY <2>1, <2>2
<1>2. ASSUME NEW m \in 1..n, m - 1 \in P
      PROVE  m \in P
  <2>1. PICK t : Counts(t, m - 1, c)
    BY <1>2
  <2> DEFINE x == Increment(t[m - 1])
             v == [k \in 0..m |-> IF k = m THEN x ELSE t[k]]
  <2>2. m - 1 \in 0..m - 1 /\ t[m - 1] \in Counter
    BY <2>1 DEF Counts
  <2>3. x \in Counter
    BY <2>2, NumberExists
  <2> HIDE DEF x
  <2>4. v \in [0..m -> Counter]
    <3>1. \A k \in 0..m : k = m \/ k \in 0..m - 1
      OBVIOUS
    <3>2. QED BY <2>1, <2>3, <3>1 DEF Counts
  <2>5. v[0] = c
    BY <2>1 DEF Counts
  <2>6. ASSUME NEW k \in 1..m
        PROVE  v[k] = Increment(v[k - 1])
    <3>1. k - 1 \in 0..m - 1 /\ v[k - 1] = t[k - 1]
      OBVIOUS
    <3>2. CASE k = m
      BY <3>1, <3>2 DEF x
    <3>3. CASE k # m
      <4>1. k \in 1..m - 1 /\ v[k] = t[k]
        BY <3>3
      <4>2. QED BY <2>1, <3>1, <4>1 DEF Counts
    <3>4. QED BY <3>2, <3>3
  <2> HIDE DEF v
  <2>7. Counts(v, m, c)
    BY <2>4, <2>5, <2>6 DEF Counts
  <2>8. QED BY <2>7
<1>3. n \in P
  <2> HIDE DEF P
  <2>1. \A k \in 1..n : k - 1 \in P => k \in P
    BY <1>2
  <2>2. n \in 0..n
    OBVIOUS
  <2>3. QED BY <1>1, <2>1, <2>2, UpTo
<1>4. QED BY <1>3

\* Who counts farther counts the same up to there.
LEMMA CountsAgree ==
  ASSUME NEW c, NEW m \in Nat, NEW n \in Nat, m <= n,
         NEW t, NEW u, Counts(t, m, c), Counts(u, n, c)
  PROVE  t[m] = u[m]
<1> DEFINE P == {k \in 0..m : t[k] = u[k]}
<1>1. 0 \in P
  BY DEF Counts
<1>2. \A k \in 1..m : k - 1 \in P => k \in P
  BY DEF Counts
<1>3. m \in 0..m
  OBVIOUS
<1>4. m \in P
  <2> HIDE DEF P
  <2>1. QED BY <1>1, <1>2, <1>3, UpTo
<1>5. QED BY <1>4

\* The counter blocks follow one another.
LEMMA CounterBlocks ==
  ASSUME NEW c \in Counter
  PROVE  /\ CounterBlock(c, 0) = c
         /\ \A n \in Nat : /\ CounterBlock(c, n) \in Counter
                           /\ CounterBlock(c, n + 1) =
                                Increment(CounterBlock(c, n))
<1> DEFINE T(n) == CHOOSE t : Counts(t, n, c)
           v == [k \in Nat |-> T(k)[k]]
           All(t) == t = [k \in Nat |->
                            IF k = 0 THEN c ELSE Increment(t[k - 1])]
           f == CHOOSE t : All(t)
<1>1. \A n \in Nat : Counts(T(n), n, c)
  BY CountsExist
<1> HIDE DEF T
<1>2. v[0] = c
  BY <1>1 DEF Counts
<1>3. ASSUME NEW k \in Nat \ {0}
      PROVE  v[k] = Increment(v[k - 1])
  <2>1. k - 1 \in Nat /\ k - 1 <= k
    OBVIOUS
  <2>2. Counts(T(k), k, c) /\ Counts(T(k - 1), k - 1, c)
    BY <1>1, <2>1
  <2>3. T(k - 1)[k - 1] = T(k)[k - 1]
    BY <2>1, <2>2, CountsAgree
  <2>4. k \in 1..k
    OBVIOUS
  <2>5. T(k)[k] = Increment(T(k)[k - 1])
    BY <2>2, <2>4 DEF Counts
  <2>6. QED BY <2>1, <2>3, <2>5
<1>4. All(v)
  <2>1. \A k \in Nat : v[k] = IF k = 0 THEN c ELSE Increment(v[k - 1])
    BY <1>2, <1>3
  <2>2. DOMAIN v = Nat /\ v = [k \in Nat |-> v[k]]
    OBVIOUS
  <2> HIDE DEF v
  <2>3. QED BY <2>1, <2>2
<1>5. All(f)
  <2> HIDE DEF All
  <2>1. QED BY <1>4
<1>6. \A n \in Nat : CounterBlock(c, n) = f[n]
  BY DEF CounterBlock
<1> HIDE DEF f
<1>7. f[0] = c /\ \A n \in Nat : f[n + 1] = Increment(f[n])
  <2>1. \A k \in Nat : f[k] = IF k = 0 THEN c ELSE Increment(f[k - 1])
    BY <1>5
  <2>2. ASSUME NEW n \in Nat
        PROVE  f[n + 1] = Increment(f[n])
    <3>1. n + 1 \in Nat /\ n + 1 # 0 /\ n + 1 - 1 = n
      OBVIOUS
    <3>2. QED BY <2>1, <3>1
  <2>3. QED BY <2>1, <2>2
<1>8. ASSUME NEW n \in Nat
      PROVE  f[n] \in Counter
  <2> HIDE DEF All
  <2> DEFINE P == {k \in 0..n : f[k] \in Counter}
  <2>1. 0 \in P
    BY <1>7
  <2>2. ASSUME NEW k \in 1..n, k - 1 \in P
        PROVE  k \in P
    <3>1. k - 1 \in Nat /\ k - 1 + 1 = k /\ f[k - 1] \in Counter
      BY <2>2
    <3>2. f[k] = Increment(f[k - 1])
      BY <1>7, <3>1
    <3>3. QED BY <3>1, <3>2, NumberExists
  <2>3. n \in 0..n
    OBVIOUS
  <2>4. n \in P
    <3> HIDE DEF P
    <3>1. \A k \in 1..n : k - 1 \in P => k \in P
      BY <2>2
    <3>2. QED BY <2>1, <2>3, <3>1, UpTo
  <2>5. QED BY <2>4
<1> HIDE DEF All
<1>9. ASSUME NEW n \in Nat
      PROVE  CounterBlock(c, n + 1) = Increment(CounterBlock(c, n))
  <2>1. n + 1 \in Nat
    OBVIOUS
  <2>2. QED BY <1>6, <1>7, <2>1
<1>10. QED BY <1>6, <1>7, <1>8, <1>9

\* Counting on from a counter that was counted to.
LEMMA CountOn ==
  ASSUME NEW c \in Counter, NEW m \in Nat, NEW n \in Nat
  PROVE  CounterBlock(CounterBlock(c, m), n) = CounterBlock(c, m + n)
<1> DEFINE d == CounterBlock(c, m)
           P == {k \in 0..n : CounterBlock(d, k) = CounterBlock(c, m + k)}
<1>1. d \in Counter
  BY CounterBlocks
<1>2. 0 \in P
  <2>1. m + 0 = m /\ 0 \in 0..n
    OBVIOUS
  <2>2. CounterBlock(d, 0) = d
    BY <1>1, CounterBlocks
  <2>3. QED BY <2>1, <2>2
<1> HIDE DEF d
<1>3. ASSUME NEW k \in 1..n, k - 1 \in P
      PROVE  k \in P
  <2>1. PICK l \in Nat : l = k - 1 /\ l + 1 = k
    OBVIOUS
  <2>2. CounterBlock(d, l) = CounterBlock(c, m + l)
    BY <1>3, <2>1
  <2>3. CounterBlock(d, l + 1) = Increment(CounterBlock(d, l))
    BY <1>1, CounterBlocks
  <2>4. CounterBlock(c, (m + l) + 1) = Increment(CounterBlock(c, m + l))
    BY CounterBlocks
  <2>5. (m + l) + 1 = m + k
    BY <2>1
  <2>6. CounterBlock(d, k) = CounterBlock(c, m + k)
    BY <2>1, <2>2, <2>3, <2>4, <2>5
  <2>7. QED BY <2>6
<1>4. n \in P
  <2> HIDE DEF P
  <2>1. \A k \in 1..n : k - 1 \in P => k \in P
    BY <1>3
  <2>2. n \in 0..n
    OBVIOUS
  <2>3. QED BY <1>2, <2>1, <2>2, UpTo
<1>5. QED BY <1>4 DEF d

\* u enciphers a counter block of its call, at the place of that block.
InStream(r, u) ==
  \E k \in Nat : /\ u.from = Start(u.call - 1) + k * BlockSize
                 /\ u.value = CounterBlock(begun[r][u.call], k)

\* So do the blocks still to be made.
Counting(r) ==
  \E k \in Nat : /\ i[r] = k * BlockSize
                 /\ counter[r] = CounterBlock(begun[r][count[r] + 1], k)

StreamInv ==
  \A r \in Roles : /\ \A u \in Made(r) : InStream(r, u)
                   /\ pc[r] = "loop" /\ i[r] < len[r] => Counting(r)

\* All the calls that pass the nonce array n are of the AES-NI build.
Kept(n) == \A r \in Roles : Nonce(r) = n => impl[r] = "ni"

\* The counters enciphered from n are those after the initial nonce, and n
\* or the call that has it goes on from there.
ArrayOk(n) ==
  /\ \A a \in 1..Len(used[n]) :
       used[n][a].value = CounterBlock(nonce0, a - 1)
  /\ \A r \in Roles :
       Nonce(r) = n /\ pc[r] = "loop" =>
         counter[r] = CounterBlock(nonce0, Len(used[n]))
  /\ (\A r \in Roles : Nonce(r) = n => pc[r] = "idle") =>
       nonce[n] = CounterBlock(nonce0, Len(used[n]))

ArrayInv == \A n \in Roles : Kept(n) => ArrayOk(n)

CountInv == IInv /\ StreamInv /\ ArrayInv

\* At most one call has begun whose end is not a packet yet.
LEMMA AtMostOneMore ==
  ASSUME TypeInv, PlaceInv, NEW r \in Roles
  PROVE  Len(begun[r]) <= Len(packets) + 1
<1>1. Len(begun[r]) \in Nat /\ Len(packets) \in Nat
  BY TypesOf
<1>2. CASE r = "decrypt"
  BY <1>1, <1>2, Behind
<1>3. CASE r = "encrypt"
  <2>1. /\ PlaceOf(r) /\ Len(packets) = count[r] /\ count[r] \in Nat
        /\ pc[r] \in {"idle", "loop"}
    BY <1>3, TypesOf DEF PlaceInv
  <2>2. QED BY <2>1 DEF PlaceOf
<1>4. QED BY <1>2, <1>3, Basics

\* A block stays where it is, if the calls that have begun and the packets do.
LEMMA InStreamStays ==
  ASSUME IInv, NEW r \in Roles, NEW u \in Made(r), InStream(r, u),
         \A n \in 1..Len(begun[r]) : begun'[r][n] = begun[r][n],
         \A n \in 1..Len(packets) : packets'[n] = packets[n]
  PROVE  InStream(r, u)'
<1>1. TypeInv /\ PlaceInv /\ BlockOk(r, u) /\ u.call \in Nat \ {0}
  BY MadeTypes DEF IInv, BlocksInv
<1>2. /\ Len(begun[r]) \in Nat /\ Len(packets) \in Nat
      /\ u.call \in 1..Len(begun[r])
  BY <1>1, TypesOf DEF BlockOk
<1>3. Len(begun[r]) <= Len(packets) + 1
  BY <1>1, AtMostOneMore
<1>4. u.call - 1 = 0 \/ u.call - 1 \in 1..Len(packets)
  BY <1>2, <1>3
<1>5. PICK m : m = u.call - 1
  OBVIOUS
<1>6. Start(m)' = Start(m)
  BY <1>4, <1>5 DEF Start
<1>7. PICK k \in Nat : /\ u.from = Start(m) + k * BlockSize
                       /\ u.value = CounterBlock(begun[r][u.call], k)
  BY <1>5 DEF InStream
<1>8. begun'[r][u.call] = begun[r][u.call]
  BY <1>2
<1>9. u.from = Start(m)' + k * BlockSize
  BY <1>6, <1>7
<1>10. u.value = CounterBlock(begun'[r][u.call], k)
  BY <1>7, <1>8
<1>11. QED BY <1>5, <1>9, <1>10 DEF InStream

\* What a call does to r, and what it leaves to the other caller.
LEMMA CallEffect ==
  ASSUME IInv, NEW r \in Roles, Call(r)
  PROVE  /\ UNCHANGED <<impl, shared, plain, nonce0>>
         /\ UNCHANGED <<text, nonce, packets, count, base, used>>
         /\ \A q : Nonce(q)' = Nonce(q) /\ Made(q)' = Made(q)
         /\ pc[r] = "idle" /\ pc'[r] = "loop" /\ i'[r] = 0
         /\ counter'[r] = nonce[Nonce(r)]
         /\ begun'[r][count[r] + 1] = nonce[Nonce(r)]
         /\ begun[r] \in Seq(Counter)
         /\ \A n \in 1..Len(begun[r]) : begun'[r][n] = begun[r][n]
         /\ \A q \in Roles : q # r =>
              /\ begun'[q] = begun[q] /\ len'[q] = len[q] /\ pc'[q] = pc[q]
              /\ i'[q] = i[q] /\ counter'[q] = counter[q]
<1>1. /\ TypeInv /\ PlaceInv /\ UNCHANGED setup
      /\ UNCHANGED <<text, nonce, packets, count, base, used>>
  BY DEF IInv, Call
<1>2. /\ UNCHANGED <<impl, shared, plain, nonce0>>
      /\ \A q : Nonce(q)' = Nonce(q) /\ Made(q)' = Made(q)
  BY <1>1, SetupStays, MadeStays
<1>3. /\ begun'[r] = Append(begun[r], nonce[Nonce(r)])
      /\ Len(begun[r]) = count[r] /\ pc[r] = "idle"
      /\ pc'[r] = "loop" /\ i'[r] = 0 /\ counter'[r] = nonce[Nonce(r)]
      /\ \A q \in Roles : q # r =>
           /\ begun'[q] = begun[q] /\ len'[q] = len[q] /\ pc'[q] = pc[q]
           /\ i'[q] = i[q] /\ counter'[q] = counter[q]
  BY <1>1 DEF Call, MayCall, TypeInv, PlaceInv, PlaceOf
<1>4. /\ begun[r] \in Seq(Counter) /\ Len(begun[r]) \in Nat
  BY <1>1, TypesOf
<1>5. /\ begun'[r][Len(begun[r]) + 1] = nonce[Nonce(r)]
      /\ \A n \in 1..Len(begun[r]) : begun'[r][n] = begun[r][n]
  BY <1>3, <1>4
<1>6. QED BY <1>1, <1>2, <1>3, <1>4, <1>5

\* A call begins to count.
LEMMA CallStream ==
  ASSUME CountInv, NEW r \in Roles, Call(r)
  PROVE  StreamInv'
<1>1. IInv /\ TypeInv /\ StreamInv
  BY DEF CountInv, IInv
<1>2. ASSUME NEW q \in Roles, NEW u \in Made(q)
      PROVE  InStream(q, u)'
  <2>1. InStream(q, u)
    BY <1>1 DEF StreamInv
  <2>2. /\ \A n \in 1..Len(begun[q]) : begun'[q][n] = begun[q][n]
        /\ \A n \in 1..Len(packets) : packets'[n] = packets[n]
    BY <1>1, CallEffect
  <2>3. QED BY <1>1, <2>1, <2>2, InStreamStays
<1>3. Counting(r)'
  <2>1. PICK c \in Counter : c = nonce[Nonce(r)]
    BY <1>1, TypesOf
  <2>2. /\ i'[r] = 0 /\ counter'[r] = c /\ count' = count
        /\ begun'[r][count[r] + 1] = c
    BY <1>1, <2>1, CallEffect
  <2>3. begun'[r][count'[r] + 1] = c
    BY <2>2
  <2>4. c = CounterBlock(c, 0)
    BY CounterBlocks
  <2>5. i'[r] = 0 * BlockSize /\ counter'[r] = CounterBlock(c, 0)
    BY <2>2, <2>4, Basics
  <2>6. QED BY <2>3, <2>5 DEF Counting
<1>4. ASSUME NEW q \in Roles, q # r, pc'[q] = "loop", i'[q] < len'[q]
      PROVE  Counting(q)'
  <2>1. /\ begun'[q] = begun[q] /\ len'[q] = len[q] /\ pc'[q] = pc[q]
        /\ i'[q] = i[q] /\ counter'[q] = counter[q] /\ count' = count
    BY <1>1, <1>4, CallEffect
  <2>2. Counting(q)
    BY <1>1, <1>4, <2>1 DEF StreamInv
  <2>3. QED BY <2>1, <2>2 DEF Counting
<1>5. \A q \in Roles : Made(q)' = Made(q)
  BY <1>1, CallEffect
<1>6. QED BY <1>2, <1>3, <1>4, <1>5 DEF StreamInv

\* The call counts on from the nonce array it has.
LEMMA CallArray ==
  ASSUME CountInv, NEW r \in Roles, Call(r)
  PROVE  ArrayInv'
<1>1. IInv /\ TypeInv /\ ArrayInv
  BY DEF CountInv, IInv
<1>2. ASSUME NEW n \in Roles, Kept(n)'
      PROVE  ArrayOk(n)'
  <2>1. /\ UNCHANGED <<nonce0, nonce, used>>
        /\ \A q : Nonce(q)' = Nonce(q)
    BY <1>1, CallEffect
  <2>2. Kept(n) /\ ArrayOk(n)
    BY <1>1, <1>2, CallEffect DEF ArrayInv, Kept
  <2>3. PICK d : d = CounterBlock(nonce0, Len(used[n]))
    OBVIOUS
  <2>4. ASSUME NEW q \in Roles, Nonce(q) = n, pc'[q] = "loop"
        PROVE  counter'[q] = d
    <3>1. CASE q = r
      <4>1. \A z \in Roles : Nonce(z) = n => pc[z] = "idle"
        <5>1. MayCall(r)
          BY DEF Call
        <5>2. CASE shared
          BY <5>1, <5>2 DEF MayCall
        <5>3. CASE ~shared
          BY <2>4, <3>1, <5>1, <5>3 DEF MayCall, Nonce
        <5>4. QED BY <5>2, <5>3
      <4>2. nonce[n] = d
        BY <2>2, <2>3, <4>1 DEF ArrayOk
      <4>3. QED BY <1>1, <2>4, <3>1, <4>2, CallEffect
    <3>2. CASE q # r
      <4>1. pc[q] = "loop" /\ counter'[q] = counter[q]
        BY <1>1, <2>4, <3>2, CallEffect
      <4>2. QED BY <2>2, <2>3, <2>4, <4>1 DEF ArrayOk
    <3>3. QED BY <3>1, <3>2
  <2>5. (\A q \in Roles : Nonce(q) = n => pc'[q] = "idle") => nonce[n] = d
    <3>1. SUFFICES ASSUME \A q \in Roles : Nonce(q) = n => pc'[q] = "idle"
                   PROVE  \A q \in Roles : Nonce(q) = n => pc[q] = "idle"
      BY <2>2, <2>3 DEF ArrayOk
    <3>2. QED BY <1>1, <3>1, CallEffect
  <2>6. QED BY <2>1, <2>2, <2>3, <2>4, <2>5 DEF ArrayOk
<1>3. QED BY <1>2 DEF ArrayInv

\* A block that does not end its call is whole.
LEMMA WholeSize ==
  ASSUME NEW s \in Nat, NEW x \in Nat, NEW l \in Nat, NEW b \in Nat,
         NEW y \in Nat, y < l,
         s + y = IF s + x + b < s + l THEN s + x + b ELSE s + l
  PROVE  y = x + b
OBVIOUS

\* A block is made from the next counter of its call.
LEMMA BlockStream ==
  ASSUME CountInv, NEW r \in Roles, NEW w, BlockDone(r, w)
  PROVE  StreamInv'
<1>1. IInv /\ TypeInv /\ PlaceInv /\ StreamInv
  BY DEF CountInv, IInv
<1>2. /\ UNCHANGED <<packets, count, base, len, pc, begun>>
      /\ counter'[r] = Increment(counter[r])
      /\ Made(r)' = Made(r) \cup {w}
      /\ \A q \in Roles : q # r =>
           /\ Made(q)' = Made(q)
           /\ counter'[q] = counter[q] /\ i'[q] = i[q]
  <2>1. UNCHANGED <<packets, count, base, len, pc, begun>>
    BY <1>1 DEF BlockDone, setup
  <2>2. QED BY <1>1, <2>1, BlockOthers
<1>3. ASSUME NEW q \in Roles, NEW u \in Made(q)
      PROVE  InStream(q, u)'
  <2>1. InStream(q, u)
    BY <1>1 DEF StreamInv
  <2>2. QED BY <1>1, <1>2, <2>1, InStreamStays
<1>4. /\ pc[r] = "loop" /\ i[r] < len[r] /\ w.call = count[r] + 1
      /\ w.from = base[r] + i[r] /\ w.value = counter[r]
      /\ w.to = IF w.from + BlockSize < base[r] + len[r]
                  THEN w.from + BlockSize ELSE base[r] + len[r]
      /\ base[r] + i'[r] = w.to /\ i'[r] \in Nat
  BY DEF BlockDone
<1>5. /\ count[r] \in Nat /\ base[r] \in Nat /\ len[r] \in Nat
      /\ i[r] \in Nat /\ begun[r] \in Seq(Counter) /\ BlockSize \in Nat
      /\ base[r] = Start(count[r]) /\ Len(begun[r]) = count[r] + 1
  BY <1>1, <1>4, TypesOf, Basics DEF PlaceInv, PlaceOf
<1>6. PICK k \in Nat : /\ i[r] = k * BlockSize
                       /\ counter[r] = CounterBlock(begun[r][count[r] + 1], k)
  BY <1>1, <1>4 DEF StreamInv, Counting
<1>7. PICK c \in Counter : c = begun[r][count[r] + 1]
  <2>1. count[r] + 1 \in 1..Len(begun[r])
    BY <1>5
  <2>2. QED BY <1>5, <2>1
<1>8. InStream(r, w)'
  <2>1. Start(count[r])' = Start(count[r])
    BY <1>2 DEF Start
  <2>2. w.call - 1 = count[r]
    BY <1>4, <1>5
  <2>3. Start(w.call - 1)' = base[r]
    BY <1>2, <1>5, <2>1, <2>2
  <2>4. begun'[r][w.call] = c
    BY <1>2, <1>4, <1>7
  <2>5. w.from = base[r] + k * BlockSize /\ w.value = CounterBlock(c, k)
    BY <1>4, <1>6, <1>7
  <2>6. QED BY <2>3, <2>4, <2>5 DEF InStream
<1>9. ASSUME i'[r] < len[r]
      PROVE  Counting(r)'
  <2>1. i'[r] = i[r] + BlockSize
    <3>1. base[r] + i'[r] = IF base[r] + i[r] + BlockSize < base[r] + len[r]
                              THEN base[r] + i[r] + BlockSize
                              ELSE base[r] + len[r]
      BY <1>4
    <3>2. /\ base[r] \in Nat /\ i[r] \in Nat /\ len[r] \in Nat
          /\ BlockSize \in Nat /\ i'[r] \in Nat
      BY <1>4, <1>5
    <3>3. QED BY <1>9, <3>1, <3>2, WholeSize
  <2>2. (k + 1) * BlockSize = k * BlockSize + BlockSize
    BY <1>5
  <2>3. i'[r] = (k + 1) * BlockSize
    BY <1>6, <2>1, <2>2
  <2>4. counter'[r] = CounterBlock(c, k + 1)
    BY <1>2, <1>6, <1>7, CounterBlocks
  <2>5. begun'[r][count'[r] + 1] = c /\ k + 1 \in Nat
    BY <1>2, <1>7
  <2>6. QED BY <2>3, <2>4, <2>5 DEF Counting
<1>10. ASSUME NEW q \in Roles, q # r, pc'[q] = "loop", i'[q] < len'[q]
       PROVE  Counting(q)'
  <2>1. Counting(q)
    BY <1>1, <1>2, <1>10 DEF StreamInv
  <2>2. QED BY <1>2, <1>10, <2>1 DEF Counting
<1>11. ASSUME NEW q \in Roles, NEW u \in Made(q)'
       PROVE  InStream(q, u)'
  BY <1>2, <1>3, <1>8
<1>12. QED BY <1>2, <1>9, <1>10, <1>11 DEF StreamInv

\* It is the next one of the nonce array, too.
LEMMA BlockArray ==
  ASSUME CountInv, NEW r \in Roles, NEW w, BlockDone(r, w)
  PROVE  ArrayInv'
<1>1. IInv /\ TypeInv /\ PlaceInv /\ ArrayInv /\ nonce0 \in Counter
  BY DEF CountInv, IInv, TypeInv
<1>2. /\ UNCHANGED <<impl, shared, nonce0, nonce, pc>>
      /\ counter'[r] = Increment(counter[r])
      /\ \A q \in Roles : q # r => counter'[q] = counter[q]
      /\ \A q : Nonce(q)' = Nonce(q)
      /\ pc[r] = "loop" /\ w \in Use /\ w.value = counter[r]
      /\ used' = [used EXCEPT ![Nonce(r)] = Append(@, w)]
  <2>1. UNCHANGED <<nonce, pc>>
    BY DEF BlockDone
  <2>2. QED BY <1>1, <2>1, BlockOthers DEF BlockDone
<1>3. Nonce(r) \in Roles
  BY Basics
<1>4. ASSUME NEW n \in Roles, Kept(n)', n # Nonce(r)
      PROVE  ArrayOk(n)'
  <2>1. Kept(n) /\ ArrayOk(n)
    BY <1>1, <1>2, <1>4 DEF ArrayInv, Kept
  <2>2. used'[n] = used[n]
    BY <1>1, <1>2, <1>3, <1>4 DEF TypeInv
  <2>3. \A q \in Roles : Nonce(q) = n => counter'[q] = counter[q]
    BY <1>2, <1>4
  <2>4. QED BY <1>2, <2>1, <2>2, <2>3 DEF ArrayOk
<1>5. ASSUME NEW n \in Roles, Kept(n)', n = Nonce(r)
      PROVE  ArrayOk(n)'
  <2>1. Kept(n) /\ ArrayOk(n)
    BY <1>1, <1>2, <1>5 DEF ArrayInv, Kept
  <2>2. PICK m \in Nat : m = Len(used[n])
    BY <1>1, <1>5, TypesOf
  <2>3. /\ used[n] \in Seq(Use) /\ used'[n] = Append(used[n], w)
    BY <1>1, <1>2, <1>5 DEF TypeInv
  <2>4. /\ Len(used'[n]) = m + 1 /\ used'[n][m + 1] = w
        /\ \A a \in 1..m : used'[n][a] = used[n][a]
    BY <1>2, <2>2, <2>3
  <2>5. counter[r] = CounterBlock(nonce0, m)
    BY <1>2, <1>5, <2>1, <2>2 DEF ArrayOk
  <2>6. counter'[r] = CounterBlock(nonce0, m + 1)
    BY <1>1, <1>2, <2>5, CounterBlocks
  <2>7. ASSUME NEW a \in 1..m + 1
        PROVE  used'[n][a].value = CounterBlock(nonce0, a - 1)
    <3>1. CASE a = m + 1
      <4>1. a - 1 = m
        BY <3>1
      <4>2. QED BY <1>2, <2>4, <2>5, <3>1, <4>1
    <3>2. CASE a # m + 1
      <4>1. a \in 1..m
        BY <3>2
      <4>2. QED BY <2>1, <2>2, <2>4, <4>1 DEF ArrayOk
    <3>3. QED BY <3>1, <3>2
  <2>8. ASSUME NEW q \in Roles, Nonce(q) = n, pc[q] = "loop"
        PROVE  q = r
    <3>1. CASE shared
      <4>1. PICK z \in Roles : pc[z] = "idle"
        BY <1>1, <3>1 DEF PlaceInv
      <4>2. QED BY <1>2, <2>8, <4>1, Basics
    <3>2. CASE ~shared
      BY <1>5, <2>8, <3>2 DEF Nonce
    <3>3. QED BY <3>1, <3>2
  <2>9. \A q \in Roles :
          Nonce(q) = n /\ pc[q] = "loop" =>
            counter'[q] = CounterBlock(nonce0, m + 1)
    BY <2>6, <2>8
  <2>10. ~(\A q \in Roles : Nonce(q) = n => pc[q] = "idle")
    BY <1>2, <1>5
  <2>11. QED BY <1>2, <2>4, <2>7, <2>9, <2>10 DEF ArrayOk
<1>6. QED BY <1>4, <1>5 DEF ArrayInv

\* Nothing changes where counters are when a call returns.
LEMMA ReturnStream ==
  ASSUME CountInv, NEW r \in Roles, Return(r)
  PROVE  StreamInv'
<1>1. IInv /\ StreamInv
  BY DEF CountInv
<1>2. /\ UNCHANGED <<len, i, counter, begun>>
      /\ \A q : Made(q)' = Made(q)
      /\ pc'[r] = "idle"
      /\ \A q \in Roles : q # r => count'[q] = count[q] /\ pc'[q] = pc[q]
      /\ \A n \in 1..Len(packets) : packets'[n] = packets[n]
  BY <1>1, ReturnEffect
<1>3. ASSUME NEW q \in Roles, NEW u \in Made(q)
      PROVE  InStream(q, u)'
  <2>1. InStream(q, u)
    BY <1>1 DEF StreamInv
  <2>2. QED BY <1>1, <1>2, <2>1, InStreamStays
<1>4. ASSUME NEW q \in Roles, pc'[q] = "loop", i'[q] < len'[q]
      PROVE  Counting(q)'
  <2>1. q # r /\ pc[q] = "loop" /\ i[q] < len[q] /\ count'[q] = count[q]
    BY <1>2, <1>4
  <2>2. Counting(q)
    BY <1>1, <2>1 DEF StreamInv
  <2>3. QED BY <1>2, <2>1, <2>2 DEF Counting
<1>5. QED BY <1>2, <1>3, <1>4 DEF StreamInv

\* The AES-NI build leaves the next counter in the array.
LEMMA ReturnArray ==
  ASSUME CountInv, NEW r \in Roles, Return(r)
  PROVE  ArrayInv'
<1>1. IInv /\ TypeInv /\ PlaceInv /\ ArrayInv
  BY DEF CountInv, IInv
<1>2. /\ UNCHANGED <<impl, nonce0, counter, used>>
      /\ \A q : Nonce(q)' = Nonce(q)
      /\ pc[r] = "loop" /\ pc'[r] = "idle"
      /\ \A q \in Roles : q # r => pc'[q] = pc[q]
      /\ impl[r] = "ni" => nonce'[Nonce(r)] = counter[r]
      /\ \A n \in Roles : n # Nonce(r) => nonce'[n] = nonce[n]
  BY <1>1, ReturnEffect
<1>3. ASSUME NEW n \in Roles, Kept(n)'
      PROVE  ArrayOk(n)'
  <2>1. Kept(n) /\ ArrayOk(n)
    BY <1>1, <1>2, <1>3 DEF ArrayInv, Kept
  <2>2. PICK d : d = CounterBlock(nonce0, Len(used[n]))
    OBVIOUS
  <2>3. \A q \in Roles : Nonce(q) = n /\ pc'[q] = "loop" => counter[q] = d
    BY <1>2, <2>1, <2>2 DEF ArrayOk
  <2>4. (\A q \in Roles : Nonce(q) = n => pc'[q] = "idle") => nonce'[n] = d
    <3>1. CASE n = Nonce(r)
      BY <1>2, <2>1, <2>2, <3>1 DEF Kept, ArrayOk
    <3>2. CASE n # Nonce(r)
      BY <1>2, <2>1, <2>2, <3>2 DEF ArrayOk
    <3>3. QED BY <3>1, <3>2
  <2>5. QED BY <1>2, <2>1, <2>2, <2>3, <2>4 DEF ArrayOk
<1>4. QED BY <1>3 DEF ArrayInv

\* The counters are right initially.
LEMMA CountInitially == Init => CountInv
<1> SUFFICES ASSUME Init PROVE CountInv
  OBVIOUS
<1>1. IInv
  BY Initially
<1>2. /\ nonce0 \in Counter /\ \A r \in Roles : Nonce(r) \in Roles
      /\ \A r \in Roles : /\ used[r] = <<>> /\ pc[r] = "idle"
                          /\ nonce[r] = nonce0
  BY Basics DEF Init
<1>3. StreamInv
  <2>1. \A r \in Roles : Made(r) = {}
    BY <1>2 DEF Made, Range
  <2>2. QED BY <1>2, <2>1 DEF StreamInv
<1>4. ArrayInv
  <2>1. CounterBlock(nonce0, 0) = nonce0
    BY <1>2, CounterBlocks
  <2>2. \A n \in Roles : Len(used[n]) = 0 /\ 1..Len(used[n]) = {}
    BY <1>2
  <2>3. QED BY <1>2, <2>1, <2>2 DEF ArrayInv, ArrayOk
<1>5. QED BY <1>1, <1>3, <1>4 DEF CountInv

\* Every step leaves them right.
LEMMA CountInductive == CountInv /\ [Next]_vars => CountInv'
<1> SUFFICES ASSUME CountInv, [Next]_vars PROVE CountInv'
  OBVIOUS
<1>0. IInv /\ IInv'
  BY Inductive DEF CountInv
<1>1. ASSUME NEW r \in Roles, Call(r) PROVE CountInv'
  BY <1>0, <1>1, CallStream, CallArray DEF CountInv
<1>2. ASSUME NEW r \in Roles, Block(r) PROVE CountInv'
  <2>1. PICK w : BlockDone(r, w)
    BY <1>0, <1>2, BlockEffect
  <2>2. QED BY <1>0, <2>1, BlockStream, BlockArray DEF CountInv
<1>3. ASSUME NEW r \in Roles, Return(r) PROVE CountInv'
  BY <1>0, <1>3, ReturnStream, ReturnArray DEF CountInv
<1>4. ASSUME UNCHANGED vars PROVE CountInv'
  <2>1. /\ UNCHANGED <<impl, shared, nonce0, nonce, packets>>
        /\ UNCHANGED <<count, len, i, counter, pc, used, begun>>
    BY <1>4 DEF vars, setup
  <2>2. \A r : Made(r)' = Made(r) /\ Nonce(r)' = Nonce(r)
    BY <2>1 DEF Made, Nonce
  <2>3. \A r, u : InStream(r, u)' <=> InStream(r, u)
    BY <2>1 DEF InStream, Start
  <2>4. \A r : Counting(r)' <=> Counting(r)
    BY <2>1 DEF Counting
  <2>5. StreamInv'
    BY <2>1, <2>2, <2>3, <2>4 DEF StreamInv, CountInv
  <2>6. ArrayInv'
    BY <2>1, <2>2 DEF ArrayInv, ArrayOk, Kept, CountInv
  <2>7. QED BY <1>0, <2>5, <2>6 DEF CountInv
<1>5. QED BY <1>1, <1>2, <1>3, <1>4 DEF Next, Done

\* The counters are right in every state.
LEMMA Counted == Spec => []CountInv
<1>1. Init => CountInv
  BY CountInitially
<1>2. CountInv /\ [Next]_vars => CountInv'
  BY CountInductive
<1>3. QED BY <1>1, <1>2, PTL DEF Spec

\* A number of whole blocks and a rest.
LEMMA DigitsOf ==
  ASSUME NEW p \in Nat \ {0}, NEW v \in Nat, NEW w \in 0..p - 1,
         NEW n, n = v * p + w
  PROVE  n \div p = v /\ n % p = w
<1>1. v * p \in Nat /\ n \in Nat
  OBVIOUS
<1> DEFINE x == n \div p
           y == n % p
<1>2. x \in Nat /\ y \in 0..p - 1 /\ n = x * p + y
  BY <1>1
<1> HIDE DEF x, y
<1>3. x = v /\ y = w
  BY <1>2, DigitUnique
<1>4. QED BY <1>3 DEF x, y

-----------------------------------------------------------------------------
(* Calls of whole blocks.                                                  *)

\* The calls of r before its last, or its current one, end with a block.
Whole(r) == \A n \in 1..Len(begun[r]) - 1 : packets[n] % BlockSize = 0

\* They are calls of the AES-NI build, with a nonce array of their own.
Streams(r) == ~shared /\ impl[r] = "ni" /\ Whole(r)

\* Where the text is at the m-th block, the counter is the m-th.
StreamOk(r) ==
  /\ \A n \in 1..Len(begun[r]) : \A m \in Nat :
       Start(n - 1) = m * BlockSize => begun[r][n] = CounterBlock(nonce0, m)
  /\ pc[r] = "idle" => \A m \in Nat :
       base[r] = m * BlockSize => nonce[r] = CounterBlock(nonce0, m)
  /\ pc[r] = "loop" => \A m \in Nat :
       base[r] + i[r] = m * BlockSize => counter[r] = CounterBlock(nonce0, m)

WholeInv == CountInv /\ \A r \in Roles : Streams(r) => StreamOk(r)

\* There is one multiple among the b numbers after a multiple, the next.
LEMMA NextMultiple ==
  ASSUME NEW b \in Nat \ {0}, NEW y \in Nat, NEW m \in Nat,
         y * b < m * b, m * b <= y * b + b
  PROVE  m = y + 1
<1>1. y * b \in Nat /\ m * b \in Nat /\ (y + 1) * b = y * b + b
  OBVIOUS
<1>2. ~(m <= y)
  <2>1. SUFFICES ASSUME m <= y PROVE FALSE
    OBVIOUS
  <2>2. m * b <= y * b
    BY <2>1, TimesMonotone
  <2>3. QED BY <1>1, <2>2
<1>3. ~(y + 2 <= m)
  <2>1. SUFFICES ASSUME y + 2 <= m PROVE FALSE
    OBVIOUS
  <2>2. (y + 2) * b <= m * b
    BY <2>1, TimesMonotone
  <2>3. (y + 2) * b = y * b + b + b
    OBVIOUS
  <2>4. QED BY <1>1, <2>2, <2>3
<1>4. QED BY <1>2, <1>3

\* Every call of r has begun at the start of the message or where a packet
\* ends.
LEMMA BegunBefore ==
  ASSUME TypeInv, PlaceInv, NEW r \in Roles, NEW n \in 1..Len(begun[r])
  PROVE  n - 1 = 0 \/ n - 1 \in 1..Len(packets)
<1>1. /\ Len(begun[r]) \in Nat /\ Len(packets) \in Nat
      /\ Len(begun[r]) <= Len(packets) + 1
  BY TypesOf, AtMostOneMore
<1>2. QED BY <1>1

\* Streams were streams before, if calls that began and packets stay.
LEMMA StreamsBefore ==
  ASSUME TypeInv, PlaceInv, UNCHANGED <<impl, shared>>, NEW r \in Roles,
         Len(begun[r]) <= Len(begun'[r]), Len(begun'[r]) \in Nat,
         \A n \in 1..Len(packets) : packets'[n] = packets[n],
         Streams(r)'
  PROVE  Streams(r)
<1>1. Len(begun[r]) \in Nat
  BY TypesOf
<1>2. ASSUME NEW n \in 1..Len(begun[r]) - 1
      PROVE  packets[n] % BlockSize = 0
  <2>1. n + 1 \in 1..Len(begun[r]) /\ n \in 1..Len(begun'[r]) - 1
    BY <1>1
  <2>2. n \in 1..Len(packets)
    BY <1>1, <2>1, BegunBefore
  <2>3. packets'[n] % BlockSize = 0
    BY <2>1 DEF Streams, Whole
  <2>4. QED BY <2>2, <2>3
<1>3. QED BY <1>2 DEF Streams, Whole

\* The starts of the calls of a stream are at blocks.
LEMMA StartsWhole ==
  ASSUME TypeInv, PlaceInv, NEW r \in Roles, Streams(r),
         NEW n \in 1..Len(begun[r])
  PROVE  \E m \in Nat : Start(n - 1) = m * BlockSize
<1>1. n - 1 = 0 \/ n - 1 \in 1..Len(packets)
  BY BegunBefore
<1>2. CASE n - 1 = 0
  <2>1. Start(n - 1) = 0 * BlockSize
    BY <1>2, Basics DEF Start
  <2>2. QED BY <2>1
<1>3. CASE n - 1 \in 1..Len(packets)
  <2>1. PICK k \in 1..Len(begun[r]) - 1 : k = n - 1 /\ k \in 1..Len(packets)
    BY <1>3, TypesOf
  <2>2. PICK x \in Nat : x = packets[k]
    BY <2>1, TypesOf
  <2>3. x % BlockSize = 0 /\ Start(n - 1) = x
    BY <2>1, <2>2 DEF Streams, Whole, Start
  <2>4. PICK b \in Nat \ {0} : b = BlockSize
    BY Basics
  <2>5. x = (x \div b) * b + (x % b) /\ x \div b \in Nat
    BY <2>4
  <2>6. x = (x \div b) * b
    BY <2>3, <2>4, <2>5
  <2>7. QED BY <2>3, <2>4, <2>5, <2>6
<1>4. QED BY <1>1, <1>2, <1>3

\* The call goes on with the counter that is due.
LEMMA CallWhole ==
  ASSUME WholeInv, NEW r \in Roles, Call(r)
  PROVE  \A q \in Roles : Streams(q)' => StreamOk(q)'
<1>1. IInv /\ TypeInv /\ PlaceInv
  BY DEF WholeInv, CountInv, IInv
<1>2. /\ UNCHANGED <<impl, shared, nonce0, nonce, packets, count, base>>
      /\ pc[r] = "idle" /\ pc'[r] = "loop" /\ i'[r] = 0
      /\ counter'[r] = nonce[Nonce(r)]
      /\ begun'[r][count[r] + 1] = nonce[Nonce(r)]
      /\ \A n \in 1..Len(begun[r]) : begun'[r][n] = begun[r][n]
      /\ \A q \in Roles : q # r =>
           /\ begun'[q] = begun[q] /\ pc'[q] = pc[q]
           /\ i'[q] = i[q] /\ counter'[q] = counter[q]
  BY <1>1, CallEffect
<1>3. \A n : Start(n)' = Start(n)
  BY <1>2 DEF Start
<1>4. /\ base[r] = Start(count[r]) /\ Len(begun[r]) = count[r]
      /\ count[r] \in Nat /\ base[r] \in Nat
      /\ Len(begun'[r]) = count[r] + 1
  <2>1. /\ base[r] = Start(count[r]) /\ Len(begun[r]) = count[r]
        /\ count[r] \in Nat /\ base[r] \in Nat
    BY <1>1, <1>2, TypesOf DEF PlaceInv, PlaceOf
  <2>2. TypeInv' /\ PlaceInv'
    BY <1>1, CallPlace
  <2>3. Len(begun'[r]) = count'[r] + 1
    BY <1>2, <2>2 DEF PlaceInv, PlaceOf
  <2>4. QED BY <1>2, <2>1, <2>3
<1>5. ASSUME Streams(r)'
      PROVE  StreamOk(r)'
  <2>1. Streams(r) /\ StreamOk(r)
    <3>1. Len(begun[r]) <= Len(begun'[r]) /\ Len(begun'[r]) \in Nat
      BY <1>4
    <3>2. Streams(r)
      BY <1>1, <1>2, <1>5, <3>1, StreamsBefore
    <3>3. QED BY <3>2 DEF WholeInv
  <2>2. Nonce(r) = r
    BY <2>1 DEF Streams, Nonce
  <2>3. \A m \in Nat :
          base[r] = m * BlockSize => nonce[r] = CounterBlock(nonce0, m)
    BY <1>2, <2>1 DEF StreamOk
  <2>4. ASSUME NEW n \in 1..Len(begun'[r]), NEW m \in Nat,
               Start(n - 1) = m * BlockSize
        PROVE  begun'[r][n] = CounterBlock(nonce0, m)
    <3>1. CASE n = count[r] + 1
      <4>1. n - 1 = count[r]
        BY <1>4, <3>1
      <4>2. base[r] = m * BlockSize
        BY <1>4, <2>4, <4>1
      <4>3. QED BY <1>2, <2>2, <2>3, <3>1, <4>2
    <3>2. CASE n # count[r] + 1
      <4>1. n \in 1..Len(begun[r])
        BY <1>4, <3>2
      <4>2. QED BY <1>2, <2>1, <2>4, <4>1 DEF StreamOk
    <3>3. QED BY <3>1, <3>2
  <2>5. ASSUME NEW m \in Nat, base[r] + 0 = m * BlockSize
        PROVE  counter'[r] = CounterBlock(nonce0, m)
    <3>1. base[r] = m * BlockSize
      BY <1>4, <2>5
    <3>2. QED BY <1>2, <2>2, <2>3, <3>1
  <2>6. QED BY <1>2, <1>3, <2>4, <2>5 DEF StreamOk
<1>6. ASSUME NEW q \in Roles, q # r, Streams(q)'
      PROVE  StreamOk(q)'
  <2>1. Streams(q) /\ StreamOk(q)
    BY <1>2, <1>6 DEF WholeInv, Streams, Whole
  <2>2. QED BY <1>2, <1>3, <1>6, <2>1 DEF StreamOk
<1>7. QED BY <1>5, <1>6

\* A block that ends at a block begins at one, and is whole.
LEMMA BlockWhole ==
  ASSUME WholeInv, NEW r \in Roles, NEW w, BlockDone(r, w)
  PROVE  \A q \in Roles : Streams(q)' => StreamOk(q)'
<1>1. CountInv /\ TypeInv /\ PlaceInv /\ StreamInv /\ nonce0 \in Counter
  BY DEF WholeInv, CountInv, IInv, TypeInv
<1>2. /\ UNCHANGED <<impl, shared, nonce0, nonce, packets, count, base>>
      /\ UNCHANGED <<len, pc, begun>>
      /\ counter'[r] = Increment(counter[r])
      /\ \A q \in Roles : q # r => counter'[q] = counter[q] /\ i'[q] = i[q]
  <2>1. UNCHANGED <<nonce, packets, count, base, len, pc, begun>>
    BY DEF BlockDone
  <2>2. QED BY <1>1, <2>1, BlockOthers
<1>3. \A n : Start(n)' = Start(n)
  BY <1>2 DEF Start
<1>4. ASSUME NEW q \in Roles, Streams(q)'
      PROVE  Streams(q) /\ StreamOk(q)
  BY <1>2, <1>4 DEF WholeInv, Streams, Whole
<1>5. ASSUME Streams(r)'
      PROVE  StreamOk(r)'
  <2>1. StreamOk(r) /\ Streams(r)
    BY <1>4, <1>5
  <2>2. /\ pc[r] = "loop" /\ i[r] < len[r]
        /\ w.from = base[r] + i[r]
        /\ w.to = IF w.from + BlockSize < base[r] + len[r]
                    THEN w.from + BlockSize ELSE base[r] + len[r]
        /\ w.from < w.to /\ base[r] + i'[r] = w.to /\ i'[r] \in Nat
    BY DEF BlockDone
  <2>3. /\ count[r] \in Nat /\ base[r] \in Nat /\ len[r] \in Nat
        /\ i[r] \in Nat /\ base[r] = Start(count[r])
        /\ Len(begun[r]) = count[r] + 1
    BY <1>1, <2>2, TypesOf DEF PlaceInv, PlaceOf
  <2>4. PICK b \in Nat \ {0} : b = BlockSize
    BY Basics
  <2>5. PICK x \in Nat : base[r] = x * b
    <3>1. PICK n \in 1..Len(begun[r]) : n - 1 = count[r]
      BY <2>3
    <3>2. QED BY <1>1, <2>1, <2>3, <2>4, <3>1, StartsWhole
  <2>6. PICK k \in Nat : i[r] = k * b
    BY <1>1, <2>2, <2>4 DEF StreamInv, Counting
  <2>7. PICK y \in Nat : y = x + k
    OBVIOUS
  <2>8. PICK f \in Nat : f = base[r] + i[r] /\ f = y * b
    <3>1. (x + k) * b = x * b + k * b
      BY <2>4
    <3>2. base[r] + i[r] = y * b
      BY <2>5, <2>6, <2>7, <3>1
    <3>3. base[r] + i[r] \in Nat
      BY <2>3
    <3>4. QED BY <3>2, <3>3
  <2>9. PICK t \in Nat : t = base[r] + i'[r]
    BY <2>2, <2>3
  <2>10. f < t /\ t <= f + b
    BY <2>2, <2>3, <2>4, <2>8, <2>9
  <2>11. counter[r] = CounterBlock(nonce0, y)
    BY <2>1, <2>2, <2>4, <2>8 DEF StreamOk
  <2>12. ASSUME NEW m \in Nat, t = m * b
         PROVE  counter'[r] = CounterBlock(nonce0, m)
    <3>1. m = y + 1
      BY <2>8, <2>10, <2>12, NextMultiple
    <3>2. QED BY <1>1, <1>2, <2>11, <3>1, CounterBlocks
  <2>13. ASSUME NEW m \in Nat, base'[r] + i'[r] = m * BlockSize
         PROVE  counter'[r] = CounterBlock(nonce0, m)
    BY <1>2, <2>4, <2>9, <2>12, <2>13
  <2>14. QED BY <1>2, <1>3, <2>1, <2>2, <2>13 DEF StreamOk
<1>6. ASSUME NEW q \in Roles, q # r, Streams(q)'
      PROVE  StreamOk(q)'
  <2>1. StreamOk(q)
    BY <1>4, <1>6
  <2>2. QED BY <1>2, <1>3, <1>6, <2>1 DEF StreamOk
<1>7. QED BY <1>5, <1>6

\* The counter that is due is in the array when the call returns.
LEMMA ReturnWhole ==
  ASSUME WholeInv, NEW r \in Roles, Return(r)
  PROVE  \A q \in Roles : Streams(q)' => StreamOk(q)'
<1>1. IInv /\ TypeInv /\ PlaceInv
  BY DEF WholeInv, CountInv, IInv
<1>2. /\ UNCHANGED <<impl, shared, nonce0, i, counter, begun>>
      /\ pc[r] = "loop" /\ pc'[r] = "idle" /\ i[r] = len[r]
      /\ base'[r] = base[r] + len[r]
      /\ \A q \in Roles : q # r => base'[q] = base[q] /\ pc'[q] = pc[q]
      /\ impl[r] = "ni" => nonce'[Nonce(r)] = counter[r]
      /\ \A n \in Roles : n # Nonce(r) => nonce'[n] = nonce[n]
      /\ \A n \in 1..Len(packets) : packets'[n] = packets[n]
  BY <1>1, ReturnEffect
<1>3. ASSUME NEW q \in Roles, Streams(q)'
      PROVE  Streams(q) /\ StreamOk(q)
  <2>1. Len(begun[q]) <= Len(begun'[q]) /\ Len(begun'[q]) \in Nat
    BY <1>1, <1>2, TypesOf
  <2>2. Streams(q)
    BY <1>1, <1>2, <1>3, <2>1, StreamsBefore
  <2>3. QED BY <2>2 DEF WholeInv
<1>4. ASSUME NEW q \in Roles, NEW n \in 1..Len(begun[q])
      PROVE  Start(n - 1)' = Start(n - 1)
  <2>1. n - 1 = 0 \/ n - 1 \in 1..Len(packets)
    BY <1>1, BegunBefore
  <2>2. PICK k : k = n - 1
    OBVIOUS
  <2>3. Start(k)' = Start(k)
    BY <1>2, <2>1, <2>2 DEF Start
  <2>4. QED BY <2>2, <2>3
<1>5. ASSUME NEW q \in Roles, Streams(q)',
             NEW n \in 1..Len(begun[q]), NEW m \in Nat,
             Start(n - 1)' = m * BlockSize
      PROVE  begun[q][n] = CounterBlock(nonce0, m)
  BY <1>3, <1>4, <1>5 DEF StreamOk
<1>6. ASSUME Streams(r)', NEW m \in Nat, base'[r] = m * BlockSize
      PROVE  nonce'[r] = CounterBlock(nonce0, m)
  <2>1. StreamOk(r) /\ Nonce(r) = r /\ impl[r] = "ni"
    BY <1>3, <1>6 DEF Streams, Nonce
  <2>2. base[r] + i[r] = m * BlockSize
    BY <1>2, <1>6
  <2>3. counter[r] = CounterBlock(nonce0, m)
    BY <1>2, <2>1, <2>2 DEF StreamOk
  <2>4. QED BY <1>2, <2>1, <2>3
<1>7. ASSUME NEW q \in Roles, q # r, Streams(q)'
      PROVE  StreamOk(q)'
  <2>1. StreamOk(q) /\ ~shared
    BY <1>3, <1>7 DEF Streams
  <2>2. nonce'[q] = nonce[q]
    BY <1>2, <1>7, <2>1 DEF Nonce
  <2>3. \A n \in 1..Len(begun[q]) : \A m \in Nat :
          Start(n - 1)' = m * BlockSize
            => begun[q][n] = CounterBlock(nonce0, m)
    BY <1>5, <1>7
  <2>4. QED BY <1>2, <1>7, <2>1, <2>2, <2>3 DEF StreamOk
<1>8. ASSUME Streams(r)'
      PROVE  StreamOk(r)'
  <2>1. \A n \in 1..Len(begun[r]) : \A m \in Nat :
          Start(n - 1)' = m * BlockSize
            => begun[r][n] = CounterBlock(nonce0, m)
    BY <1>5, <1>8
  <2>2. \A m \in Nat :
          base'[r] = m * BlockSize => nonce'[r] = CounterBlock(nonce0, m)
    BY <1>6, <1>8
  <2>3. QED BY <1>2, <2>1, <2>2 DEF StreamOk
<1>9. QED BY <1>7, <1>8

\* The counter due at the start is the nonce.
LEMMA WholeInitially == Init => WholeInv
<1> SUFFICES ASSUME Init PROVE WholeInv
  OBVIOUS
<1>1. CountInv
  BY CountInitially
<1>2. nonce0 \in Counter /\ CounterBlock(nonce0, 0) = nonce0
  BY CounterBlocks DEF Init
<1>3. ASSUME NEW r \in Roles
      PROVE  StreamOk(r)
  <2>1. /\ begun[r] = <<>> /\ pc[r] = "idle" /\ base[r] = 0
        /\ nonce[r] = nonce0
    BY DEF Init
  <2>2. ASSUME NEW m \in Nat, 0 = m * BlockSize
        PROVE  m = 0
    <3>1. PICK b \in Nat \ {0} : b = BlockSize
      BY Basics
    <3>2. m * b + 0 = 0 * b + 0
      BY <2>2, <3>1
    <3>3. QED BY <3>1, <3>2, DigitUnique
  <2>3. QED BY <1>2, <2>1, <2>2 DEF StreamOk
<1>4. QED BY <1>1, <1>3 DEF WholeInv

\* Every step leaves the counters due.
LEMMA WholeInductive == WholeInv /\ [Next]_vars => WholeInv'
<1> SUFFICES ASSUME WholeInv, [Next]_vars PROVE WholeInv'
  OBVIOUS
<1>0. IInv /\ CountInv'
  BY CountInductive DEF WholeInv, CountInv
<1>1. ASSUME NEW r \in Roles, Call(r) PROVE WholeInv'
  BY <1>0, <1>1, CallWhole DEF WholeInv
<1>2. ASSUME NEW r \in Roles, Block(r) PROVE WholeInv'
  <2>1. PICK w : BlockDone(r, w)
    BY <1>0, <1>2, BlockEffect
  <2>2. QED BY <1>0, <2>1, BlockWhole DEF WholeInv
<1>3. ASSUME NEW r \in Roles, Return(r) PROVE WholeInv'
  BY <1>0, <1>3, ReturnWhole DEF WholeInv
<1>4. ASSUME UNCHANGED vars PROVE WholeInv'
  <2>1. /\ UNCHANGED <<impl, shared, nonce0, nonce, packets>>
        /\ UNCHANGED <<base, i, counter, pc, begun>>
    BY <1>4 DEF vars, setup
  <2>2. \A r \in Roles : /\ Streams(r)' <=> Streams(r)
                         /\ StreamOk(r)' <=> StreamOk(r)
    BY <2>1 DEF Streams, Whole, StreamOk, Start
  <2>3. QED BY <1>0, <2>2 DEF WholeInv
<1>5. QED BY <1>1, <1>2, <1>3, <1>4 DEF Next, Done

-----------------------------------------------------------------------------
(* Theorems on counter mode.                                              *)

\* NIST SP 800-38A, 6.5: a byte of the text is the byte of the message (or of
\* the ciphertext) at its place, added to its byte of the keystream of its
\* call, the counter blocks enciphered from the nonce of the call on.
CounterMode ==
  \A r \in Roles : \A p \in 1..Len(text[r]) : \E n \in 1..Len(begun[r]) :
    LET q == p - 1 - Start(n - 1) IN
    /\ Start(n - 1) < p /\ p <= End(r, n)
    /\ text[r][p] =
         XorByte(Input(r)[p],
                 KeyStream(CounterBlock(begun[r][n], q \div BlockSize))
                   [q % BlockSize])

\* The AES-NI build makes one stream of all the calls that pass an array: the
\* counters enciphered from it are those after the initial nonce, in order.
OneStream ==
  \A n \in Roles :
    (\A r \in Roles : Nonce(r) = n => impl[r] = "ni") =>
      \A a \in 1..Len(used[n]) :
        used[n][a].value = CounterBlock(nonce0, a - 1)

\* Calls of the AES-NI build that end with a block make together what one call
\* makes: a byte of the text is that of the message at its place, added to its
\* byte of the keystream from the initial nonce on.
OneCall ==
  \A r \in Roles :
    ~shared /\ impl[r] = "ni"
      /\ (\A n \in 1..Len(begun[r]) - 1 : packets[n] % BlockSize = 0) =>
        \A p \in 1..Len(text[r]) :
          text[r][p] =
            XorByte(Input(r)[p],
                    KeyStream(CounterBlock(nonce0, (p - 1) \div BlockSize))
                      [(p - 1) % BlockSize])

\* The place of a byte in a block.
LEMMA PlaceInBlock ==
  ASSUME NEW b \in Nat \ {0}, NEW f \in Nat, NEW t \in Nat, t <= f + b,
         NEW p \in f + 1..t
  PROVE  p - f - 1 \in 0..b - 1
OBVIOUS

\* Where a byte of the text comes from: a block of a call, at its place.
LEMMA ByteOfBlock ==
  ASSUME CountInv, NEW r \in Roles, NEW p \in 1..Len(text[r])
  PROVE  \E n \in 1..Len(begun[r]), k \in Nat, z \in 0..BlockSize - 1 :
           /\ Start(n - 1) \in Nat /\ Start(n - 1) < p /\ p <= End(r, n)
           /\ p - 1 - Start(n - 1) = k * BlockSize + z
           /\ text[r][p] = XorByte(Input(r)[p],
                                   KeyStream(CounterBlock(begun[r][n], k))[z])
<1>1. TypeInv /\ PlaceInv /\ BlocksInv /\ StreamInv
  BY DEF CountInv, IInv
<1>2. PICK u \in Made(r) : p \in u.from + 1..u.to
  BY <1>1 DEF BlocksInv, Covered
<1>3. /\ BlockOk(r, u) /\ InStream(r, u) /\ u.call \in Nat \ {0}
      /\ u.from \in Nat /\ u.to \in Nat
  BY <1>1, MadeTypes DEF BlocksInv, StreamInv
<1>4. PICK n \in 1..Len(begun[r]) : n = u.call
  BY <1>1, <1>3, TypesOf DEF BlockOk
<1>5. PICK s \in Nat : s = Start(n - 1)
  <2>1. n - 1 = 0 \/ n - 1 \in 1..Len(packets)
    BY <1>1, BegunBefore
  <2>2. packets \in Seq(Nat)
    BY <1>1, TypesOf
  <2>3. QED BY <2>1, <2>2 DEF Start
<1>6. PICK e \in Nat : e = End(r, n)
  <2>1. packets \in Seq(Nat) /\ base[r] \in Nat /\ len[r] \in Nat
    BY <1>1, TypesOf
  <2>2. QED BY <2>1 DEF End
<1>7. PICK k \in Nat : /\ u.from = s + k * BlockSize
                       /\ u.value = CounterBlock(begun[r][n], k)
  BY <1>3, <1>4, <1>5 DEF InStream
<1>8. PICK j \in Nat : j = k * BlockSize
  BY Basics
<1>9. /\ BlockSize \in Nat \ {0} /\ u.to <= e
      /\ u.to <= u.from + BlockSize
  BY <1>3, <1>4, <1>6, Basics DEF BlockOk
<1>10. PICK f \in Nat, t \in Nat : f = u.from /\ t = u.to /\ p \in f + 1..t
  BY <1>2, <1>3
<1>11. PICK z \in 0..BlockSize - 1 : z = p - f - 1
  <2>1. t <= f + BlockSize /\ BlockSize \in Nat \ {0} /\ p \in f + 1..t
    BY <1>9, <1>10
  <2>2. p - f - 1 \in 0..BlockSize - 1
    BY <2>1, PlaceInBlock
  <2>3. QED BY <2>2
<1>12. s < p /\ p <= e /\ p - 1 - s = j + z
  <2>1. /\ f = s + j /\ t <= e /\ p \in Nat /\ z \in Nat
        /\ f < p /\ p <= t /\ z = p - f - 1
    BY <1>7, <1>8, <1>9, <1>10, <1>11
  <2>2. QED BY <2>1
<1>13. text[r][p] = XorByte(Input(r)[p], KeyStream(u.value)[z])
  BY <1>2, <1>3, <1>10, <1>11 DEF BlockOk
<1>14. QED BY <1>5, <1>6, <1>7, <1>8, <1>12, <1>13

\* CounterMode: every call is counter mode as the standard defines it, the
\* last block of a call that ends within a block included.
THEOREM CounterModeCorrect == Spec => []CounterMode
<1>1. CountInv => CounterMode
  <2>1. SUFFICES ASSUME CountInv, NEW r \in Roles,
                        NEW p \in 1..Len(text[r])
        PROVE  \E n \in 1..Len(begun[r]) :
                 LET q == p - 1 - Start(n - 1) IN
                 /\ Start(n - 1) < p /\ p <= End(r, n)
                 /\ text[r][p] =
                      XorByte(Input(r)[p],
                        KeyStream(CounterBlock(begun[r][n], q \div BlockSize))
                          [q % BlockSize])
    BY DEF CounterMode
  <2>2. PICK n \in 1..Len(begun[r]), k \in Nat, z \in 0..BlockSize - 1 :
          /\ Start(n - 1) \in Nat /\ Start(n - 1) < p /\ p <= End(r, n)
          /\ p - 1 - Start(n - 1) = k * BlockSize + z
          /\ text[r][p] =
               XorByte(Input(r)[p], KeyStream(CounterBlock(begun[r][n], k))[z])
    BY <2>1, ByteOfBlock
  <2>3. PICK q : q = p - 1 - Start(n - 1) /\ q = k * BlockSize + z
    BY <2>2
  <2>4. q \div BlockSize = k /\ q % BlockSize = z
    BY <2>3, Basics, DigitsOf
  <2>5. QED BY <2>2, <2>3, <2>4
<1>2. QED BY <1>1, Counted, PTL

\* OneStream: however the message is cut into calls, and whoever makes them.
THEOREM OneStreamCorrect == Spec => []OneStream
<1>1. CountInv => OneStream
  BY DEF CountInv, ArrayInv, ArrayOk, Kept, OneStream
<1>2. QED BY <1>1, Counted, PTL

\* OneCall: how a message is cut into calls of whole blocks does not matter.
THEOREM OneCallCorrect == Spec => []OneCall
<1>1. Init => WholeInv
  BY WholeInitially
<1>2. WholeInv /\ [Next]_vars => WholeInv'
  BY WholeInductive
<1>3. WholeInv => OneCall
  <2>1. SUFFICES ASSUME WholeInv, NEW r \in Roles, Streams(r),
                        NEW p \in 1..Len(text[r])
        PROVE  text[r][p] =
                 XorByte(Input(r)[p],
                   KeyStream(CounterBlock(nonce0, (p - 1) \div BlockSize))
                     [(p - 1) % BlockSize])
    BY DEF OneCall, Streams, Whole
  <2>2. CountInv /\ TypeInv /\ PlaceInv /\ StreamOk(r)
    BY <2>1 DEF WholeInv, CountInv, IInv
  <2>3. PICK n \in 1..Len(begun[r]), k \in Nat, z \in 0..BlockSize - 1 :
          /\ Start(n - 1) \in Nat /\ Start(n - 1) < p /\ p <= End(r, n)
          /\ p - 1 - Start(n - 1) = k * BlockSize + z
          /\ text[r][p] =
               XorByte(Input(r)[p], KeyStream(CounterBlock(begun[r][n], k))[z])
    BY <2>2, ByteOfBlock
  <2>4. PICK m \in Nat : Start(n - 1) = m * BlockSize
    BY <2>1, <2>2, StartsWhole
  <2>5. PICK c \in Counter : c = nonce0
    BY <2>2 DEF TypeInv
  <2>6. begun[r][n] = CounterBlock(c, m)
    BY <2>2, <2>4, <2>5 DEF StreamOk
  <2>7. CounterBlock(begun[r][n], k) = CounterBlock(c, m + k)
    BY <2>5, <2>6, CountOn
  <2>8. PICK q : q = p - 1 /\ q = (m + k) * BlockSize + z
    <3>1. PICK b \in Nat \ {0} : b = BlockSize
      BY Basics
    <3>2. (m + k) * b = m * b + k * b
      BY <3>1
    <3>3. PICK x \in Nat, y \in Nat : x = m * b /\ y = k * b
      BY <3>1
    <3>4. p - 1 - x = y + z /\ p \in Nat /\ z \in Nat
      BY <2>1, <2>2, <2>3, <2>4, <3>1, <3>3, TypesOf
    <3>5. p - 1 = x + y + z
      BY <3>3, <3>4
    <3>6. QED BY <3>1, <3>2, <3>3, <3>5
  <2>9. q \div BlockSize = m + k /\ q % BlockSize = z
    <3>1. PICK l \in Nat : l = m + k
      OBVIOUS
    <3>2. QED BY <2>8, <3>1, Basics, DigitsOf
  <2>10. QED BY <2>3, <2>5, <2>7, <2>8, <2>9
<1>4. QED BY <1>1, <1>2, <1>3, PTL DEF Spec
=============================================================================
