-------------------------- MODULE AesCipherProofs --------------------------
(***************************************************************************)
(* Proofs about AesCipher, for all tables that undo each other, every key  *)
(* and every block: decryption goes back through the states of encryption, *)
(* in both builds; the words of a context are those of FIPS 197; the two   *)
(* builds go through the same states; and what a block becomes is a        *)
(* function of the key and the block, a permutation of the blocks.         *)
(***************************************************************************)
EXTENDS AesCipher, FiniteSetTheorems, TLAPS

-----------------------------------------------------------------------------
(* Bytes.                                                                  *)

\* The exclusive or of two bytes is a byte.
LEMMA XorByte ==
  ASSUME NEW x \in Byte, NEW y \in Byte
  PROVE  Xor(x, y) \in Byte
BY DEF Xor, Byte

\* Adding a byte twice takes it away: why AddRoundKey undoes itself.
LEMMA XorUndoes ==
  ASSUME NEW x, NEW y
  PROVE  Xor(Xor(x, y), y) = x
BY DEF Xor

\* Adding the byte 0 changes nothing.
LEMMA XorNothing ==
  ASSUME NEW x
  PROVE  Xor(x, {}) = x
BY DEF Xor

\* A sum of four bytes, as MixColumns makes it, is a byte.
LEMMA SumByte ==
  ASSUME NEW a \in Byte, NEW b \in Byte, NEW c \in Byte, NEW d \in Byte
  PROVE  Sum(a, b, c, d) \in Byte
BY XorByte DEF Sum

\* Four sums of four terms, taken term by term.
LEMMA XorPairs ==
  ASSUME NEW a, NEW b, NEW c, NEW d
  PROVE  Xor(Xor(a, b), Xor(c, d)) = Xor(Xor(a, c), Xor(b, d))
BY DEF Xor

\* ^ is associative.
LEMMA XorAssoc ==
  ASSUME NEW a, NEW b, NEW c
  PROVE  Xor(a, Xor(b, c)) = Xor(Xor(a, b), c)
BY DEF Xor

\* Two sums of four terms, added term by term.
LEMMA SumPairs ==
  ASSUME NEW a, NEW b, NEW c, NEW d, NEW e, NEW f, NEW g, NEW h
  PROVE  Xor(Sum(a, b, c, d), Sum(e, f, g, h))
           = Sum(Xor(a, e), Xor(b, f), Xor(c, g), Xor(d, h))
BY XorPairs DEF Sum

\* Four sums of four terms, in either order of summation.
LEMMA SumTwice ==
  ASSUME NEW a1, NEW b1, NEW c1, NEW d1, NEW a2, NEW b2, NEW c2, NEW d2,
         NEW a3, NEW b3, NEW c3, NEW d3, NEW a4, NEW b4, NEW c4, NEW d4
  PROVE  Sum(Sum(a1, b1, c1, d1), Sum(a2, b2, c2, d2),
             Sum(a3, b3, c3, d3), Sum(a4, b4, c4, d4))
           = Sum(Sum(a1, a2, a3, a4), Sum(b1, b2, b3, b4),
                 Sum(c1, c2, c3, c4), Sum(d1, d2, d3, d4))
<1>1. Xor(Sum(a1, b1, c1, d1), Sum(a2, b2, c2, d2))
        = Sum(Xor(a1, a2), Xor(b1, b2), Xor(c1, c2), Xor(d1, d2))
  BY SumPairs
<1>2. Xor(Sum(Xor(a1, a2), Xor(b1, b2), Xor(c1, c2), Xor(d1, d2)),
          Sum(a3, b3, c3, d3))
        = Sum(Xor(Xor(a1, a2), a3), Xor(Xor(b1, b2), b3),
              Xor(Xor(c1, c2), c3), Xor(Xor(d1, d2), d3))
  BY SumPairs
<1>3. Xor(Sum(Xor(Xor(a1, a2), a3), Xor(Xor(b1, b2), b3),
              Xor(Xor(c1, c2), c3), Xor(Xor(d1, d2), d3)),
          Sum(a4, b4, c4, d4))
        = Sum(Xor(Xor(Xor(a1, a2), a3), a4), Xor(Xor(Xor(b1, b2), b3), b4),
              Xor(Xor(Xor(c1, c2), c3), c4), Xor(Xor(Xor(d1, d2), d3), d4))
  BY SumPairs
<1>4. QED BY <1>1, <1>2, <1>3, Zenon DEF Sum

\* The order of the terms of a sum.
LEMMA SumRotate ==
  ASSUME NEW a, NEW b, NEW c, NEW d
  PROVE  Sum(a, b, c, d) = Sum(b, c, d, a)
<1>1. Xor(a, b) = Xor(b, a)
  BY DEF Xor
<1>2. QED BY <1>1, XorAssoc DEF Sum, Xor

\* Multiplication distributes over a sum.
LEMMA gmulSum ==
  ASSUME NEW k \in {9, 11, 13, 14},
         NEW a \in Byte, NEW b \in Byte, NEW c \in Byte, NEW d \in Byte
  PROVE  gmul(Sum(a, b, c, d), k)
           = Sum(gmul(a, k), gmul(b, k), gmul(c, k), gmul(d, k))
<1>1. Xor(a, b) \in Byte /\ Xor(Xor(a, b), c) \in Byte
  BY XorByte
<1>2. gmul(Xor(a, b), k) = Xor(gmul(a, k), gmul(b, k))
  BY gmulAdds
<1>3. gmul(Xor(Xor(a, b), c), k) = Xor(gmul(Xor(a, b), k), gmul(c, k))
  BY <1>1, gmulAdds
<1>4. gmul(Xor(Xor(Xor(a, b), c), d), k)
        = Xor(gmul(Xor(Xor(a, b), c), k), gmul(d, k))
  BY <1>1, gmulAdds
<1>5. QED BY <1>2, <1>3, <1>4 DEF Sum

\* A byte of a column that has been mixed and is unmixed.
LEMMA Unmixed ==
  ASSUME NEW a \in Byte, NEW b \in Byte, NEW c \in Byte, NEW d \in Byte
  PROVE  Sum(gmul(Sum(gmul(a, 2), gmul(b, 3), c, d), 14),
             gmul(Sum(gmul(b, 2), gmul(c, 3), d, a), 11),
             gmul(Sum(gmul(c, 2), gmul(d, 3), a, b), 13),
             gmul(Sum(gmul(d, 2), gmul(a, 3), b, c), 9)) = a
<1>1. \A x \in Byte : gmul(x, 2) \in Byte /\ gmul(x, 3) \in Byte
  BY gmulType
<1>2. gmul(Sum(gmul(a, 2), gmul(b, 3), c, d), 14)
        = Sum(gmul(gmul(a, 2), 14), gmul(gmul(b, 3), 14), gmul(c, 14),
              gmul(d, 14))
  BY <1>1, gmulSum
<1>3. gmul(Sum(gmul(b, 2), gmul(c, 3), d, a), 11)
        = Sum(gmul(a, 11), gmul(gmul(b, 2), 11), gmul(gmul(c, 3), 11),
              gmul(d, 11))
  <2>1. Sum(gmul(b, 2), gmul(c, 3), d, a) = Sum(a, gmul(b, 2), gmul(c, 3), d)
    BY SumRotate
  <2>2. QED BY <1>1, <2>1, gmulSum
<1>4. gmul(Sum(gmul(c, 2), gmul(d, 3), a, b), 13)
        = Sum(gmul(a, 13), gmul(b, 13), gmul(gmul(c, 2), 13),
              gmul(gmul(d, 3), 13))
  <2>1. Sum(gmul(c, 2), gmul(d, 3), a, b) = Sum(a, b, gmul(c, 2), gmul(d, 3))
    BY SumRotate
  <2>2. QED BY <1>1, <2>1, gmulSum
<1>5. gmul(Sum(gmul(d, 2), gmul(a, 3), b, c), 9)
        = Sum(gmul(gmul(a, 3), 9), gmul(b, 9), gmul(c, 9),
              gmul(gmul(d, 2), 9))
  <2>1. Sum(gmul(d, 2), gmul(a, 3), b, c) = Sum(gmul(a, 3), b, c, gmul(d, 2))
    BY SumRotate
  <2>2. QED BY <1>1, <2>1, gmulSum
<1>6. Sum(gmul(gmul(a, 2), 14), gmul(a, 11), gmul(a, 13),
          gmul(gmul(a, 3), 9)) = a
  BY MatricesInverse
<1>7. Sum(gmul(gmul(b, 3), 14), gmul(gmul(b, 2), 11), gmul(b, 13),
          gmul(b, 9)) = {}
  BY MatricesInverse
<1>8. Sum(gmul(c, 14), gmul(gmul(c, 3), 11), gmul(gmul(c, 2), 13),
          gmul(c, 9)) = {}
  BY MatricesInverse
<1>9. Sum(gmul(d, 14), gmul(d, 11), gmul(gmul(d, 3), 13),
          gmul(gmul(d, 2), 9)) = {}
  BY MatricesInverse
<1>10. Sum(a, {}, {}, {}) = a
  BY XorNothing DEF Sum
<1>11. Sum(Sum(gmul(gmul(a, 2), 14), gmul(gmul(b, 3), 14), gmul(c, 14),
               gmul(d, 14)),
           Sum(gmul(a, 11), gmul(gmul(b, 2), 11), gmul(gmul(c, 3), 11),
               gmul(d, 11)),
           Sum(gmul(a, 13), gmul(b, 13), gmul(gmul(c, 2), 13),
               gmul(gmul(d, 3), 13)),
           Sum(gmul(gmul(a, 3), 9), gmul(b, 9), gmul(c, 9),
               gmul(gmul(d, 2), 9)))
         = Sum(Sum(gmul(gmul(a, 2), 14), gmul(a, 11), gmul(a, 13),
                   gmul(gmul(a, 3), 9)),
               Sum(gmul(gmul(b, 3), 14), gmul(gmul(b, 2), 11), gmul(b, 13),
                   gmul(b, 9)),
               Sum(gmul(c, 14), gmul(gmul(c, 3), 11), gmul(gmul(c, 2), 13),
                   gmul(c, 9)),
               Sum(gmul(d, 14), gmul(d, 11), gmul(gmul(d, 3), 13),
                   gmul(gmul(d, 2), 9)))
  BY SumTwice
<1>12. QED BY <1>2, <1>3, <1>4, <1>5, <1>6, <1>7, <1>8, <1>9, <1>10, <1>11

-----------------------------------------------------------------------------
(* Matrices.                                                               *)

Line == [0..3 -> Byte]
Matrix == [0..3 -> Line]

\* Two matrices are equal if they have equal entries.
LEMMA SameEntries ==
  ASSUME NEW m \in Matrix, NEW n \in Matrix,
         \A row \in 0..3, col \in 0..3 : m[row][col] = n[row][col]
  PROVE  m = n
<1>1. \A row \in 0..3 : m[row] = n[row]
  BY DEF Matrix, Line
<1>2. QED BY <1>1 DEF Matrix

\* What the entries of a row of four are.
LEMMA RowEntries ==
  ASSUME NEW a, NEW b, NEW c, NEW d
  PROVE  /\ Row(a, b, c, d)[0] = a /\ Row(a, b, c, d)[1] = b
         /\ Row(a, b, c, d)[2] = c /\ Row(a, b, c, d)[3] = d
BY DEF Row

\* A row whose bytes have moved n places to the left.
Rotated(f, n) == [col \in 0..3 |-> f[(col + n) % 4]]

\* The rows that ShiftRows and InvShiftRows write down are rotations.
LEMMA RotatedRows ==
  ASSUME NEW f \in Line
  PROVE  /\ Row(f[1], f[2], f[3], f[0]) = Rotated(f, 1)
         /\ Row(f[2], f[3], f[0], f[1]) = Rotated(f, 2)
         /\ Row(f[3], f[0], f[1], f[2]) = Rotated(f, 3)
BY DEF Row, Rotated, Line

\* ShiftRows takes the byte of a row from as many places to the right as
\* the number of the row.
LEMMA ShiftRowsEntries ==
  ASSUME NEW m \in Matrix
  PROVE  /\ ShiftRows(m) \in Matrix
         /\ \A row \in 0..3, col \in 0..3 :
              ShiftRows(m)[row][col] = m[row][(col + row) % 4]
<1>1. /\ m[0] \in Line /\ m[1] \in Line
      /\ m[2] \in Line /\ m[3] \in Line
  BY DEF Matrix
<1>2. \A f \in Line, n \in 0..3 : Rotated(f, n) \in Line
  BY DEF Rotated, Line
<1>3. ShiftRows(m) = Row(m[0], Rotated(m[1], 1), Rotated(m[2], 2),
                      Rotated(m[3], 3))
  BY <1>1, RotatedRows DEF ShiftRows
<1>4. /\ Rotated(m[1], 1) \in Line
      /\ Rotated(m[2], 2) \in Line
      /\ Rotated(m[3], 3) \in Line
  BY <1>1, <1>2
<1>5. /\ ShiftRows(m)[0] = m[0] /\ ShiftRows(m)[1] = Rotated(m[1], 1)
      /\ ShiftRows(m)[2] = Rotated(m[2], 2)
      /\ ShiftRows(m)[3] = Rotated(m[3], 3)
  BY <1>3, RowEntries
<1>6. ShiftRows(m) \in Matrix
  BY <1>1, <1>3, <1>4 DEF Row, Matrix
<1>7. QED BY <1>5, <1>6 DEF Rotated

\* InvShiftRows takes it from as many places to the left.
LEMMA InvShiftRowsEntries ==
  ASSUME NEW m \in Matrix
  PROVE  /\ InvShiftRows(m) \in Matrix
         /\ \A row \in 0..3, col \in 0..3 :
              InvShiftRows(m)[row][col] = m[row][(col + 3 * row) % 4]
<1>1. /\ m[0] \in Line /\ m[1] \in Line
      /\ m[2] \in Line /\ m[3] \in Line
  BY DEF Matrix
<1>2. \A f \in Line, n \in 0..3 : Rotated(f, n) \in Line
  BY DEF Rotated, Line
<1>3. InvShiftRows(m) = Row(m[0], Rotated(m[1], 3), Rotated(m[2], 2),
                      Rotated(m[3], 1))
  BY <1>1, RotatedRows DEF InvShiftRows
<1>4. /\ Rotated(m[1], 3) \in Line
      /\ Rotated(m[2], 2) \in Line
      /\ Rotated(m[3], 1) \in Line
  BY <1>1, <1>2
<1>5. /\ InvShiftRows(m)[0] = m[0] /\ InvShiftRows(m)[1] = Rotated(m[1], 3)
      /\ InvShiftRows(m)[2] = Rotated(m[2], 2)
      /\ InvShiftRows(m)[3] = Rotated(m[3], 1)
  BY <1>3, RowEntries
<1>6. InvShiftRows(m) \in Matrix
  BY <1>1, <1>3, <1>4 DEF Row, Matrix
<1>7. QED BY <1>5, <1>6 DEF Rotated

\* SubBytes and InvSubBytes replace every byte by its table's entry.
LEMMA SubBytesEntries ==
  ASSUME NEW m \in Matrix
  PROVE  /\ SubBytes(m) \in Matrix /\ InvSubBytes(m) \in Matrix
         /\ \A row \in 0..3, col \in 0..3 :
              /\ SubBytes(m)[row][col] = SBox[m[row][col]]
              /\ InvSubBytes(m)[row][col] = RSBox[m[row][col]]
BY SBoxType, RSBoxType DEF SubBytes, InvSubBytes, Matrix, Line

\* The shift of the rows and the substitution undo each other together.
LEMMA SubShiftUndone ==
  ASSUME NEW m \in Matrix
  PROVE  /\ ShiftRows(SubBytes(m)) \in Matrix
         /\ InvSubBytes(InvShiftRows(ShiftRows(SubBytes(m)))) = m
<1>1. SubBytes(m) \in Matrix
  BY SubBytesEntries
<1>2. ShiftRows(SubBytes(m)) \in Matrix
  BY <1>1, ShiftRowsEntries
<1>3. InvShiftRows(ShiftRows(SubBytes(m))) \in Matrix
  BY <1>2, InvShiftRowsEntries
<1>4. ASSUME NEW row \in 0..3, NEW col \in 0..3
      PROVE  InvSubBytes(InvShiftRows(ShiftRows(SubBytes(m))))[row][col]
               = m[row][col]
  <2>1. (col + 3 * row) % 4 \in 0..3
        /\ (((col + 3 * row) % 4) + row) % 4 = col
    <3>1. row = 0 \/ row = 1 \/ row = 2 \/ row = 3
      OBVIOUS
    <3>2. QED BY <3>1
  <2>2. InvShiftRows(ShiftRows(SubBytes(m)))[row][col]
          = ShiftRows(SubBytes(m))[row][(col + 3 * row) % 4]
    BY <1>2, InvShiftRowsEntries
  <2>3. ShiftRows(SubBytes(m))[row][(col + 3 * row) % 4]
          = SubBytes(m)[row][(((col + 3 * row) % 4) + row) % 4]
    BY <1>1, <2>1, ShiftRowsEntries
  <2>4. SubBytes(m)[row][col] = SBox[m[row][col]] /\ m[row][col] \in Byte
    BY SubBytesEntries DEF Matrix, Line
  <2>5. RSBox[SBox[m[row][col]]] = m[row][col]
    BY <2>4, TablesUndo
  <2>6. InvSubBytes(InvShiftRows(ShiftRows(SubBytes(m))))[row][col]
          = RSBox[InvShiftRows(ShiftRows(SubBytes(m)))[row][col]]
    BY <1>3, SubBytesEntries
  <2>7. QED BY <2>1, <2>2, <2>3, <2>4, <2>5, <2>6
<1>5. InvSubBytes(InvShiftRows(ShiftRows(SubBytes(m)))) \in Matrix
  BY <1>3, SubBytesEntries
<1>6. QED BY <1>2, <1>4, <1>5, SameEntries

\* The byte n rows below, in the same column.
Under(m, row, col, n) == m[(row + n) % 4][col]

\* A byte that MixColumns writes, from the four bytes of its column.
LEMMA MixColumnsEntries ==
  ASSUME NEW m \in Matrix
  PROVE  /\ MixColumns(m) \in Matrix
         /\ \A row \in 0..3, col \in 0..3 :
              MixColumns(m)[row][col]
                = Sum(gmul(m[row][col], 2), gmul(Under(m, row, col, 1), 3),
                      Under(m, row, col, 2), Under(m, row, col, 3))
<1>1. \A row \in 0..3, col \in 0..3 :
        m[row][col] \in Byte /\ Under(m, row, col, 1) \in Byte
        /\ Under(m, row, col, 2) \in Byte /\ Under(m, row, col, 3) \in Byte
  BY DEF Matrix, Line, Under
<1> DEFINE New(row) ==
      [col \in 0..3 |->
         Sum(gmul(m[row][col], 2), gmul(Under(m, row, col, 1), 3),
             Under(m, row, col, 2), Under(m, row, col, 3))]
<1>2. \A row \in 0..3 : New(row) \in Line
  <2>1. \A x \in Byte : gmul(x, 2) \in Byte /\ gmul(x, 3) \in Byte
    BY gmulType
  <2>2. ASSUME NEW row \in 0..3, NEW col \in 0..3
        PROVE  Sum(gmul(m[row][col], 2), gmul(Under(m, row, col, 1), 3),
                   Under(m, row, col, 2), Under(m, row, col, 3)) \in Byte
    BY <1>1, <2>1, SumByte
  <2>3. QED BY <2>2 DEF Line
<1>3. MixColumns(m) = Row(New(0), New(1), New(2), New(3))
  BY DEF MixColumns, Times, Mix, Under
<1>4. /\ MixColumns(m)[0] = New(0) /\ MixColumns(m)[1] = New(1)
      /\ MixColumns(m)[2] = New(2) /\ MixColumns(m)[3] = New(3)
  BY <1>3, RowEntries
<1>5. \A row \in 0..3 : MixColumns(m)[row] = New(row)
  BY <1>4
<1>6. MixColumns(m) \in Matrix
  BY <1>2, <1>3 DEF Row, Matrix
<1>7. QED BY <1>5, <1>6

\* A byte that InvMixColumns writes, from the four bytes of its column.
LEMMA InvMixColumnsEntries ==
  ASSUME NEW m \in Matrix
  PROVE  /\ InvMixColumns(m) \in Matrix
         /\ \A row \in 0..3, col \in 0..3 :
              InvMixColumns(m)[row][col]
                = Sum(gmul(m[row][col], 14), gmul(Under(m, row, col, 1), 11),
                      gmul(Under(m, row, col, 2), 13),
                      gmul(Under(m, row, col, 3), 9))
<1>1. \A row \in 0..3, col \in 0..3 :
        m[row][col] \in Byte /\ Under(m, row, col, 1) \in Byte
        /\ Under(m, row, col, 2) \in Byte /\ Under(m, row, col, 3) \in Byte
  BY DEF Matrix, Line, Under
<1> DEFINE New(row) ==
      [col \in 0..3 |->
         Sum(gmul(m[row][col], 14), gmul(Under(m, row, col, 1), 11),
             gmul(Under(m, row, col, 2), 13), gmul(Under(m, row, col, 3), 9))]
<1>2. \A row \in 0..3 : New(row) \in Line
  <2>1. \A x \in Byte : /\ gmul(x, 14) \in Byte /\ gmul(x, 11) \in Byte
                        /\ gmul(x, 13) \in Byte /\ gmul(x, 9) \in Byte
    BY gmulType
  <2>2. ASSUME NEW row \in 0..3, NEW col \in 0..3
        PROVE  Sum(gmul(m[row][col], 14), gmul(Under(m, row, col, 1), 11),
                   gmul(Under(m, row, col, 2), 13),
                   gmul(Under(m, row, col, 3), 9)) \in Byte
    BY <1>1, <2>1, SumByte
  <2>3. QED BY <2>2 DEF Line
<1>3. InvMixColumns(m) = Row(New(0), New(1), New(2), New(3))
  BY DEF InvMixColumns, Times, InvMix, Under
<1>4. /\ InvMixColumns(m)[0] = New(0) /\ InvMixColumns(m)[1] = New(1)
      /\ InvMixColumns(m)[2] = New(2) /\ InvMixColumns(m)[3] = New(3)
  BY <1>3, RowEntries
<1>5. \A row \in 0..3 : InvMixColumns(m)[row] = New(row)
  BY <1>4
<1>6. InvMixColumns(m) \in Matrix
  BY <1>2, <1>3 DEF Row, Matrix
<1>7. QED BY <1>5, <1>6

\* InvMixColumns undoes MixColumns: the product of their two matrices is
\* the identity, in every column.
LEMMA MixUndone ==
  ASSUME NEW m \in Matrix
  PROVE  InvMixColumns(MixColumns(m)) = m
<1> DEFINE mixed == MixColumns(m)
<1>1. mixed \in Matrix /\ InvMixColumns(mixed) \in Matrix
  BY MixColumnsEntries, InvMixColumnsEntries
<1>2. ASSUME NEW row \in 0..3, NEW col \in 0..3
      PROVE  InvMixColumns(mixed)[row][col] = m[row][col]
  <2> DEFINE a == m[row][col]
             b == Under(m, row, col, 1)
             c == Under(m, row, col, 2)
             d == Under(m, row, col, 3)
  <2>1. a \in Byte /\ b \in Byte /\ c \in Byte /\ d \in Byte
    BY DEF Matrix, Line, Under
  <2>2. mixed[row][col] = Sum(gmul(a, 2), gmul(b, 3), c, d)
    BY MixColumnsEntries
  <2>3. Under(mixed, row, col, 1) = Sum(gmul(b, 2), gmul(c, 3), d, a)
    <3>1. Under(m, (row + 1) % 4, col, 1) = c
          /\ Under(m, (row + 1) % 4, col, 2) = d
          /\ Under(m, (row + 1) % 4, col, 3) = a
      BY DEF Under
    <3>2. (row + 1) % 4 \in 0..3
      OBVIOUS
    <3>3. QED BY <3>1, <3>2, MixColumnsEntries DEF Under
  <2>4. Under(mixed, row, col, 2) = Sum(gmul(c, 2), gmul(d, 3), a, b)
    <3>1. Under(m, (row + 2) % 4, col, 1) = d
          /\ Under(m, (row + 2) % 4, col, 2) = a
          /\ Under(m, (row + 2) % 4, col, 3) = b
      BY DEF Under
    <3>2. (row + 2) % 4 \in 0..3
      OBVIOUS
    <3>3. QED BY <3>1, <3>2, MixColumnsEntries DEF Under
  <2>5. Under(mixed, row, col, 3) = Sum(gmul(d, 2), gmul(a, 3), b, c)
    <3>1. Under(m, (row + 3) % 4, col, 1) = a
          /\ Under(m, (row + 3) % 4, col, 2) = b
          /\ Under(m, (row + 3) % 4, col, 3) = c
      BY DEF Under
    <3>2. (row + 3) % 4 \in 0..3
      OBVIOUS
    <3>3. QED BY <3>1, <3>2, MixColumnsEntries DEF Under
  <2>6. InvMixColumns(mixed)[row][col]
          = Sum(gmul(mixed[row][col], 14), gmul(Under(mixed, row, col, 1), 11),
                gmul(Under(mixed, row, col, 2), 13),
                gmul(Under(mixed, row, col, 3), 9))
    BY <1>1, InvMixColumnsEntries
  <2>7. Sum(gmul(Sum(gmul(a, 2), gmul(b, 3), c, d), 14),
            gmul(Sum(gmul(b, 2), gmul(c, 3), d, a), 11),
            gmul(Sum(gmul(c, 2), gmul(d, 3), a, b), 13),
            gmul(Sum(gmul(d, 2), gmul(a, 3), b, c), 9)) = a
    BY <2>1, Unmixed
  <2>8. QED BY <2>2, <2>3, <2>4, <2>5, <2>6, <2>7
<1>3. QED BY <1>1, <1>2, SameEntries

-----------------------------------------------------------------------------
(* Round keys, and registers read as matrices.                             *)

Schedule == [0..59 -> Word]
Register == [0..15 -> Byte]

\* The words of round k of the schedule w, added to a matrix.
AddWords(m, w, k) ==
  [row \in 0..3 |-> [col \in 0..3 |-> Xor(m[row][col], w[4 * k + col][row])]]

\* Adding the words of a round gives a matrix, and adding them again takes
\* them away.
LEMMA AddWordsUndone ==
  ASSUME NEW m \in Matrix, NEW w \in Schedule, NEW k \in 0..14
  PROVE  /\ AddWords(m, w, k) \in Matrix
         /\ AddWords(AddWords(m, w, k), w, k) = m
<1>1. \A row \in 0..3, col \in 0..3 :
        m[row][col] \in Byte /\ w[4 * k + col][row] \in Byte
  <2>1. \A col \in 0..3 : 4 * k + col \in 0..59
    OBVIOUS
  <2>2. QED BY <2>1 DEF Schedule, Word, Matrix, Line
<1>2. \A row \in 0..3, col \in 0..3 :
        Xor(m[row][col], w[4 * k + col][row]) \in Byte
  BY <1>1, XorByte
<1>3. AddWords(m, w, k) \in Matrix
  BY <1>2 DEF AddWords, Matrix, Line
<1>4. \A row \in 0..3, col \in 0..3 :
        AddWords(m, w, k)[row][col] = Xor(m[row][col], w[4 * k + col][row])
  BY DEF AddWords
<1> DEFINE again == AddWords(AddWords(m, w, k), w, k)
<1>5. \A row \in 0..3, col \in 0..3 :
        again[row][col] = Xor(AddWords(m, w, k)[row][col],
                              w[4 * k + col][row])
  BY DEF AddWords
<1>6. \A row \in 0..3, col \in 0..3 : again[row][col] = m[row][col]
  BY <1>4, <1>5, XorUndoes
<1>7. again \in Matrix
  <2>1. \A row \in 0..3, col \in 0..3 :
          Xor(AddWords(m, w, k)[row][col], w[4 * k + col][row]) \in Byte
    BY <1>1, <1>4, XorUndoes
  <2>2. QED BY <2>1 DEF AddWords, Matrix, Line
<1>8. QED BY <1>3, <1>6, <1>7, SameEntries

\* A block is read into the matrix column by column.
LEMMA LoadEntries ==
  ASSUME NEW x \in Register
  PROVE  /\ Load(x) \in Matrix
         /\ \A row \in 0..3, col \in 0..3 :
              Load(x)[row][col] = x[4 * col + row]
<1>1. \A row \in 0..3, col \in 0..3 : 4 * col + row \in 0..15
  OBVIOUS
<1>2. \A row \in 0..3, col \in 0..3 : x[4 * col + row] \in Byte
  BY <1>1 DEF Register
<1>3. QED BY <1>2 DEF Load, Matrix, Line

\* The places of a register are those of a matrix.
LEMMA Places ==
  /\ \A k \in 0..15 : k % 4 \in 0..3 /\ k \div 4 \in 0..3
                      /\ 4 * (k \div 4) + (k % 4) = k
  /\ \A row \in 0..3, col \in 0..3 :
       /\ 4 * col + row \in 0..15
       /\ (4 * col + row) % 4 = row
       /\ (4 * col + row) \div 4 = col
<1>1. ASSUME NEW k \in 0..15
      PROVE  k % 4 \in 0..3 /\ k \div 4 \in 0..3
             /\ 4 * (k \div 4) + (k % 4) = k
  OBVIOUS
<1>2. ASSUME NEW row \in 0..3, NEW col \in 0..3
      PROVE  /\ 4 * col + row \in 0..15
             /\ (4 * col + row) % 4 = row
             /\ (4 * col + row) \div 4 = col
  OBVIOUS
<1>3. QED BY <1>1, <1>2

\* Reading a block into the matrix and writing it out undo each other.
LEMMA LoadOut ==
  /\ \A m \in Matrix : Out(m) \in Register /\ Load(Out(m)) = m
  /\ \A x \in Register : Out(Load(x)) = x
<1>1. ASSUME NEW m \in Matrix
      PROVE  Out(m) \in Register /\ Load(Out(m)) = m
  <2>1. \A k \in 0..15 : m[k % 4][k \div 4] \in Byte
    BY Places DEF Matrix, Line
  <2>2. Out(m) \in Register
    BY <2>1 DEF Out, Register
  <2>3. \A row \in 0..3, col \in 0..3 :
          Out(m)[4 * col + row] = m[row][col]
    BY Places DEF Out
  <2>4. QED BY <2>2, <2>3, LoadEntries, SameEntries
<1>2. ASSUME NEW x \in Register
      PROVE  Out(Load(x)) = x
  <2>1. \A k \in 0..15 : Load(x)[k % 4][k \div 4] = x[4 * (k \div 4) + (k % 4)]
    BY Places, LoadEntries
  <2>2. \A k \in 0..15 : Load(x)[k % 4][k \div 4] = x[k]
    BY <2>1, Places
  <2>3. Out(Load(x)) = [k \in 0..15 |-> x[k]]
    BY <2>2 DEF Out
  <2>4. QED BY <2>3 DEF Register
<1>3. QED BY <1>1, <1>2

\* The substitution and the shift of a register are those of the matrix.
LEMMA SubShiftReg ==
  ASSUME NEW x \in Register
  PROVE  /\ SubReg(ShiftReg(x)) \in Register
         /\ Load(SubReg(ShiftReg(x))) = ShiftRows(SubBytes(Load(x)))
<1> DEFINE y == SubReg(ShiftReg(x))
           m == Load(x)
<1>1. \A k \in 0..15 : y[k] = SBox[x[(k + 4 * (k % 4)) % 16]]
  BY DEF SubReg, ShiftReg
<1>2. y \in Register
  BY SBoxType DEF SubReg, ShiftReg, Register
<1>3. m \in Matrix /\ SubBytes(m) \in Matrix
      /\ ShiftRows(SubBytes(m)) \in Matrix /\ Load(y) \in Matrix
  BY <1>2, LoadEntries, SubBytesEntries, ShiftRowsEntries
<1>4. ASSUME NEW row \in 0..3, NEW col \in 0..3
      PROVE  Load(y)[row][col] = ShiftRows(SubBytes(m))[row][col]
  <2>1. /\ (col + row) % 4 \in 0..3
        /\ (4 * col + row + 4 * row) % 16 = 4 * ((col + row) % 4) + row
    <3>1. row = 0 \/ row = 1 \/ row = 2 \/ row = 3
      OBVIOUS
    <3>2. QED BY <3>1
  <2>2. Load(y)[row][col] = y[4 * col + row]
    BY <1>2, LoadEntries
  <2>3. y[4 * col + row] = SBox[x[4 * ((col + row) % 4) + row]]
    <3>1. 4 * col + row \in 0..15 /\ (4 * col + row) % 4 = row
      BY Places
    <3>2. QED BY <1>1, <2>1, <3>1
  <2>4. ShiftRows(SubBytes(m))[row][col] = SubBytes(m)[row][(col + row) % 4]
    BY <1>3, ShiftRowsEntries
  <2>5. SubBytes(m)[row][(col + row) % 4] = SBox[m[row][(col + row) % 4]]
    <3>1. PICK z \in 0..3 : z = (col + row) % 4
      BY <2>1
    <3>2. SubBytes(m)[row][z] = SBox[m[row][z]]
      BY <1>3, SubBytesEntries
    <3>3. QED BY <3>1, <3>2
  <2>6. m[row][(col + row) % 4] = x[4 * ((col + row) % 4) + row]
    BY <2>1, LoadEntries
  <2>7. QED BY <2>2, <2>3, <2>4, <2>5, <2>6
<1>5. QED BY <1>2, <1>3, <1>4, SameEntries

\* The inverse shift and substitution of a register are the matrix's, too.
LEMMA InvSubShiftReg ==
  ASSUME NEW x \in Register
  PROVE  /\ InvSubReg(InvShiftReg(x)) \in Register
         /\ Load(InvSubReg(InvShiftReg(x)))
              = InvSubBytes(InvShiftRows(Load(x)))
<1> DEFINE y == InvSubReg(InvShiftReg(x))
           m == Load(x)
<1>1. \A k \in 0..15 : y[k] = RSBox[x[(k + 12 * (k % 4)) % 16]]
  BY DEF InvSubReg, InvShiftReg
<1>2. y \in Register
  BY RSBoxType DEF InvSubReg, InvShiftReg, Register
<1>3. m \in Matrix /\ InvShiftRows(m) \in Matrix
      /\ InvSubBytes(InvShiftRows(m)) \in Matrix /\ Load(y) \in Matrix
  BY <1>2, LoadEntries, SubBytesEntries, InvShiftRowsEntries
<1>4. ASSUME NEW row \in 0..3, NEW col \in 0..3
      PROVE  Load(y)[row][col] = InvSubBytes(InvShiftRows(m))[row][col]
  <2>1. /\ (col + 3 * row) % 4 \in 0..3
        /\ (4 * col + row + 12 * row) % 16 = 4 * ((col + 3 * row) % 4) + row
    <3>1. row = 0 \/ row = 1 \/ row = 2 \/ row = 3
      OBVIOUS
    <3>2. QED BY <3>1
  <2>2. Load(y)[row][col] = y[4 * col + row]
    BY <1>2, LoadEntries
  <2>3. y[4 * col + row] = RSBox[x[4 * ((col + 3 * row) % 4) + row]]
    BY <1>1, <2>1, Places
  <2>4. InvSubBytes(InvShiftRows(m))[row][col]
          = RSBox[InvShiftRows(m)[row][col]]
    BY <1>3, SubBytesEntries
  <2>5. InvShiftRows(m)[row][col] = m[row][(col + 3 * row) % 4]
    BY <1>3, InvShiftRowsEntries
  <2>6. m[row][(col + 3 * row) % 4] = x[4 * ((col + 3 * row) % 4) + row]
    BY <2>1, LoadEntries
  <2>7. QED BY <2>2, <2>3, <2>4, <2>5, <2>6
<1>5. QED BY <1>2, <1>3, <1>4, SameEntries

\* The byte below a place of a register is the one below it in the matrix.
LEMMA BelowEntries ==
  ASSUME NEW x \in Register, NEW row \in 0..3, NEW col \in 0..3,
         NEW n \in 0..3
  PROVE  /\ Below(x, 4 * col + row, n) = Under(Load(x), row, col, n)
         /\ Below(x, 4 * col + row, n) \in Byte
<1>1. /\ (row + n) % 4 \in 0..3
      /\ (4 * col + row + n) % 4 = (row + n) % 4
      /\ 4 * col + ((row + n) % 4) \in 0..15
  OBVIOUS
<1>2. Below(x, 4 * col + row, n) = x[4 * col + ((row + n) % 4)]
  BY <1>1, Places DEF Below
<1>3. Under(Load(x), row, col, n) = x[4 * col + ((row + n) % 4)]
  BY <1>1, LoadEntries DEF Under
<1>4. QED BY <1>1, <1>2, <1>3 DEF Register

\* A property of all places of a register, by row and column.
LEMMA EveryPlace ==
  ASSUME NEW x, x = [k \in 0..15 |-> x[k]],
         \A row \in 0..3, col \in 0..3 : x[4 * col + row] \in Byte
  PROVE  x \in Register
<1>1. ASSUME NEW k \in 0..15
      PROVE  x[k] \in Byte
  <2>1. x[4 * (k \div 4) + (k % 4)] \in Byte
    BY Places
  <2>2. QED BY <2>1, Places
<1>2. QED BY <1>1 DEF Register

\* The columns of a register are mixed as those of the matrix.
LEMMA MixRegMatrix ==
  ASSUME NEW x \in Register
  PROVE  /\ MixReg(x) \in Register
         /\ Load(MixReg(x)) = MixColumns(Load(x))
<1> DEFINE m == Load(x)
<1>1. m \in Matrix /\ MixColumns(m) \in Matrix
  BY LoadEntries, MixColumnsEntries
<1>2. ASSUME NEW row \in 0..3, NEW col \in 0..3
      PROVE  MixReg(x)[4 * col + row] = MixColumns(m)[row][col]
  <2> DEFINE k == 4 * col + row
  <2>1. MixReg(x)[k] = Sum(gmul(x[k], 2), gmul(Below(x, k, 1), 3),
                           Below(x, k, 2), Below(x, k, 3))
    BY Places DEF MixReg
  <2>2. x[k] = m[row][col]
    BY LoadEntries
  <2>3. /\ Below(x, k, 1) = Under(m, row, col, 1)
        /\ Below(x, k, 2) = Under(m, row, col, 2)
        /\ Below(x, k, 3) = Under(m, row, col, 3)
    BY BelowEntries
  <2>4. QED BY <1>1, <2>1, <2>2, <2>3, MixColumnsEntries
<1>3. MixReg(x) \in Register
  <2>1. \A row \in 0..3, col \in 0..3 : MixReg(x)[4 * col + row] \in Byte
    BY <1>1, <1>2 DEF Matrix, Line
  <2>2. MixReg(x) = [k \in 0..15 |-> MixReg(x)[k]]
    BY DEF MixReg
  <2>3. QED BY <2>1, <2>2, EveryPlace
<1>4. Load(MixReg(x)) \in Matrix
      /\ \A row \in 0..3, col \in 0..3 :
           Load(MixReg(x))[row][col] = MixColumns(m)[row][col]
  BY <1>2, <1>3, LoadEntries
<1>5. QED BY <1>1, <1>3, <1>4, SameEntries

\* And unmixed as those of the matrix.
LEMMA InvMixRegMatrix ==
  ASSUME NEW x \in Register
  PROVE  /\ InvMixReg(x) \in Register
         /\ Load(InvMixReg(x)) = InvMixColumns(Load(x))
<1> DEFINE m == Load(x)
<1>1. m \in Matrix /\ InvMixColumns(m) \in Matrix
  BY LoadEntries, InvMixColumnsEntries
<1>2. ASSUME NEW row \in 0..3, NEW col \in 0..3
      PROVE  InvMixReg(x)[4 * col + row] = InvMixColumns(m)[row][col]
  <2> DEFINE k == 4 * col + row
  <2>1. InvMixReg(x)[k]
          = Sum(gmul(x[k], 14), gmul(Below(x, k, 1), 11),
                gmul(Below(x, k, 2), 13), gmul(Below(x, k, 3), 9))
    BY Places DEF InvMixReg
  <2>2. x[k] = m[row][col]
    BY LoadEntries
  <2>3. /\ Below(x, k, 1) = Under(m, row, col, 1)
        /\ Below(x, k, 2) = Under(m, row, col, 2)
        /\ Below(x, k, 3) = Under(m, row, col, 3)
    BY BelowEntries
  <2>4. QED BY <1>1, <2>1, <2>2, <2>3, InvMixColumnsEntries
<1>3. InvMixReg(x) \in Register
  <2>1. \A row \in 0..3, col \in 0..3 : InvMixReg(x)[4 * col + row] \in Byte
    BY <1>1, <1>2 DEF Matrix, Line
  <2>2. InvMixReg(x) = [k \in 0..15 |-> InvMixReg(x)[k]]
    BY DEF InvMixReg
  <2>3. QED BY <2>1, <2>2, EveryPlace
<1>4. Load(InvMixReg(x)) \in Matrix
      /\ \A row \in 0..3, col \in 0..3 :
           Load(InvMixReg(x))[row][col] = InvMixColumns(m)[row][col]
  BY <1>2, <1>3, LoadEntries
<1>5. QED BY <1>1, <1>3, <1>4, SameEntries

\* InvMixColumns of the AES-NI build distributes over ^, which is why a round
\* key may go through aesimc on its own.
LEMMA InvMixRegXor ==
  ASSUME NEW x \in Register, NEW y \in Register
  PROVE  /\ XorReg(x, y) \in Register
         /\ XorReg(InvMixReg(x), InvMixReg(y)) = InvMixReg(XorReg(x, y))
<1>1. XorReg(x, y) \in Register
  BY XorByte DEF XorReg, Register
<1>2. ASSUME NEW k \in 0..15
      PROVE  Xor(InvMixReg(x)[k], InvMixReg(y)[k])
               = InvMixReg(XorReg(x, y))[k]
  <2> DEFINE z == XorReg(x, y)
             p(n) == 4 * (k \div 4) + ((k + n) % 4)
  <2>1. p(1) \in 0..15 /\ p(2) \in 0..15 /\ p(3) \in 0..15
    OBVIOUS
  <2>2. /\ x[k] \in Byte /\ x[p(1)] \in Byte
        /\ x[p(2)] \in Byte /\ x[p(3)] \in Byte
        /\ y[k] \in Byte /\ y[p(1)] \in Byte
        /\ y[p(2)] \in Byte /\ y[p(3)] \in Byte
    BY <2>1 DEF Register
  <2>3. /\ z[k] = Xor(x[k], y[k]) /\ z[p(1)] = Xor(x[p(1)], y[p(1)])
        /\ z[p(2)] = Xor(x[p(2)], y[p(2)])
        /\ z[p(3)] = Xor(x[p(3)], y[p(3)])
    BY <2>1 DEF XorReg
  <2> DEFINE Term(f) == Sum(gmul(f[k], 14), gmul(f[p(1)], 11),
                            gmul(f[p(2)], 13), gmul(f[p(3)], 9))
  <2>4. /\ InvMixReg(x)[k] = Term(x) /\ InvMixReg(y)[k] = Term(y)
        /\ InvMixReg(z)[k] = Term(z)
    BY DEF InvMixReg, Below
  <2>5. /\ gmul(z[k], 14) = Xor(gmul(x[k], 14), gmul(y[k], 14))
        /\ gmul(z[p(1)], 11) = Xor(gmul(x[p(1)], 11), gmul(y[p(1)], 11))
        /\ gmul(z[p(2)], 13) = Xor(gmul(x[p(2)], 13), gmul(y[p(2)], 13))
        /\ gmul(z[p(3)], 9) = Xor(gmul(x[p(3)], 9), gmul(y[p(3)], 9))
    BY <2>2, <2>3, gmulAdds
  <2>6. Xor(Term(x), Term(y)) = Term(z)
    BY <2>5, SumPairs
  <2>7. QED BY <2>4, <2>6
<1>3. XorReg(InvMixReg(x), InvMixReg(y))
        = [k \in 0..15 |-> InvMixReg(XorReg(x, y))[k]]
  BY <1>2 DEF XorReg
<1>4. InvMixReg(XorReg(x, y)) = [k \in 0..15 |-> InvMixReg(XorReg(x, y))[k]]
  BY DEF InvMixReg
<1>5. QED BY <1>1, <1>3, <1>4

\* The sixteen bytes of a round key are its four words, column by column.
LEMMA RoundKeyMatrix ==
  ASSUME rndk["ni"] \in Schedule, NEW k \in 0..14, NEW x \in Register
  PROVE  /\ RoundKey(k) \in Register
         /\ XorReg(x, RoundKey(k)) \in Register
         /\ Load(XorReg(x, RoundKey(k))) = AddWords(Load(x), rndk["ni"], k)
<1>1. ASSUME NEW row \in 0..3, NEW col \in 0..3
      PROVE  /\ RoundKey(k)[4 * col + row] = rndk["ni"][4 * k + col][row]
             /\ RoundKey(k)[4 * col + row] \in Byte
  <2>1. RoundKey(k)[4 * col + row] = rndk["ni"][4 * k + col][row]
    BY Places DEF RoundKey
  <2>2. 4 * k + col \in 0..59
    OBVIOUS
  <2>3. QED BY <2>1, <2>2 DEF Schedule, Word
<1>2. RoundKey(k) \in Register
  <2>1. RoundKey(k) = [j \in 0..15 |-> RoundKey(k)[j]]
    BY DEF RoundKey
  <2>2. QED BY <1>1, <2>1, EveryPlace
<1>3. XorReg(x, RoundKey(k)) \in Register
  BY <1>2, InvMixRegXor
<1>4. /\ Load(x) \in Matrix /\ Load(XorReg(x, RoundKey(k))) \in Matrix
      /\ AddWords(Load(x), rndk["ni"], k) \in Matrix
  BY <1>3, LoadEntries, AddWordsUndone
<1>5. ASSUME NEW row \in 0..3, NEW col \in 0..3
      PROVE  Load(XorReg(x, RoundKey(k)))[row][col]
               = AddWords(Load(x), rndk["ni"], k)[row][col]
  <2>1. Load(XorReg(x, RoundKey(k)))[row][col]
          = XorReg(x, RoundKey(k))[4 * col + row]
    BY <1>3, LoadEntries
  <2>2. XorReg(x, RoundKey(k))[4 * col + row]
          = Xor(x[4 * col + row], rndk["ni"][4 * k + col][row])
    BY <1>1, Places DEF XorReg
  <2>3. Load(x)[row][col] = x[4 * col + row]
    BY LoadEntries
  <2>4. AddWords(Load(x), rndk["ni"], k)[row][col]
          = Xor(Load(x)[row][col], rndk["ni"][4 * k + col][row])
    BY DEF AddWords
  <2>5. QED BY <2>1, <2>2, <2>3, <2>4
<1>6. QED BY <1>2, <1>3, <1>4, <1>5, SameEntries

\* A round of encryption and a last round, on a matrix.
Forth(m, w, k) == AddWords(MixColumns(ShiftRows(SubBytes(m))), w, k)
LastForth(m, w, k) == AddWords(ShiftRows(SubBytes(m)), w, k)

\* A round of decryption and a last round.
Back(m, w, k) == InvMixColumns(AddWords(InvSubBytes(InvShiftRows(m)), w, k))
LastBack(m, w, k) == AddWords(InvSubBytes(InvShiftRows(m)), w, k)

\* The AES instructions do on a register what the generic build does on the
\* matrix, decryption included, once the round key has gone through aesimc.
LEMMA Instructions ==
  ASSUME rndk["ni"] \in Schedule, NEW k \in 0..14, NEW x \in Register
  PROVE  /\ aesenc(x, RoundKey(k)) \in Register
         /\ Load(aesenc(x, RoundKey(k))) = Forth(Load(x), rndk["ni"], k)
         /\ aesenclast(x, RoundKey(k)) \in Register
         /\ Load(aesenclast(x, RoundKey(k)))
              = LastForth(Load(x), rndk["ni"], k)
         /\ aesdec(x, aesimc(RoundKey(k))) \in Register
         /\ Load(aesdec(x, aesimc(RoundKey(k))))
              = Back(Load(x), rndk["ni"], k)
         /\ aesdeclast(x, RoundKey(k)) \in Register
         /\ Load(aesdeclast(x, RoundKey(k)))
              = LastBack(Load(x), rndk["ni"], k)
<1> DEFINE y == SubReg(ShiftReg(x))
           z == InvSubReg(InvShiftReg(x))
<1>1. /\ y \in Register /\ Load(y) = ShiftRows(SubBytes(Load(x)))
      /\ z \in Register /\ Load(z) = InvSubBytes(InvShiftRows(Load(x)))
  BY SubShiftReg, InvSubShiftReg
<1>2. aesenclast(x, RoundKey(k)) \in Register
      /\ Load(aesenclast(x, RoundKey(k))) = LastForth(Load(x), rndk["ni"], k)
  BY <1>1, RoundKeyMatrix DEF aesenclast, LastForth
<1>3. aesdeclast(x, RoundKey(k)) \in Register
      /\ Load(aesdeclast(x, RoundKey(k))) = LastBack(Load(x), rndk["ni"], k)
  BY <1>1, RoundKeyMatrix DEF aesdeclast, LastBack
<1>4. aesenc(x, RoundKey(k)) \in Register
      /\ Load(aesenc(x, RoundKey(k))) = Forth(Load(x), rndk["ni"], k)
  <2>1. MixReg(y) \in Register
        /\ Load(MixReg(y)) = MixColumns(ShiftRows(SubBytes(Load(x))))
    BY <1>1, MixRegMatrix
  <2>2. XorReg(MixReg(y), RoundKey(k)) \in Register
        /\ Load(XorReg(MixReg(y), RoundKey(k)))
             = AddWords(Load(MixReg(y)), rndk["ni"], k)
    BY <2>1, RoundKeyMatrix
  <2>3. QED BY <2>1, <2>2 DEF aesenc, Forth
<1>5. aesdec(x, aesimc(RoundKey(k))) \in Register
      /\ Load(aesdec(x, aesimc(RoundKey(k)))) = Back(Load(x), rndk["ni"], k)
  <2> DEFINE u == XorReg(z, RoundKey(k))
  <2>1. RoundKey(k) \in Register /\ u \in Register
        /\ Load(u) = AddWords(Load(z), rndk["ni"], k)
    BY <1>1, RoundKeyMatrix
  <2>2. aesdec(x, aesimc(RoundKey(k))) = InvMixReg(u)
    BY <1>1, <2>1, InvMixRegXor DEF aesdec, aesimc
  <2>3. InvMixReg(u) \in Register
        /\ Load(InvMixReg(u)) = InvMixColumns(Load(u))
    BY <2>1, InvMixRegMatrix
  <2>4. QED BY <1>1, <2>1, <2>2, <2>3 DEF Back
<1>6. QED BY <1>2, <1>3, <1>4, <1>5

\* A round gives a matrix; a round of decryption takes the state that
\* SubBytes and ShiftRows made of a round's result to the state they made of
\* what the round was given.
LEMMA RoundUndone ==
  ASSUME NEW m \in Matrix, NEW w \in Schedule, NEW k \in 0..14
  PROVE  /\ Forth(m, w, k) \in Matrix /\ LastForth(m, w, k) \in Matrix
         /\ Back(ShiftRows(SubBytes(Forth(m, w, k))), w, k)
              = ShiftRows(SubBytes(m))
         /\ AddWords(LastForth(m, w, k), w, k) = ShiftRows(SubBytes(m))
<1>1. ShiftRows(SubBytes(m)) \in Matrix
  BY SubShiftUndone
<1>2. MixColumns(ShiftRows(SubBytes(m))) \in Matrix
      /\ InvMixColumns(MixColumns(ShiftRows(SubBytes(m))))
           = ShiftRows(SubBytes(m))
  BY <1>1, MixColumnsEntries, MixUndone
<1>3. /\ Forth(m, w, k) \in Matrix
      /\ AddWords(Forth(m, w, k), w, k)
           = MixColumns(ShiftRows(SubBytes(m)))
  BY <1>2, AddWordsUndone DEF Forth
<1>4. InvSubBytes(InvShiftRows(ShiftRows(SubBytes(Forth(m, w, k)))))
        = Forth(m, w, k)
  BY <1>3, SubShiftUndone
<1>5. Back(ShiftRows(SubBytes(Forth(m, w, k))), w, k)
        = ShiftRows(SubBytes(m))
  BY <1>2, <1>3, <1>4 DEF Back
<1>6. LastForth(m, w, k) \in Matrix
      /\ AddWords(LastForth(m, w, k), w, k) = ShiftRows(SubBytes(m))
  BY <1>1, AddWordsUndone DEF LastForth
<1>7. QED BY <1>3, <1>5, <1>6

-----------------------------------------------------------------------------
(* The inductive invariant.                                                *)

Quad == [0..3 -> Word]

\* The context, and where the expansion of its key is.
ContextInv ==
  /\ key \in Keys
  /\ rndk \in [Builds -> Schedule]
  /\ i \in [Builds -> Nat]
  /\ key1 \in Quad /\ key2 \in Quad
  /\ pc \in [Builds -> {"none", "made", "load", "expand", "ready", "aborted"}]
  /\ \A b \in Builds : pc[b] \in {"load", "expand", "ready"} =>
       key.nk \in {4, 6, 8} /\ rndn[b] = key.nk + 6
  /\ pc["generic"] = "load" => i["generic"] < key.nk
  /\ pc["generic"] = "expand" => i["generic"] >= key.nk
  /\ pc["ni"] = "expand" => i["ni"] >= (IF key.nk = 8 THEN 2 ELSE 1)

BlockInv ==
  /\ plain \in Register
  /\ enc \in [Builds -> Register] /\ dec \in [Builds -> Register]
  /\ s \in Matrix /\ block \in Register
  /\ r \in [Builds -> Int]
  /\ at \in [Builds -> {"start", "encrypt", "encrypted", "decrypt", "done"}]
  /\ trace \in [Builds -> Seq(Matrix)]

\* trace[b] holds the rounds of this block under the words of the context.
Recorded(b) ==
  /\ Len(trace[b]) >= 1
  /\ trace[b][1] = AddWords(Load(plain), rndk[b], 0)
  /\ \A k \in 1..Len(trace[b]) - 1 :
       trace[b][k + 1] = Forth(trace[b][k], rndk[b], k)

\* Where build b is, and what it has made of the block so far.
Rounds(b) ==
  /\ at[b] = "start" => trace[b] = <<>> /\ State(b) = Load(plain)
  /\ at[b] # "start" => Recorded(b) /\ \A c \in Builds : pc[c] = "ready"
  /\ at[b] = "encrypt" => /\ r[b] = Len(trace[b]) /\ r[b] <= rndn[b]
                          /\ State(b) = trace[b][r[b]]
  /\ Encrypted(b) =>
       /\ Len(trace[b]) = rndn[b]
       /\ Load(enc[b]) = LastForth(trace[b][rndn[b]], rndk[b], rndn[b])
  /\ at[b] = "encrypted" => State(b) = Load(enc[b])
  /\ at[b] = "decrypt" => /\ r[b] \in 0..rndn[b] - 1
                          /\ State(b) = ShiftRows(SubBytes(trace[b][r[b] + 1]))
  /\ at[b] = "done" => dec[b] = plain /\ State(b) = Load(plain)

IInv == ContextInv /\ BlockInv /\ \A b \in Builds : Rounds(b)

-----------------------------------------------------------------------------
(* The key schedules keep the words of the context words.                  *)

\* SubWord, RotWord, the round constant and ^ take words to words.
LEMMA WordOperators ==
  ASSUME NEW u \in Word, NEW v \in Word, NEW c \in Byte
  PROVE  /\ ZeroWord \in Word /\ XorWords(u, v) \in Word
         /\ SubWord(u) \in Word /\ RotWord(u) \in Word
         /\ AddRCon(u, c) \in Word
<1>1. ZeroWord \in Word
  BY DEF ZeroWord, Word, Byte
<1>2. XorWords(u, v) \in Word
  BY XorByte DEF XorWords, Word
<1>3. SubWord(u) \in Word
  BY SBoxType DEF SubWord, Word
<1>4. RotWord(u) \in Word
  BY DEF RotWord, Word
<1>5. AddRCon(u, c) \in Word
  <2>1. Xor(u[0], c) \in Byte
    BY XorByte DEF Word
  <2>2. QED BY <2>1 DEF AddRCon, Word
<1>6. QED BY <1>1, <1>2, <1>3, <1>4, <1>5

\* The next word of the generic schedule is a word, at a place that exists:
\* the loop of AES_KeyExpansion reads only words it has written, and only
\* the ten round constants there are.
LEMMA NextWordType ==
  ASSUME NEW w \in Schedule, NEW nk \in {4, 6, 8},
         NEW j \in nk .. Length(nk) - 1
  PROVE  NextWord(w, j, nk) \in Word /\ j \in 0..59
<1>1. j - 1 \in 0..59 /\ j - nk \in 0..59 /\ j \in 0..59
  BY DEF Length
<1>2. w[j - 1] \in Word /\ w[j - nk] \in Word
  BY <1>1 DEF Schedule
<1>3. SubWord(w[j - 1]) \in Word
      /\ SubWord(RotWord(w[j - 1])) \in Word
  <2>1. {} \in Byte
    BY DEF Byte
  <2>2. QED BY <1>2, <2>1, WordOperators
<1>4. ASSUME j % nk = 0
      PROVE  AddRCon(SubWord(RotWord(w[j - 1])), RCon[j \div nk]) \in Word
  <2>1. j \div nk \in 1..10
    BY <1>4 DEF Length
  <2>2. QED BY <1>3, <2>1, RConType, WordOperators
<1> DEFINE temp == CASE j % nk = 0 ->
                     AddRCon(SubWord(RotWord(w[j - 1])), RCon[j \div nk])
                [] nk = 8 /\ j % nk = 4 -> SubWord(w[j - 1])
                [] OTHER -> w[j - 1]
<1>5. temp \in Word
  <2>1. CASE j % nk = 0
    BY <2>1, <1>4
  <2>2. CASE j % nk # 0 /\ nk = 8 /\ j % nk = 4
    BY <2>2, <1>3
  <2>3. CASE j % nk # 0 /\ ~(nk = 8 /\ j % nk = 4)
    BY <2>3, <1>2
  <2>4. QED BY <2>1, <2>2, <2>3
<1>6. XorWords(w[j - nk], temp) \in Word
  <2>1. {} \in Byte
    BY DEF Byte
  <2>2. QED BY <1>2, <1>5, <2>1, WordOperators
<1>7. QED BY <1>1, <1>6 DEF NextWord

\* The instructions take registers to registers.
LEMMA AssistType ==
  ASSUME NEW x \in Quad, NEW c \in Byte
  PROVE  aeskeygenassist(x, c) \in Quad
<1>1. x[1] \in Word /\ x[3] \in Word
  BY DEF Quad
<1>2. SubWord(x[1]) \in Word /\ SubWord(x[3]) \in Word
  BY <1>1, WordOperators
<1>3. RotWord(SubWord(x[1])) \in Word /\ RotWord(SubWord(x[3])) \in Word
  BY <1>2, WordOperators
<1>4. /\ AddRCon(RotWord(SubWord(x[1])), c) \in Word
      /\ AddRCon(RotWord(SubWord(x[3])), c) \in Word
  BY <1>3, WordOperators
<1>5. QED BY <1>2, <1>4 DEF aeskeygenassist, Quad

\* Shifts, broadcasts, shuffles and ^ take registers to registers.
LEMMA QuadOperators ==
  ASSUME NEW x \in Quad, NEW y \in Quad
  PROVE  /\ slli4(x) \in Quad /\ srli12(x) \in Quad /\ XorRegs(x, y) \in Quad
         /\ \A d \in 0..3 : broadcast(x, d) \in Quad
         /\ shuffle(x, y, 1, 1, 0, 1) \in Quad
         /\ shuffle(x, y, 2, 3, 0, 1) \in Quad
<1>1. \A d \in 0..3 : x[d] \in Word /\ y[d] \in Word
  BY DEF Quad
<1>2. ZeroWord \in Word
  BY DEF ZeroWord, Word, Byte
<1>3. slli4(x) \in Quad /\ srli12(x) \in Quad
  BY <1>1, <1>2 DEF slli4, srli12, Quad
<1>4. XorRegs(x, y) \in Quad
  <2>1. {} \in Byte
    BY DEF Byte
  <2>2. \A d \in 0..3 : XorWords(x[d], y[d]) \in Word
    BY <1>1, <2>1, WordOperators
  <2>3. QED BY <2>2 DEF XorRegs, Quad
<1>5. \A d \in 0..3 : broadcast(x, d) \in Quad
  BY <1>1 DEF broadcast, Quad
<1>6. /\ shuffle(x, y, 1, 1, 0, 1) \in Quad
      /\ shuffle(x, y, 2, 3, 0, 1) \in Quad
  BY <1>1 DEF shuffle, Quad
<1>7. QED BY <1>3, <1>4, <1>5, <1>6

\* What the three AESNI_KeyExpansion functions make are registers.
LEMMA KeyExpansionType ==
  ASSUME NEW x \in Quad, NEW assist \in Quad, NEW y \in Quad, NEW d \in 0..3
  PROVE  /\ KeyExpansion(x, assist, d) \in Quad
         /\ Expanded1(x, assist) \in Quad /\ Expanded2(y, x) \in Quad
<1>1. \A u, v \in Quad : XorRegs(u, v) \in Quad /\ slli4(u) \in Quad
                         /\ srli12(u) \in Quad
  BY QuadOperators
<1>2. broadcast(assist, d) \in Quad /\ broadcast(assist, 1) \in Quad
  BY QuadOperators
<1>3. KeyExpansion(x, assist, d) \in Quad
  <2> DEFINE once   == XorRegs(x, slli4(x))
             twice  == XorRegs(once, slli4(once))
             thrice == XorRegs(twice, slli4(twice))
  <2>1. once \in Quad
    BY <1>1
  <2>2. twice \in Quad
    BY <1>1, <2>1
  <2>3. thrice \in Quad
    BY <1>1, <2>2
  <2>4. XorRegs(thrice, broadcast(assist, d)) \in Quad
    BY <1>1, <1>2, <2>3
  <2>5. QED BY <2>4 DEF KeyExpansion
<1>4. Expanded1(x, assist) \in Quad
  <2> DEFINE tmp1 == slli4(x)
             tmp2 == slli4(tmp1)
             tmp3 == slli4(tmp2)
  <2>1. tmp1 \in Quad /\ XorRegs(x, tmp1) \in Quad
    BY <1>1
  <2>2. tmp2 \in Quad /\ XorRegs(XorRegs(x, tmp1), tmp2) \in Quad
    BY <1>1, <2>1
  <2>3. tmp3 \in Quad
        /\ XorRegs(XorRegs(XorRegs(x, tmp1), tmp2), tmp3) \in Quad
    BY <1>1, <2>2
  <2>4. QED BY <1>1, <1>2, <2>3 DEF Expanded1
<1>5. Expanded2(y, x) \in Quad
  <2>1. XorRegs(y, slli4(y)) \in Quad /\ XorRegs(slli4(x), srli12(y)) \in Quad
    BY <1>1
  <2>2. QED BY <1>1, <2>1 DEF Expanded2
<1>6. QED BY <1>3, <1>4, <1>5

\* A register read from the context is four of its words ...
LEMMA RegType ==
  ASSUME NEW w \in Schedule, NEW k \in 0..14
  PROVE  Reg(w, k) \in Quad
<1>1. \A d \in 0..3 : w[4 * k + d] \in Word
  BY DEF Schedule
<1>2. QED BY <1>1 DEF Reg, Quad

\* ... and storing one leaves sixty words.
LEMMA StoreType ==
  ASSUME NEW w \in Schedule, NEW k \in 0..14, NEW x \in Quad
  PROVE  Store(w, k, x) \in Schedule
<1>1. \A j \in 4 * k .. 4 * k + 3 : x[j - 4 * k] \in Word
  BY DEF Quad
<1>2. QED BY <1>1 DEF Store, Schedule

-----------------------------------------------------------------------------
(* Every call on the context and every step of an expansion.               *)

\* The invariant of the context holds before it is created.
LEMMA ContextInvInit ==
  ASSUME ContextInit
  PROVE  ContextInv
<1>1. ZeroWord \in Word
  BY DEF ZeroWord, Word, Byte
<1>2. QED BY <1>1 DEF ContextInit, ContextInv, Schedule, Quad, Builds

\* A key of one of the three lengths, word by word.
LEMMA KeyWords ==
  ASSUME NEW k \in Keys, k.nk \in {4, 6, 8}, NEW j \in 0..k.nk - 1
  PROVE  k.word[j] \in Word /\ j \in 0..59
BY KeysType

\* AES_Context_Create, Flush, Destroy, Init and FlushInit keep it.
LEMMA CallsKeepContextInv ==
  ASSUME ContextInv,
         \/ AES_Context_Create \/ AES_Context_Flush \/ AES_Context_Destroy
         \/ \E k \in Keys : AES_Context_Init(k) \/ AES_Context_FlushInit(k)
  PROVE  ContextInv'
<1> USE DEF ContextInv
<1>1. ZeroWord \in Word /\ Zeroed \in [Builds -> Schedule]
  BY DEF ZeroWord, Word, Byte, Zeroed, Schedule
<1>2. CASE AES_Context_Create
  <2>1. rndk' \in [Builds -> Schedule]
    BY <1>2, JunkType DEF AES_Context_Create, Schedule
  <2>2. QED BY <1>2, <2>1 DEF AES_Context_Create, Builds
<1>3. CASE AES_Context_Flush
  BY <1>1, <1>3 DEF AES_Context_Flush, Builds
<1>4. CASE AES_Context_Destroy
  BY <1>4 DEF AES_Context_Destroy, Builds
<1>5. ASSUME NEW k \in Keys, Switch(k), rndk' \in [Builds -> Schedule]
      PROVE  ContextInv'
  <2>1. key' = k /\ i' = [b \in Builds |-> 0]
        /\ UNCHANGED <<key1, key2>>
    BY <1>5 DEF Switch
  <2>2. CASE /\ k.nk \in {4, 6, 8}
             /\ rndn' = [b \in Builds |->
                  CASE k.nk = 4 -> 10 [] k.nk = 6 -> 12 [] k.nk = 8 -> 14]
             /\ pc' = [b \in Builds |-> "load"]
    <3>1. \A b \in Builds : rndn'[b] = k.nk + 6
      BY <2>2
    <3>2. QED BY <1>5, <2>1, <2>2, <3>1 DEF Builds
  <2>3. CASE /\ k.nk \notin {4, 6, 8}
             /\ pc' = [b \in Builds |-> "aborted"]
             /\ UNCHANGED rndn
    BY <1>5, <2>1, <2>3 DEF Builds
  <2>4. QED BY <1>5, <2>2, <2>3 DEF Switch
<1>6. ASSUME NEW k \in Keys, AES_Context_Init(k) \/ AES_Context_FlushInit(k)
      PROVE  ContextInv'
  BY <1>1, <1>5, <1>6 DEF AES_Context_Init, AES_Context_FlushInit
<1>7. QED BY <1>2, <1>3, <1>4, <1>6

\* The two loops of the generic key expansion keep it.
LEMMA GenericKeepsContextInv ==
  ASSUME ContextInv, GenericLoad \/ GenericExpand
  PROVE  ContextInv'
<1> USE DEF ContextInv
<1> DEFINE j == i["generic"]
<1>1. "generic" \in Builds /\ "ni" \in Builds /\ j \in Nat
  BY DEF Builds
<1>2. CASE GenericLoad
  <2>1. key.nk \in {4, 6, 8} /\ j \in 0..key.nk - 1
    BY <1>1, <1>2 DEF GenericLoad
  <2>2. key.word[j] \in Word /\ j \in 0..59
    BY <2>1, KeyWords
  <2>3. rndk' \in [Builds -> Schedule]
    BY <1>1, <1>2, <2>2 DEF GenericLoad, Schedule
  <2>4. /\ i' = [i EXCEPT !["generic"] = j + 1]
        /\ pc' = [pc EXCEPT !["generic"] =
                    IF j + 1 < key.nk THEN "load" ELSE "expand"]
        /\ pc["generic"] = "load"
        /\ UNCHANGED <<key, rndn, key1, key2>>
    BY <1>2 DEF GenericLoad, Goto
  <2>5. i' \in [Builds -> Nat]
    BY <1>1, <2>4
  <2>6. pc' \in [Builds ->
                  {"none", "made", "load", "expand", "ready", "aborted"}]
    BY <1>1, <2>4
  <2>7. /\ i'["generic"] = j + 1 /\ i'["ni"] = i["ni"]
        /\ pc'["generic"] = IF j + 1 < key.nk THEN "load" ELSE "expand"
        /\ pc'["ni"] = pc["ni"]
    BY <1>1, <2>4
  <2>8. \A b \in Builds : pc'[b] \in {"load", "expand", "ready"} =>
          key'.nk \in {4, 6, 8} /\ rndn'[b] = key'.nk + 6
    BY <2>1, <2>4, <2>7 DEF Builds
  <2>9. QED BY <2>1, <2>3, <2>4, <2>5, <2>6, <2>7, <2>8
<1>3. CASE GenericExpand
  <2>1. /\ key.nk \in {4, 6, 8} /\ j \in key.nk .. Length(key.nk) - 1
        /\ rndk["generic"] \in Schedule
    BY <1>1, <1>3 DEF GenericExpand, Length
  <2>2. NextWord(rndk["generic"], j, key.nk) \in Word /\ j \in 0..59
    BY <2>1, NextWordType
  <2>3. rndk' \in [Builds -> Schedule]
    BY <1>1, <1>3, <2>2 DEF GenericExpand, Schedule
  <2>4. /\ i' = [i EXCEPT !["generic"] = j + 1]
        /\ UNCHANGED <<key, rndn, key1, key2, pc>>
    BY <1>3 DEF GenericExpand
  <2>5. i' \in [Builds -> Nat] /\ i'["generic"] = j + 1 /\ i'["ni"] = i["ni"]
    BY <1>1, <2>4
  <2>6. pc["generic"] = "expand"
    BY <1>3 DEF GenericExpand
  <2>7. QED BY <2>1, <2>3, <2>4, <2>5, <2>6
<1>4. QED BY <1>2, <1>3

\* Loading the key into the registers of the AES-NI build keeps it.
LEMMA NiLoadKeepsContextInv ==
  ASSUME ContextInv, NiLoad
  PROVE  ContextInv'
<1> USE DEF ContextInv
<1> DEFINE first  == [d \in 0..3 |-> key.word[d]]
           second == [d \in 0..3 |-> IF d + 4 < key.nk THEN key.word[d + 4]
                                                       ELSE ZeroWord]
           w      == Store(rndk["ni"], 0, first)
<1>1. /\ "generic" \in Builds /\ "ni" \in Builds
      /\ key.nk \in {4, 6, 8} /\ pc["ni"] = "load"
      /\ rndk["ni"] \in Schedule
  BY DEF Builds, NiLoad
<1>2. first \in Quad
  <2>1. \A d \in 0..3 : key.word[d] \in Word
    BY <1>1, KeyWords
  <2>2. QED BY <2>1 DEF Quad
<1>3. second \in Quad
  <2>1. \A d \in 0..3 : d + 4 < key.nk => key.word[d + 4] \in Word
    BY <1>1, KeyWords
  <2>2. ZeroWord \in Word
    BY DEF ZeroWord, Word, Byte
  <2>3. QED BY <2>1, <2>2 DEF Quad
<1>4. w \in Schedule /\ Store(w, 1, second) \in Schedule
  BY <1>1, <1>2, <1>3, StoreType
<1>5. /\ rndk' = [rndk EXCEPT !["ni"] = IF key.nk = 4 THEN w
                                                      ELSE Store(w, 1, second)]
      /\ i' = [i EXCEPT !["ni"] = IF key.nk = 8 THEN 2 ELSE 1]
      /\ key1' = first /\ key2' = second
      /\ pc' = [pc EXCEPT !["ni"] = "expand"]
      /\ UNCHANGED <<key, rndn>>
  BY DEF NiLoad, Goto
<1> HIDE DEF first, second, w
<1>6. rndk' \in [Builds -> Schedule]
  BY <1>1, <1>4, <1>5
<1>7. /\ i' \in [Builds -> Nat]
      /\ pc' \in [Builds ->
                   {"none", "made", "load", "expand", "ready", "aborted"}]
      /\ i'["ni"] = (IF key.nk = 8 THEN 2 ELSE 1)
      /\ i'["generic"] = i["generic"] /\ pc'["generic"] = pc["generic"]
  BY <1>1, <1>5
<1>8. \A b \in Builds : pc'[b] \in {"load", "expand", "ready"} =>
        key'.nk \in {4, 6, 8} /\ rndn'[b] = key'.nk + 6
  BY <1>1, <1>5, <1>7 DEF Builds
<1>9. QED BY <1>2, <1>3, <1>5, <1>6, <1>7, <1>8

\* A step of an expansion keeps all but the words, two registers and i.
LEMMA NiExpandKeepsContextInv ==
  ASSUME ContextInv, NiExpand128 \/ NiExpand192 \/ NiExpand256
  PROVE  ContextInv'
<1> USE DEF ContextInv
<1> DEFINE k == i["ni"]
<1>1. /\ "generic" \in Builds /\ "ni" \in Builds
      /\ pc["ni"] = "expand" /\ key.nk \in {4, 6, 8}
      /\ rndk["ni"] \in Schedule /\ k \in Nat
      /\ k >= (IF key.nk = 8 THEN 2 ELSE 1)
  BY DEF Builds, NiExpand128, NiExpand192, NiExpand256
<1>2. SUFFICES rndk' \in [Builds -> Schedule]
               /\ key1' \in Quad /\ key2' \in Quad
  <2>1. /\ i' = [i EXCEPT !["ni"] = k + 1]
        /\ UNCHANGED <<key, rndn, pc>>
    BY DEF NiExpand128, NiExpand192, NiExpand256
  <2>2. i' \in [Builds -> Nat] /\ i'["ni"] = k + 1
        /\ i'["generic"] = i["generic"]
    BY <1>1, <2>1
  <2>3. QED BY <1>1, <1>2, <2>1, <2>2
<1>3. CASE NiExpand128
  <2>1. k \in 1..10 /\ k - 1 \in 0..14 /\ k \in 0..14
    BY <1>1, <1>3 DEF NiExpand128
  <2>2. Reg(rndk["ni"], k - 1) \in Quad /\ RCon[k] \in Byte
    BY <1>1, <2>1, RegType, RConType
  <2>3. aeskeygenassist(Reg(rndk["ni"], k - 1), RCon[k]) \in Quad
    BY <2>2, AssistType
  <2> DEFINE new == KeyExpansion(Reg(rndk["ni"], k - 1),
                     aeskeygenassist(Reg(rndk["ni"], k - 1), RCon[k]), 3)
  <2>4. new \in Quad
    BY <2>2, <2>3, KeyExpansionType
  <2>5. Store(rndk["ni"], k, new) \in Schedule
    BY <1>1, <2>1, <2>4, StoreType
  <2>6. /\ rndk' = [rndk EXCEPT !["ni"] = Store(rndk["ni"], k, new)]
        /\ UNCHANGED <<key1, key2>>
    BY <1>1, <1>3 DEF NiExpand128
  <2> HIDE DEF new
  <2>7. QED BY <1>1, <2>5, <2>6
<1>4. CASE NiExpand256
  <2>1. /\ k \in 2..14 /\ k \in 0..14
        /\ k - 1 \in 0..14 /\ k - 2 \in 0..14
    BY <1>1, <1>4 DEF NiExpand256
  <2>2. Reg(rndk["ni"], k - 1) \in Quad /\ Reg(rndk["ni"], k - 2) \in Quad
    BY <1>1, <2>1, RegType
  <2>3. NiNext256(rndk["ni"], k) \in Quad
    <3>1. CASE k % 2 = 0
      <4>1. RCon[k \div 2] \in Byte
        <5>1. k \div 2 \in 1..10
          BY <2>1
        <5>2. QED BY <5>1, RConType
      <4>2. aeskeygenassist(Reg(rndk["ni"], k - 1), RCon[k \div 2]) \in Quad
        BY <2>2, <4>1, AssistType
      <4>3. QED BY <2>2, <3>1, <4>2, KeyExpansionType DEF NiNext256
    <3>2. CASE k % 2 # 0
      <4>1. {} \in Byte
        BY DEF Byte
      <4>2. aeskeygenassist(Reg(rndk["ni"], k - 1), {}) \in Quad
        BY <2>2, <4>1, AssistType
      <4>3. QED BY <2>2, <3>2, <4>2, KeyExpansionType DEF NiNext256
    <3>3. QED BY <3>1, <3>2
  <2>4. Store(rndk["ni"], k, NiNext256(rndk["ni"], k)) \in Schedule
    BY <1>1, <2>1, <2>3, StoreType
  <2>5. /\ rndk' = [rndk EXCEPT !["ni"] =
                      Store(rndk["ni"], k, NiNext256(rndk["ni"], k))]
        /\ UNCHANGED <<key1, key2>>
    BY <1>1, <1>4 DEF NiExpand256
  <2>6. QED BY <1>1, <2>4, <2>5
<1>5. CASE NiExpand192
  <2> DEFINE h  == (k + 1) \div 2
             w  == rndk["ni"]
             x1 == Expanded1(key1, aeskeygenassist(key2, RCon[k]))
             x2 == Expanded2(key2, x1)
             odd == Store(Store(w, 3 * h - 2,
                                shuffle(Reg(w, 3 * h - 2), x1, 1, 1, 0, 1)),
                          3 * h - 1, shuffle(x1, x2, 2, 3, 0, 1))
             even == Store(Store(w, 3 * h, x1), 3 * h + 1, x2)
             last == Store(w, 12, x1)
  <2>1. k \in 1..8 /\ h \in 1..4
    <3>1. k \in 1..8
      BY <1>1, <1>5 DEF NiExpand192
    <3>2. QED BY <3>1
  <2>2. aeskeygenassist(key2, RCon[k]) \in Quad
    <3>1. RCon[k] \in Byte
      BY <2>1, RConType
    <3>2. QED BY <3>1, AssistType
  <2>3. x1 \in Quad
    BY <2>2, KeyExpansionType
  <2>4. x2 \in Quad
    BY <2>3, KeyExpansionType
  <2>5. /\ key1' = x1 /\ key2' = x2
        /\ rndk' = [rndk EXCEPT !["ni"] =
             CASE k % 2 = 1 -> odd
               [] k % 2 = 0 /\ k < 8 -> even
               [] k = 8 -> last]
    BY <1>5 DEF NiExpand192
  <2> HIDE DEF x1, x2
  <2>6. odd \in Schedule
    <3>1. 3 * h - 2 \in 0..14 /\ 3 * h - 1 \in 0..14
      BY <2>1
    <3>2. Reg(w, 3 * h - 2) \in Quad
      BY <1>1, <3>1, RegType
    <3>3. shuffle(Reg(w, 3 * h - 2), x1, 1, 1, 0, 1) \in Quad
          /\ shuffle(x1, x2, 2, 3, 0, 1) \in Quad
      BY <2>3, <2>4, <3>2, QuadOperators
    <3>4. Store(w, 3 * h - 2, shuffle(Reg(w, 3 * h - 2), x1, 1, 1, 0, 1))
            \in Schedule
      BY <1>1, <3>1, <3>3, StoreType
    <3>5. QED BY <3>1, <3>3, <3>4, StoreType
  <2>7. even \in Schedule
    <3>1. 3 * h \in 0..14 /\ 3 * h + 1 \in 0..14
      BY <2>1
    <3>2. Store(w, 3 * h, x1) \in Schedule
      BY <1>1, <2>3, <3>1, StoreType
    <3>3. QED BY <2>4, <3>1, <3>2, StoreType
  <2>8. last \in Schedule
    BY <1>1, <2>3, StoreType
  <2> HIDE DEF odd, even, last
  <2>9. (CASE k % 2 = 1 -> odd
           [] k % 2 = 0 /\ k < 8 -> even
           [] k = 8 -> last) \in Schedule
    <3>1. CASE k % 2 = 1
      <4>1. ~(k % 2 = 0 /\ k < 8) /\ k # 8
        BY <2>1, <3>1
      <4>2. QED BY <2>6, <3>1, <4>1
    <3>2. CASE k % 2 = 0 /\ k < 8
      <4>1. k % 2 # 1 /\ k # 8
        BY <2>1, <3>2
      <4>2. QED BY <2>7, <3>2, <4>1
    <3>3. CASE k = 8
      <4>1. k % 2 # 1 /\ ~(k < 8)
        BY <2>1, <3>3
      <4>2. QED BY <2>8, <3>3, <4>1
    <3>4. QED BY <2>1, <3>1, <3>2, <3>3
  <2>10. QED BY <1>1, <2>3, <2>4, <2>5, <2>9
<1>6. QED BY <1>3, <1>4, <1>5

\* The return of AES_Context_Init in a build keeps it.
LEMMA ReturnKeepsContextInv ==
  ASSUME ContextInv, NEW b \in Builds, Return(b)
  PROVE  ContextInv'
<1> USE DEF ContextInv
<1>1. /\ pc[b] = "expand"
      /\ pc' = [pc EXCEPT ![b] = "ready"]
      /\ UNCHANGED <<key, rndk, rndn, i>>
  BY DEF Return, Goto
<1>2. key1' \in Quad /\ key2' \in Quad
  <2>1. ZeroWord \in Word
    BY DEF ZeroWord, Word, Byte
  <2>2. QED BY <2>1 DEF Return, Quad
<1>3. /\ pc' \in [Builds ->
                   {"none", "made", "load", "expand", "ready", "aborted"}]
      /\ pc'[b] = "ready"
      /\ \A c \in Builds : c # b => pc'[c] = pc[c]
  BY <1>1
<1>4. \A c \in Builds : pc'[c] \in {"load", "expand", "ready"} =>
        key'.nk \in {4, 6, 8} /\ rndn'[c] = key'.nk + 6
  BY <1>1, <1>3
<1>5. /\ pc'["generic"] = "load" => pc["generic"] = "load"
      /\ pc'["generic"] = "expand" => pc["generic"] = "expand"
      /\ pc'["ni"] = "expand" => pc["ni"] = "expand"
  BY <1>3 DEF Builds
<1>6. QED BY <1>1, <1>2, <1>3, <1>4, <1>5

\* Every step on the context keeps it.
LEMMA ContextInvPreserved ==
  ASSUME ContextInv, ContextNext
  PROVE  ContextInv'
BY CallsKeepContextInv, GenericKeepsContextInv, NiLoadKeepsContextInv,
   NiExpandKeepsContextInv, ReturnKeepsContextInv DEF ContextNext

-----------------------------------------------------------------------------
(* The steps of the block functions, the same for both builds: what they   *)
(* do to the state of the build as a matrix.                               *)

\* Build b stays within its types and leaves the other build alone.
OnlyOf(b) ==
  /\ s' \in Matrix /\ block' \in Register
  /\ \A c \in Builds : c # b => State(c)' = State(c)

Starts(b) ==
  /\ Go(b, "start", "encrypt", 1)
  /\ State(b)' = AddWords(Load(plain), rndk[b], 0)
  /\ trace' = [trace EXCEPT ![b] = Append(trace[b], State(b)')]
  /\ UNCHANGED <<enc, dec>>

EncryptsRound(b) ==
  /\ r[b] < rndn[b]
  /\ Go(b, "encrypt", "encrypt", r[b] + 1)
  /\ State(b)' = Forth(State(b), rndk[b], r[b])
  /\ trace' = [trace EXCEPT ![b] = Append(trace[b], State(b)')]
  /\ UNCHANGED <<enc, dec>>

EncryptsLast(b) ==
  /\ r[b] >= rndn[b]
  /\ Go(b, "encrypt", "encrypted", r[b])
  /\ \E x \in Register :
       /\ Load(x) = LastForth(State(b), rndk[b], rndn[b])
       /\ State(b)' = Load(x)
       /\ enc' = [enc EXCEPT ![b] = x]
  /\ UNCHANGED <<dec, trace>>

DecryptsStart(b) ==
  /\ Go(b, "encrypted", "decrypt", rndn[b] - 1)
  /\ State(b)' = AddWords(Load(enc[b]), rndk[b], rndn[b])
  /\ UNCHANGED <<enc, dec, trace>>

DecryptsRound(b) ==
  /\ r[b] > 0
  /\ Go(b, "decrypt", "decrypt", r[b] - 1)
  /\ State(b)' = Back(State(b), rndk[b], r[b])
  /\ UNCHANGED <<enc, dec, trace>>

DecryptsLast(b) ==
  /\ r[b] <= 0
  /\ Go(b, "decrypt", "done", r[b])
  /\ \E x \in Register :
       /\ Load(x) = LastBack(State(b), rndk[b], 0)
       /\ State(b)' = Load(x)
       /\ dec' = [dec EXCEPT ![b] = x]
  /\ UNCHANGED <<enc, trace>>

Steps(b) ==
  /\ OnlyOf(b)
  /\ \/ Starts(b) \/ EncryptsRound(b) \/ EncryptsLast(b)
     \/ DecryptsStart(b) \/ DecryptsRound(b) \/ DecryptsLast(b)

\* What a step of a block function finds in the context and in its loop.
LEMMA AtWork ==
  ASSUME IInv, NEW b \in Builds, pc[b] = "ready"
  PROVE  /\ rndk[b] \in Schedule /\ rndn[b] \in 10..14 /\ r[b] \in Int
         /\ at[b] = "encrypt" => r[b] \in 1..rndn[b]
         /\ at[b] = "decrypt" => r[b] \in 0..rndn[b] - 1
         /\ trace[b] \in Seq(Matrix) /\ enc[b] \in Register
         /\ State(b) \in Matrix /\ Load(plain) \in Matrix
<1>1. ContextInv /\ BlockInv /\ Rounds(b)
  BY DEF IInv
<1>2. rndk[b] \in Schedule /\ rndn[b] \in {10, 12, 14}
  BY <1>1 DEF ContextInv
<1>3. State(b) \in Matrix /\ Load(plain) \in Matrix
  BY <1>1, LoadEntries DEF BlockInv, State
<1>4. /\ r[b] \in Int /\ trace[b] \in Seq(Matrix) /\ enc[b] \in Register
  BY <1>1 DEF BlockInv
<1>5. at[b] = "encrypt" => r[b] \in 1..rndn[b]
  BY <1>1, <1>2, <1>4 DEF Rounds, Recorded
<1>6. at[b] = "decrypt" => r[b] \in 0..rndn[b] - 1
  BY <1>1 DEF Rounds
<1>7. QED BY <1>2, <1>3, <1>4, <1>5, <1>6

\* The generic build adds the words of the context.
LEMMA AddRoundKeyWords ==
  ASSUME NEW m, NEW k
  PROVE  AddRoundKey(m, k) = AddWords(m, rndk["generic"], k)
BY DEF AddRoundKey, AddWords

\* Every step of aes/generic/block.c is the step of the same name on the
\* matrix.
LEMMA GenericSteps ==
  ASSUME IInv,
         \/ EncryptStart \/ EncryptRound \/ EncryptLast
         \/ DecryptStart \/ DecryptRound \/ DecryptLast
  PROVE  Steps("generic")
<1> DEFINE b == "generic"
           w == rndk[b]
<1>1. /\ b \in Builds /\ pc[b] = "ready"
      /\ s \in Matrix /\ block \in Register
  BY DEF IInv, BlockInv, Builds, EncryptStart, EncryptRound, EncryptLast,
     DecryptStart, DecryptRound, DecryptLast, Go
<1>2. /\ w \in Schedule /\ rndn[b] \in 10..14 /\ r[b] \in Int
      /\ at[b] = "encrypt" => r[b] \in 1..rndn[b]
      /\ at[b] = "decrypt" => r[b] \in 0..rndn[b] - 1
      /\ enc[b] \in Register /\ Load(plain) \in Matrix
  BY <1>1, AtWork
<1>3. State(b) = s /\ State(b)' = s'
  BY DEF State
<1>4. block' = block /\ \A c \in Builds : c # b => State(c)' = State(c)
  BY DEF Builds, State, EncryptStart, EncryptRound, EncryptLast,
     DecryptStart, DecryptRound, DecryptLast
<1>5. SUFFICES /\ s' \in Matrix
               /\ \/ Starts(b) \/ EncryptsRound(b) \/ EncryptsLast(b)
                  \/ DecryptsStart(b) \/ DecryptsRound(b) \/ DecryptsLast(b)
  BY <1>1, <1>4 DEF Steps, OnlyOf
<1>6. CASE EncryptStart
  <2>1. s' = AddWords(Load(plain), w, 0)
    BY <1>6, AddRoundKeyWords DEF EncryptStart
  <2>2. s' \in Matrix
    BY <1>2, <2>1, AddWordsUndone
  <2>3. Starts(b)
    BY <1>3, <1>6, <2>1 DEF EncryptStart, Starts, Record
  <2>4. QED BY <2>2, <2>3
<1>7. CASE EncryptRound
  <2>1. s' = Forth(s, w, r[b])
    BY <1>7, AddRoundKeyWords DEF EncryptRound, Forth
  <2>2. r[b] \in 0..14
    BY <1>2, <1>7 DEF EncryptRound, Go
  <2>3. s' \in Matrix
    BY <1>1, <1>2, <2>1, <2>2, RoundUndone
  <2>4. EncryptsRound(b)
    BY <1>3, <1>7, <2>1 DEF EncryptRound, EncryptsRound, Record
  <2>5. QED BY <2>3, <2>4
<1>8. CASE EncryptLast
  <2>1. s' = LastForth(s, w, rndn[b]) /\ enc' = [enc EXCEPT ![b] = Out(s')]
    BY <1>8, AddRoundKeyWords DEF EncryptLast, LastForth
  <2>2. rndn[b] \in 0..14
    BY <1>2
  <2>3. s' \in Matrix
    BY <1>1, <1>2, <2>1, <2>2, RoundUndone
  <2>4. Out(s') \in Register /\ Load(Out(s')) = s'
    BY <2>3, LoadOut
  <2>5. EncryptsLast(b)
    BY <1>3, <1>8, <2>1, <2>4 DEF EncryptLast, EncryptsLast
  <2>6. QED BY <2>3, <2>5
<1>9. CASE DecryptStart
  <2>1. s' = AddWords(Load(enc[b]), w, rndn[b])
    BY <1>9, AddRoundKeyWords DEF DecryptStart
  <2>2. rndn[b] \in 0..14 /\ Load(enc[b]) \in Matrix
    BY <1>2, LoadEntries
  <2>3. s' \in Matrix
    BY <1>2, <2>1, <2>2, AddWordsUndone
  <2>4. DecryptsStart(b)
    BY <1>3, <1>9, <2>1 DEF DecryptStart, DecryptsStart
  <2>5. QED BY <2>3, <2>4
<1>10. InvSubBytes(InvShiftRows(s)) \in Matrix
  BY <1>1, InvShiftRowsEntries, SubBytesEntries
<1>11. CASE DecryptRound
  <2>1. s' = Back(s, w, r[b])
    BY <1>11, AddRoundKeyWords DEF DecryptRound, Back
  <2>2. r[b] \in 0..14
    BY <1>2, <1>11 DEF DecryptRound, Go
  <2>3. AddWords(InvSubBytes(InvShiftRows(s)), w, r[b]) \in Matrix
    BY <1>2, <1>10, <2>2, AddWordsUndone
  <2>4. s' \in Matrix
    BY <2>1, <2>3, InvMixColumnsEntries DEF Back
  <2>5. DecryptsRound(b)
    BY <1>3, <1>11, <2>1 DEF DecryptRound, DecryptsRound
  <2>6. QED BY <2>4, <2>5
<1>12. CASE DecryptLast
  <2>1. s' = LastBack(s, w, 0) /\ dec' = [dec EXCEPT ![b] = Out(s')]
    BY <1>12, AddRoundKeyWords DEF DecryptLast, LastBack
  <2>2. s' \in Matrix
    BY <1>2, <1>10, <2>1, AddWordsUndone DEF LastBack
  <2>3. Out(s') \in Register /\ Load(Out(s')) = s'
    BY <2>2, LoadOut
  <2>4. DecryptsLast(b)
    BY <1>3, <1>12, <2>1, <2>3 DEF DecryptLast, DecryptsLast
  <2>5. QED BY <2>2, <2>4
<1>13. QED BY <1>6, <1>7, <1>8, <1>9, <1>11, <1>12

\* Every step of aes/ni/block.c is the step of the same name on the matrix
\* that the register is.
LEMMA NiSteps ==
  ASSUME IInv,
         \/ NiEncryptStart \/ NiEncryptRound \/ NiEncryptLast
         \/ NiDecryptStart \/ NiDecryptRound \/ NiDecryptLast
  PROVE  Steps("ni")
<1> DEFINE b == "ni"
           w == rndk[b]
<1>1. /\ b \in Builds /\ pc[b] = "ready"
      /\ s \in Matrix /\ block \in Register /\ plain \in Register
  BY DEF IInv, BlockInv, Builds, NiEncryptStart, NiEncryptRound,
     NiEncryptLast, NiDecryptStart, NiDecryptRound, NiDecryptLast, Go
<1>2. /\ w \in Schedule /\ rndn[b] \in 10..14 /\ r[b] \in Int
      /\ at[b] = "encrypt" => r[b] \in 1..rndn[b]
      /\ at[b] = "decrypt" => r[b] \in 0..rndn[b] - 1
      /\ enc[b] \in Register
  BY <1>1, AtWork
<1>3. State(b) = Load(block) /\ State(b)' = Load(block')
  BY DEF State
<1>4. s' = s /\ \A c \in Builds : c # b => State(c)' = State(c)
  BY DEF Builds, State, NiEncryptStart, NiEncryptRound,
     NiEncryptLast, NiDecryptStart, NiDecryptRound, NiDecryptLast
<1>5. SUFFICES /\ block' \in Register
               /\ \/ Starts(b) \/ EncryptsRound(b) \/ EncryptsLast(b)
                  \/ DecryptsStart(b) \/ DecryptsRound(b) \/ DecryptsLast(b)
  BY <1>1, <1>4 DEF Steps, OnlyOf
<1>6. CASE NiEncryptStart
  <2>1. block' = XorReg(plain, RoundKey(0))
    BY <1>6 DEF NiEncryptStart
  <2>2. block' \in Register /\ Load(block') = AddWords(Load(plain), w, 0)
    BY <1>1, <1>2, <2>1, RoundKeyMatrix
  <2>3. Starts(b)
    BY <1>3, <1>6, <2>2 DEF NiEncryptStart, Starts, Record
  <2>4. QED BY <2>2, <2>3
<1>7. CASE NiEncryptRound
  <2>1. block' = aesenc(block, RoundKey(r[b]))
    BY <1>7 DEF NiEncryptRound
  <2>2. r[b] \in 0..14
    BY <1>2, <1>7 DEF NiEncryptRound, Go
  <2>3. block' \in Register /\ Load(block') = Forth(Load(block), w, r[b])
    BY <1>1, <1>2, <2>1, <2>2, Instructions
  <2>4. EncryptsRound(b)
    BY <1>3, <1>7, <2>3 DEF NiEncryptRound, EncryptsRound, Record
  <2>5. QED BY <2>3, <2>4
<1>8. CASE NiEncryptLast
  <2>1. block' = aesenclast(block, RoundKey(rndn[b]))
        /\ enc' = [enc EXCEPT ![b] = block']
    BY <1>8 DEF NiEncryptLast
  <2>2. rndn[b] \in 0..14
    BY <1>2
  <2>3. /\ block' \in Register
        /\ Load(block') = LastForth(Load(block), w, rndn[b])
    BY <1>1, <1>2, <2>1, <2>2, Instructions
  <2>4. EncryptsLast(b)
    BY <1>3, <1>8, <2>1, <2>3 DEF NiEncryptLast, EncryptsLast
  <2>5. QED BY <2>3, <2>4
<1>9. CASE NiDecryptStart
  <2>1. block' = XorReg(enc[b], RoundKey(rndn[b]))
    BY <1>9 DEF NiDecryptStart
  <2>2. rndn[b] \in 0..14
    BY <1>2
  <2>3. /\ block' \in Register
        /\ Load(block') = AddWords(Load(enc[b]), w, rndn[b])
    BY <1>2, <2>1, <2>2, RoundKeyMatrix
  <2>4. DecryptsStart(b)
    BY <1>3, <1>9, <2>3 DEF NiDecryptStart, DecryptsStart
  <2>5. QED BY <2>3, <2>4
<1>10. CASE NiDecryptRound
  <2>1. block' = aesdec(block, aesimc(RoundKey(r[b])))
    BY <1>10 DEF NiDecryptRound
  <2>2. r[b] \in 0..14
    BY <1>2, <1>10 DEF NiDecryptRound, Go
  <2>3. block' \in Register /\ Load(block') = Back(Load(block), w, r[b])
    BY <1>1, <1>2, <2>1, <2>2, Instructions
  <2>4. DecryptsRound(b)
    BY <1>3, <1>10, <2>3 DEF NiDecryptRound, DecryptsRound
  <2>5. QED BY <2>3, <2>4
<1>11. CASE NiDecryptLast
  <2>1. block' = aesdeclast(block, RoundKey(0))
        /\ dec' = [dec EXCEPT ![b] = block']
    BY <1>11 DEF NiDecryptLast
  <2>2. block' \in Register /\ Load(block') = LastBack(Load(block), w, 0)
    BY <1>1, <1>2, <2>1, Instructions
  <2>3. DecryptsLast(b)
    BY <1>3, <1>11, <2>1, <2>2 DEF NiDecryptLast, DecryptsLast
  <2>4. QED BY <2>2, <2>3
<1>12. QED BY <1>6, <1>7, <1>8, <1>9, <1>10, <1>11

-----------------------------------------------------------------------------
(* The steps keep the invariant.                                           *)

\* A build that nothing happens to.
LEMMA UnmovedRounds ==
  ASSUME NEW c \in Builds, Rounds(c), UNCHANGED <<contextVars, plain>>,
         at'[c] = at[c], r'[c] = r[c], trace'[c] = trace[c],
         enc'[c] = enc[c], dec'[c] = dec[c], State(c)' = State(c)
  PROVE  Rounds(c)'
BY DEF Rounds, Recorded, Encrypted, contextVars

\* A step of one build keeps the types, the context and the other build.
LEMMA StepsKeepBlockInv ==
  ASSUME IInv, NEW b \in Builds, Steps(b)
  PROVE  /\ BlockInv' /\ ContextInv'
         /\ \A c \in Builds : c # b => Rounds(c)'
<1>1. BlockInv /\ ContextInv /\ \A c \in Builds : Rounds(c)
  BY DEF IInv
<1>2. PICK from, to, n : /\ Go(b, from, to, n) /\ n \in Int
                         /\ to \in {"encrypt", "encrypted", "decrypt", "done"}
  <2>1. pc[b] = "ready"
    BY DEF Steps, Starts, EncryptsRound, EncryptsLast, DecryptsStart,
       DecryptsRound, DecryptsLast, Go
  <2>2. r[b] \in Int /\ rndn[b] \in 10..14
    BY <2>1, AtWork
  <2>3. r[b] + 1 \in Int /\ r[b] - 1 \in Int /\ rndn[b] - 1 \in Int
    BY <2>2
  <2>4. \/ Go(b, "start", "encrypt", 1)
        \/ Go(b, "encrypt", "encrypt", r[b] + 1)
        \/ Go(b, "encrypt", "encrypted", r[b])
        \/ Go(b, "encrypted", "decrypt", rndn[b] - 1)
        \/ Go(b, "decrypt", "decrypt", r[b] - 1)
        \/ Go(b, "decrypt", "done", r[b])
    BY DEF Steps, Starts, EncryptsRound, EncryptsLast, DecryptsStart,
       DecryptsRound, DecryptsLast
  <2>5. QED BY <2>2, <2>3, <2>4
<1>3. /\ at' = [at EXCEPT ![b] = to] /\ r' = [r EXCEPT ![b] = n]
      /\ UNCHANGED <<contextVars, plain>> /\ pc[b] = "ready"
  BY <1>2 DEF Go
<1>4. ContextInv'
  BY <1>1, <1>3 DEF ContextInv, contextVars
<1>5. /\ s' \in Matrix /\ block' \in Register /\ State(b)' \in Matrix
      /\ \A c \in Builds : c # b => State(c)' = State(c)
  <2>1. s' \in Matrix /\ block' \in Register
    BY DEF Steps, OnlyOf
  <2>2. State(b)' \in Matrix
    BY <2>1, LoadEntries DEF State
  <2>3. QED BY <2>1, <2>2 DEF Steps, OnlyOf
<1>6. /\ at' \in [Builds ->
                   {"start", "encrypt", "encrypted", "decrypt", "done"}]
      /\ r' \in [Builds -> Int]
  BY <1>1, <1>2, <1>3 DEF BlockInv
<1>7. /\ enc' \in [Builds -> Register] /\ dec' \in [Builds -> Register]
      /\ \A c \in Builds : c # b => enc'[c] = enc[c] /\ dec'[c] = dec[c]
  <2>1. enc' = enc \/ \E x \in Register : enc' = [enc EXCEPT ![b] = x]
    BY DEF Steps, Starts, EncryptsRound, EncryptsLast, DecryptsStart,
       DecryptsRound, DecryptsLast
  <2>2. dec' = dec \/ \E x \in Register : dec' = [dec EXCEPT ![b] = x]
    BY DEF Steps, Starts, EncryptsRound, EncryptsLast, DecryptsStart,
       DecryptsRound, DecryptsLast
  <2>3. QED BY <1>1, <2>1, <2>2 DEF BlockInv
<1>8. /\ trace' \in [Builds -> Seq(Matrix)]
      /\ \A c \in Builds : c # b => trace'[c] = trace[c]
  <2>1. \/ trace' = trace
        \/ trace' = [trace EXCEPT ![b] = Append(trace[b], State(b)')]
    BY DEF Steps, Starts, EncryptsRound, EncryptsLast, DecryptsStart,
       DecryptsRound, DecryptsLast
  <2>2. Append(trace[b], State(b)') \in Seq(Matrix)
    BY <1>1, <1>5 DEF BlockInv
  <2>3. QED BY <1>1, <2>1, <2>2 DEF BlockInv
<1>9. BlockInv'
  BY <1>1, <1>3, <1>5, <1>6, <1>7, <1>8 DEF BlockInv
<1>10. ASSUME NEW c \in Builds, c # b
       PROVE  Rounds(c)'
  <2>1. at'[c] = at[c] /\ r'[c] = r[c]
    BY <1>1, <1>3, <1>10 DEF BlockInv
  <2>2. QED BY <1>1, <1>3, <1>5, <1>7, <1>8, <1>10, <2>1, UnmovedRounds
<1>11. QED BY <1>4, <1>9, <1>10

\* The matrices recorded stay what they are when the next one is appended.
LEMMA AppendRecord ==
  ASSUME NEW t \in Seq(Matrix), NEW m \in Matrix
  PROVE  /\ Len(Append(t, m)) = Len(t) + 1
         /\ Append(t, m)[Len(t) + 1] = m
         /\ \A k \in 1..Len(t) : Append(t, m)[k] = t[k]
OBVIOUS

\* A step of a build keeps what is said of its rounds: encryption records
\* one more, decryption takes the last one back.
LEMMA StepsKeepRounds ==
  ASSUME IInv, NEW b \in Builds, Steps(b)
  PROVE  Rounds(b)'
<1> DEFINE w == rndk[b]
           R == rndn[b]
           t == trace[b]
<1>1. BlockInv /\ Rounds(b)
  BY DEF IInv
<1>2. /\ \A c \in Builds : pc[c] = "ready"
      /\ UNCHANGED <<contextVars, plain>>
  BY DEF Steps, Starts, EncryptsRound, EncryptsLast, DecryptsStart,
     DecryptsRound, DecryptsLast, Go
<1>3. /\ w \in Schedule /\ R \in 10..14 /\ r[b] \in Int
      /\ at[b] = "encrypt" => r[b] \in 1..R
      /\ at[b] = "decrypt" => r[b] \in 0..R - 1
      /\ t \in Seq(Matrix) /\ enc[b] \in Register
      /\ State(b) \in Matrix /\ Load(plain) \in Matrix
  BY <1>2, AtWork
<1>4. /\ rndk'[b] = w /\ rndn'[b] = R /\ plain' = plain
      /\ \A c \in Builds : pc'[c] = "ready"
  BY <1>2 DEF contextVars
<1>5. State(b)' \in Matrix
  BY LoadEntries DEF Steps, OnlyOf, State
<1>6. ASSUME NEW from, NEW to, NEW n, Go(b, from, to, n)
      PROVE  at[b] = from /\ at'[b] = to /\ r'[b] = n
  BY <1>1, <1>6 DEF Go, BlockInv
<1>7. CASE Starts(b)
  <2>1. at[b] = "start" /\ at'[b] = "encrypt" /\ r'[b] = 1 /\ t = <<>>
    BY <1>1, <1>6, <1>7 DEF Starts, Rounds
  <2>2. State(b)' = AddWords(Load(plain), w, 0)
        /\ trace'[b] = Append(t, State(b)')
    BY <1>1, <1>7 DEF Starts, BlockInv
  <2>3. Len(trace'[b]) = 1 /\ trace'[b][1] = State(b)'
    BY <1>5, <2>1, <2>2
  <2>4. Recorded(b)'
    BY <1>4, <2>2, <2>3 DEF Recorded
  <2>5. QED BY <1>3, <1>4, <2>1, <2>3, <2>4 DEF Rounds, Encrypted
<1>8. CASE EncryptsRound(b)
  <2>1. at[b] = "encrypt" /\ at'[b] = "encrypt" /\ r'[b] = r[b] + 1
        /\ r[b] < R
    BY <1>6, <1>8 DEF EncryptsRound
  <2>2. Recorded(b) /\ r[b] = Len(t) /\ State(b) = t[r[b]]
    BY <1>1, <2>1 DEF Rounds
  <2>3. State(b)' = Forth(t[r[b]], w, r[b])
        /\ trace'[b] = Append(t, State(b)')
    BY <1>1, <1>8, <2>2 DEF EncryptsRound, BlockInv
  <2>4. /\ Len(trace'[b]) = Len(t) + 1 /\ trace'[b][Len(t) + 1] = State(b)'
        /\ \A k \in 1..Len(t) : trace'[b][k] = t[k]
    BY <1>3, <1>5, <2>3, AppendRecord
  <2>5. Len(t) \in Nat /\ Len(t) >= 1
    BY <1>3, <2>2 DEF Recorded
  <2>6. trace'[b][1] = AddWords(Load(plain), w, 0)
    BY <2>2, <2>4, <2>5 DEF Recorded
  <2>7. ASSUME NEW k \in 1..Len(trace'[b]) - 1
        PROVE  trace'[b][k + 1] = Forth(trace'[b][k], w, k)
    <3>1. k \in 1..Len(t) /\ trace'[b][k] = t[k]
      BY <2>4, <2>5
    <3>2. CASE k = Len(t)
      BY <2>2, <2>3, <2>4, <3>1, <3>2
    <3>3. CASE k # Len(t)
      <4>1. k \in 1..Len(t) - 1 /\ k + 1 \in 1..Len(t)
        BY <2>5, <3>1, <3>3
      <4>2. t[k + 1] = Forth(t[k], w, k)
        BY <2>2, <4>1 DEF Recorded
      <4>3. QED BY <2>4, <3>1, <4>1, <4>2
    <3>4. QED BY <3>2, <3>3
  <2>8. Recorded(b)'
    <3>1. Len(trace'[b]) >= 1
      BY <2>4, <2>5
    <3>2. \A k \in 1..Len(trace'[b]) - 1 :
            trace'[b][k + 1] = Forth(trace'[b][k], rndk'[b], k)
      BY <1>4, <2>7
    <3>3. trace'[b][1] = AddWords(Load(plain'), rndk'[b], 0)
      BY <1>4, <2>6
    <3>4. QED BY <3>1, <3>2, <3>3 DEF Recorded
  <2>9. r'[b] = Len(trace'[b]) /\ r'[b] <= R /\ State(b)' = trace'[b][r'[b]]
    BY <1>3, <2>1, <2>2, <2>4
  <2>10. QED BY <1>4, <2>1, <2>8, <2>9 DEF Rounds, Encrypted
<1>9. CASE EncryptsLast(b)
  <2>1. at[b] = "encrypt" /\ at'[b] = "encrypted" /\ r[b] >= R
    BY <1>6, <1>9 DEF EncryptsLast
  <2>2. /\ Recorded(b) /\ r[b] = Len(t) /\ State(b) = t[r[b]] /\ r[b] = R
    BY <1>1, <1>3, <2>1 DEF Rounds
  <2>3. /\ Load(enc'[b]) = LastForth(t[R], w, R) /\ trace' = trace
        /\ State(b)' = Load(enc'[b])
    BY <1>1, <1>9, <2>2 DEF EncryptsLast, BlockInv
  <2>4. Recorded(b)'
    BY <1>4, <2>2, <2>3 DEF Recorded
  <2>5. QED BY <1>4, <2>1, <2>2, <2>3, <2>4 DEF Rounds, Encrypted
<1>10. ASSUME Encrypted(b), Encrypted(b)', UNCHANGED <<enc, trace>>
       PROVE  /\ Recorded(b)'
              /\ Len(trace'[b]) = R
              /\ Load(enc'[b]) = LastForth(trace'[b][R], w, R)
  BY <1>1, <1>4, <1>10 DEF Rounds, Recorded, Encrypted
<1>11. CASE DecryptsStart(b)
  <2>1. /\ at[b] = "encrypted" /\ at'[b] = "decrypt" /\ r'[b] = R - 1
        /\ enc' = enc /\ trace' = trace
    BY <1>6, <1>11 DEF DecryptsStart
  <2>2. Encrypted(b) /\ Encrypted(b)'
    BY <2>1 DEF Encrypted
  <2>3. Len(t) = R /\ Load(enc[b]) = LastForth(t[R], w, R)
    BY <1>1, <2>2 DEF Rounds
  <2>4. t[R] \in Matrix /\ R \in 0..14
    BY <1>3, <2>3
  <2>5. State(b)' = ShiftRows(SubBytes(t[R]))
    BY <1>3, <1>11, <2>3, <2>4, RoundUndone DEF DecryptsStart
  <2>6. r'[b] \in 0..R - 1 /\ r'[b] + 1 = R
    BY <1>3, <2>1
  <2>7. QED BY <1>4, <1>10, <2>1, <2>2, <2>5, <2>6 DEF Rounds, Encrypted
<1>12. CASE DecryptsRound(b)
  <2>1. /\ at[b] = "decrypt" /\ at'[b] = "decrypt" /\ r'[b] = r[b] - 1
        /\ r[b] > 0 /\ enc' = enc /\ trace' = trace
    BY <1>6, <1>12 DEF DecryptsRound
  <2>2. Encrypted(b) /\ Encrypted(b)'
    BY <2>1 DEF Encrypted
  <2>3. Len(t) = R /\ Recorded(b) /\ r[b] \in 1..R - 1
        /\ State(b) = ShiftRows(SubBytes(t[r[b] + 1]))
    BY <1>1, <1>3, <2>1, <2>2 DEF Rounds
  <2>4. /\ t[r[b]] \in Matrix
        /\ r[b] \in 0..14 /\ r[b] \in 1..Len(t) - 1
    <3>1. R \in 10..14 /\ r[b] \in 1..R - 1 /\ Len(t) = R
      BY <1>3, <2>3
    <3>2. \A j \in 10..14 : \A k \in 1..j - 1 : k \in 0..14 /\ k \in 1..j
      OBVIOUS
    <3>3. r[b] \in 0..14 /\ r[b] \in 1..R
      BY <3>1, <3>2
    <3>4. r[b] \in 1..Len(t) - 1 /\ r[b] \in 1..Len(t)
      BY <3>1, <3>3
    <3>5. \A k \in 1..Len(t) : t[k] \in Matrix
      BY <1>3
    <3>6. QED BY <3>3, <3>4, <3>5
  <2>5. t[r[b] + 1] = Forth(t[r[b]], w, r[b])
    BY <2>3, <2>4 DEF Recorded
  <2>6. State(b)' = ShiftRows(SubBytes(t[r[b]]))
    <3>1. State(b)' = Back(State(b), w, r[b])
      BY <1>12 DEF DecryptsRound
    <3>2. Back(ShiftRows(SubBytes(Forth(t[r[b]], w, r[b]))), w, r[b])
            = ShiftRows(SubBytes(t[r[b]]))
      BY <1>3, <2>4, RoundUndone
    <3>3. QED BY <2>3, <2>5, <3>1, <3>2
  <2>7. r'[b] \in 0..R - 1 /\ r'[b] + 1 = r[b]
    BY <1>3, <2>1, <2>3
  <2>8. QED BY <1>4, <1>10, <2>1, <2>2, <2>6, <2>7 DEF Rounds, Encrypted
<1>13. CASE DecryptsLast(b)
  <2>1. /\ at[b] = "decrypt" /\ at'[b] = "done"
        /\ r[b] <= 0 /\ enc' = enc /\ trace' = trace
    BY <1>6, <1>13 DEF DecryptsLast
  <2>2. Encrypted(b) /\ Encrypted(b)'
    BY <2>1 DEF Encrypted
  <2>3. r[b] = 0 /\ Recorded(b) /\ Len(t) = R
        /\ State(b) = ShiftRows(SubBytes(t[1]))
    BY <1>1, <1>3, <2>1, <2>2 DEF Rounds
  <2>4. t[1] \in Matrix /\ t[1] = AddWords(Load(plain), w, 0)
    BY <1>3, <2>3 DEF Recorded
  <2>5. LastBack(State(b), w, 0) = AddWords(t[1], w, 0)
    BY <2>3, <2>4, SubShiftUndone DEF LastBack
  <2>6. AddWords(t[1], w, 0) = Load(plain)
    BY <1>3, <2>4, AddWordsUndone
  <2>7. /\ Load(dec'[b]) = Load(plain) /\ dec'[b] \in Register
        /\ State(b)' = Load(plain)
    BY <1>1, <1>13, <2>5, <2>6 DEF DecryptsLast, BlockInv
  <2>8. dec'[b] = plain
    <3>1. plain \in Register
      BY <1>1 DEF BlockInv
    <3>2. QED BY <2>7, <3>1, LoadOut
  <2>9. QED BY <1>4, <1>10, <2>1, <2>2, <2>7, <2>8 DEF Rounds, Encrypted
<1>14. QED BY <1>7, <1>8, <1>9, <1>11, <1>12, <1>13 DEF Steps

\* Where no block is under way, the context may change and the next block
\* may be taken.
LEMMA BetweenKeepsIInv ==
  ASSUME IInv, ContextStep \/ NextBlock
  PROVE  IInv'
<1>1. ContextInv /\ BlockInv /\ \A b \in Builds : Rounds(b)
  BY DEF IInv
<1>2. CASE ContextStep
  <2>1. ContextInv' /\ UNCHANGED blockVars
        /\ \A b \in Builds : at[b] = "start" /\ trace[b] = <<>>
    BY <1>1, <1>2, ContextInvPreserved DEF ContextStep, Rounds
  <2>2. BlockInv'
    BY <1>1, <2>1 DEF BlockInv, blockVars
  <2>3. \A b \in Builds : Rounds(b)'
    BY <1>1, <2>1 DEF Rounds, Encrypted, blockVars, State
  <2>4. QED BY <2>1, <2>2, <2>3 DEF IInv
<1>3. CASE NextBlock
  <2>1. /\ plain' \in Register /\ block' = plain' /\ s' = Load(plain')
        /\ enc' = Each(Blank) /\ dec' = Each(Blank)
        /\ r' = Each(0) /\ at' = Each("start") /\ trace' = Each(<<>>)
        /\ UNCHANGED contextVars
    BY <1>3, BlocksType DEF NextBlock, Register
  <2>2. ContextInv'
    BY <1>1, <2>1 DEF ContextInv, contextVars
  <2>3. Blank \in Register
    BY DEF Blank, Register, Byte
  <2>4. s' \in Matrix
    BY <2>1, LoadEntries
  <2>5. BlockInv'
    BY <2>1, <2>3, <2>4 DEF BlockInv, Each
  <2>6. \A b \in Builds : Rounds(b)'
    BY <2>1 DEF Rounds, Encrypted, Each, State
  <2>7. QED BY <2>2, <2>5, <2>6 DEF IInv
<1>4. QED BY <1>2, <1>3

\* The invariant holds in the initial states.
LEMMA IInvInit ==
  ASSUME Init
  PROVE  IInv
<1>1. ContextInv /\ \A b \in Builds : at[b] = "start" /\ trace[b] = <<>>
  BY ContextInvInit DEF Init, Each
<1>2. BlockInv
  <2>1. plain \in Register /\ Blank \in Register
    BY BlocksType DEF Init, Register, Blank, Byte
  <2>2. s \in Matrix
    BY <2>1, LoadEntries DEF Init
  <2>3. QED BY <2>1, <2>2 DEF Init, BlockInv, Each
<1>3. \A b \in Builds : Rounds(b)
  <2>1. s = Load(plain) /\ block = plain
    BY DEF Init
  <2>2. QED BY <1>1, <2>1 DEF Rounds, Encrypted, State
<1>4. QED BY <1>1, <1>2, <1>3 DEF IInv

\* Every step keeps the invariant.
LEMMA IInvPreserved ==
  ASSUME IInv, [Next]_vars
  PROVE  IInv'
<1>1. CASE Next
  <2>1. CASE \/ EncryptStart \/ EncryptRound \/ EncryptLast
             \/ DecryptStart \/ DecryptRound \/ DecryptLast
             \/ NiEncryptStart \/ NiEncryptRound \/ NiEncryptLast
             \/ NiDecryptStart \/ NiDecryptRound \/ NiDecryptLast
    <3>1. PICK b \in Builds : Steps(b)
      BY <2>1, GenericSteps, NiSteps DEF Builds
    <3>2. /\ BlockInv' /\ ContextInv'
          /\ \A c \in Builds : c # b => Rounds(c)'
      BY <3>1, StepsKeepBlockInv
    <3>3. Rounds(b)'
      BY <3>1, StepsKeepRounds
    <3>4. QED BY <3>2, <3>3 DEF IInv
  <2>2. QED BY <1>1, <2>1, BetweenKeepsIInv DEF Next
<1>2. CASE UNCHANGED vars
  BY <1>2 DEF IInv, ContextInv, BlockInv, Rounds, Recorded, Encrypted, State,
     vars, contextVars, blockVars
<1>3. QED BY <1>1, <1>2


-----------------------------------------------------------------------------
(* The schedules.                                                          *)

\* The first n words of w are those of the standard for the key k.
Followed(w, n, k) == \A j \in 0..n - 1 : w[j] = Standard(w, j, k)

Follows(b, n) == Followed(rndk[b], n, key)

\* How far a build has come; a context that is ready has the whole schedule.
GenericFollows ==
  /\ pc["generic"] \in {"load", "expand"} =>
       /\ i["generic"] <= Length(key.nk)
       /\ Follows("generic", i["generic"])
  /\ pc["generic"] = "ready" => Follows("generic", Length(key.nk))

NiFollows ==
  key.nk # 6 =>
    /\ pc["ni"] = "expand" => /\ i["ni"] <= key.nk + 7
                              /\ Follows("ni", 4 * i["ni"])
    /\ pc["ni"] = "ready" => Follows("ni", Length(key.nk))

ScheduleInv == GenericFollows /\ NiFollows

\* Exclusive or of words, from that of bytes.
LEMMA XorWordsNothing ==
  ASSUME NEW a \in Word
  PROVE  XorWords(a, ZeroWord) = a
<1>1. \A p : Xor(p, {}) = p
  BY DEF Xor
<1>2. a = [j \in 0..3 |-> a[j]]
  BY DEF Word
<1>3. QED BY <1>1, <1>2 DEF XorWords, ZeroWord

\* A word added twice is gone.
LEMMA XorWordsUndone ==
  ASSUME NEW a \in Word, NEW b
  PROVE  XorWords(XorWords(a, b), b) = a
<1>1. a = [j \in 0..3 |-> a[j]]
  BY DEF Word
<1>2. QED BY <1>1, XorUndoes DEF XorWords

\* A word in two sums is gone from their sum.
LEMMA XorWordsMiddle ==
  ASSUME NEW a, NEW b, NEW c
  PROVE  XorWords(XorWords(a, b), XorWords(b, c)) = XorWords(a, c)
<1>1. \A p, q, t : Xor(Xor(p, q), Xor(q, t)) = Xor(p, t)
  BY DEF Xor
<1>2. QED BY <1>1 DEF XorWords

\* Exclusive or of words is associative and commutative.
LEMMA XorWordsAssoc ==
  ASSUME NEW a, NEW b, NEW c
  PROVE  /\ XorWords(XorWords(a, b), c) = XorWords(a, XorWords(b, c))
         /\ XorWords(a, b) = XorWords(b, a)
<1>1. \A p, q, t : Xor(Xor(p, q), t) = Xor(p, Xor(q, t))
  BY DEF Xor
<1>2. \A p, q : Xor(p, q) = Xor(q, p)
  BY DEF Xor
<1>3. QED BY <1>1, <1>2 DEF XorWords

\* The three shifts of AESNI_KeyExpansion128 and 256 make of a register what
\* the standard makes word by word: each word is the old one ^ the one before.
LEMMA KeyExpansionWords ==
  ASSUME NEW x \in Quad, NEW assist \in Quad, NEW d \in 0..3
  PROVE  LET q == KeyExpansion(x, assist, d) IN
         /\ q[0] = XorWords(x[0], assist[d])
         /\ q[1] = XorWords(x[1], q[0])
         /\ q[2] = XorWords(x[2], q[1])
         /\ q[3] = XorWords(x[3], q[2])
<1> DEFINE once   == XorRegs(x, slli4(x))
           twice  == XorRegs(once, slli4(once))
           thrice == XorRegs(twice, slli4(twice))
           q      == KeyExpansion(x, assist, d)
           a == x[0]
           b == x[1]
           c == x[2]
           f == x[3]
           h == assist[d]
<1>1. /\ a \in Word /\ b \in Word /\ c \in Word /\ f \in Word /\ h \in Word
      /\ ZeroWord \in Word
  BY DEF Quad, ZeroWord, Word, Byte
<1>2. \A y : /\ XorRegs(y, slli4(y))[0] = XorWords(y[0], ZeroWord)
             /\ XorRegs(y, slli4(y))[1] = XorWords(y[1], y[0])
             /\ XorRegs(y, slli4(y))[2] = XorWords(y[2], y[1])
             /\ XorRegs(y, slli4(y))[3] = XorWords(y[3], y[2])
  BY DEF XorRegs, slli4
<1>3. /\ once[0] = a /\ once[1] = XorWords(b, a)
      /\ once[2] = XorWords(c, b) /\ once[3] = XorWords(f, c)
  BY <1>1, <1>2, XorWordsNothing
<1>4. /\ twice[0] = a /\ twice[1] = b
      /\ twice[2] = XorWords(c, a) /\ twice[3] = XorWords(f, b)
  <2>1. /\ twice[0] = XorWords(a, ZeroWord)
        /\ twice[1] = XorWords(XorWords(b, a), a)
        /\ twice[2] = XorWords(XorWords(c, b), XorWords(b, a))
        /\ twice[3] = XorWords(XorWords(f, c), XorWords(c, b))
    BY <1>2, <1>3
  <2>2. QED BY <1>1, <2>1, XorWordsNothing, XorWordsUndone, XorWordsMiddle
<1>5. /\ thrice[0] = a /\ thrice[1] = XorWords(b, a)
      /\ thrice[2] = XorWords(XorWords(c, a), b)
      /\ thrice[3] = XorWords(XorWords(f, b), XorWords(c, a))
  <2>1. thrice[0] = XorWords(a, ZeroWord)
    BY <1>2, <1>4
  <2>2. QED BY <1>1, <1>2, <1>4, <2>1, XorWordsNothing
<1>6. \A e \in 0..3 : q[e] = XorWords(thrice[e], h)
  BY DEF KeyExpansion, XorRegs, broadcast
<1>7. /\ q[0] = XorWords(a, h)
      /\ q[1] = XorWords(XorWords(b, a), h)
      /\ q[2] = XorWords(XorWords(XorWords(c, a), b), h)
      /\ q[3] = XorWords(XorWords(XorWords(f, b), XorWords(c, a)), h)
  BY <1>5, <1>6
<1> HIDE DEF once, twice, thrice, q, a, b, c, f, h
<1>8. q[1] = XorWords(b, q[0])
  BY <1>7, XorWordsAssoc
<1>9. q[2] = XorWords(c, q[1])
  <2>1. XorWords(XorWords(c, a), b) = XorWords(c, XorWords(b, a))
    BY XorWordsAssoc
  <2>2. XorWords(XorWords(c, XorWords(b, a)), h)
          = XorWords(c, XorWords(XorWords(b, a), h))
    BY XorWordsAssoc
  <2>3. QED BY <1>7, <2>1, <2>2
<1>10. q[3] = XorWords(f, q[2])
  <2>1. XorWords(XorWords(f, b), XorWords(c, a))
          = XorWords(f, XorWords(b, XorWords(c, a)))
    BY XorWordsAssoc
  <2>2. XorWords(b, XorWords(c, a)) = XorWords(XorWords(c, a), b)
    BY XorWordsAssoc
  <2>3. XorWords(XorWords(f, XorWords(XorWords(c, a), b)), h)
          = XorWords(f, XorWords(XorWords(XorWords(c, a), b), h))
    BY XorWordsAssoc
  <2>4. QED BY <1>7, <2>1, <2>2, <2>3
<1>11. q[0] = XorWords(a, h)
  BY <1>7
<1>12. QED BY <1>8, <1>9, <1>10, <1>11 DEF q, a, b, c, f, h

\* Both builds call the substitution and the rotation in the other's order.
LEMMA SubRotCommute ==
  ASSUME NEW u \in Word
  PROVE  RotWord(SubWord(u)) = SubWord(RotWord(u))
BY DEF RotWord, SubWord, Word

\* A key is of a size of the standard.
KeySize(k) == k.nk \in {4, 6, 8}

\* Two arrays have the same n words.
Agree(w, v, n) == \A l \in 0..n - 1 : w[l] = v[l]

\* A word of the standard depends on the words before it only.
LEMMA StandardLocal ==
  ASSUME NEW w, NEW v, NEW k, KeySize(k), NEW j \in 0..59, Agree(w, v, j)
  PROVE  Standard(w, j, k) = Standard(v, j, k)
<1>0. k.nk \in {4, 6, 8}
  BY DEF KeySize
<1>1. CASE j < k.nk
  BY <1>1 DEF Standard
<1>2. CASE j >= k.nk
  <2>1. j - 1 \in 0..j - 1 /\ j - k.nk \in 0..j - 1
    BY <1>0, <1>2
  <2>2. w[j - 1] = v[j - 1] /\ w[j - k.nk] = v[j - k.nk]
    BY <2>1 DEF Agree
  <2>3. QED BY <2>2 DEF Standard
<1>3. QED BY <1>0, <1>1, <1>2

\* The loop of AES_KeyExpansion computes the word of the standard.
LEMMA StandardNext ==
  ASSUME NEW w, NEW k, k.nk \in {4, 6, 8}, NEW j \in 0..59, j >= k.nk
  PROVE  Standard(w, j, k) = NextWord(w, j, k.nk)
<1>1. ~(j < k.nk) /\ (k.nk > 6 <=> k.nk = 8)
  OBVIOUS
<1>2. QED BY <1>1 DEF Standard, NextWord

Put(w, n, x) == [w EXCEPT ![n] = x]

\* One more word at the end of a schedule.
LEMMA FollowsWord ==
  ASSUME NEW w \in Schedule, NEW k, k.nk \in {4, 6, 8}, NEW n \in 0..59,
         Followed(w, n, k)
  PROVE  Followed(Put(w, n, Standard(w, n, k)), n + 1, k)
<1> DEFINE v == Put(w, n, Standard(w, n, k))
<1>1. \A l \in 0..n - 1 : v[l] = w[l]
  BY DEF Schedule, Put
<1>2. v[n] = Standard(w, n, k)
  BY DEF Schedule, Put
<1>3. ASSUME NEW j \in 0..n
      PROVE  v[j] = Standard(v, j, k)
  <2>1. j \in 0..59 /\ \A l \in 0..j - 1 : v[l] = w[l]
    BY <1>1
  <2> HIDE DEF v
  <2>2. Agree(v, w, j) /\ KeySize(k)
    BY <2>1 DEF Agree, KeySize
  <2>3. Standard(v, j, k) = Standard(w, j, k)
    BY <2>1, <2>2, StandardLocal
  <2>4. v[j] = Standard(w, j, k)
    BY <1>1, <1>2 DEF Followed
  <2>5. QED BY <2>3, <2>4
<1>4. 0..(n + 1) - 1 = 0..n
  OBVIOUS
<1> HIDE DEF v
<1>5. \A j \in 0..(n + 1) - 1 : v[j] = Standard(v, j, k)
  BY <1>3, <1>4
<1>6. Followed(v, n + 1, k)
  BY <1>5 DEF Followed
<1>7. QED BY <1>6 DEF v

\* A register stored at the end is not among the words before it.
LEMMA StandardOfStored ==
  ASSUME NEW w, NEW k, KeySize(k), NEW n \in 0..14, NEW x
  PROVE  Standard(Store(w, n, x), 4 * n, k) = Standard(w, 4 * n, k)
<1> DEFINE v == Store(w, n, x)
<1>1. \A l \in 0..4 * n - 1 : v[l] = w[l]
  BY DEF Store
<1>2. PICK j \in 0..59 : j = 4 * n
  OBVIOUS
<1> HIDE DEF v
<1>3. Agree(v, w, j)
  BY <1>1, <1>2 DEF Agree
<1>4. Standard(v, j, k) = Standard(w, j, k)
  BY <1>3, StandardLocal
<1>5. QED BY <1>2, <1>4 DEF v

\* One more register at the end of a schedule.
LEMMA FollowsRegister ==
  ASSUME NEW w \in Schedule, NEW k, k.nk \in {4, 8}, NEW n \in 0..14,
         NEW x \in Quad, Followed(w, 4 * n, k),
         \A e \in 0..3 : x[e] = Standard(Store(w, n, x), 4 * n + e, k)
  PROVE  Followed(Store(w, n, x), 4 * (n + 1), k)
<1> DEFINE v == Store(w, n, x)
<1>1. \A l \in 0..4 * n - 1 : v[l] = w[l]
  BY DEF Store
<1>2. SUFFICES ASSUME NEW j \in 0..4 * (n + 1) - 1
               PROVE  v[j] = Standard(v, j, k)
  BY DEF Followed
<1>3. j \in 0..59
  OBVIOUS
<1>4. CASE j < 4 * n
  <2>1. j \in 0..4 * n - 1 /\ \A l \in 0..j - 1 : v[l] = w[l]
    BY <1>1, <1>4
  <2>2. w[j] = Standard(w, j, k) /\ v[j] = w[j]
    BY <1>1, <2>1 DEF Followed
  <2> HIDE DEF v
  <2>3. Agree(v, w, j) /\ KeySize(k)
    BY <2>1 DEF Agree, KeySize
  <2>4. Standard(v, j, k) = Standard(w, j, k)
    BY <1>3, <2>3, StandardLocal
  <2>5. QED BY <2>2, <2>4
<1>5. CASE j >= 4 * n
  <2>1. PICK e \in 0..3 : j = 4 * n + e
    <3>1. j - 4 * n \in 0..3 /\ j = 4 * n + (j - 4 * n)
      BY <1>5
    <3>2. QED BY <3>1
  <2>2. v[j] = x[e]
    <3>1. j \in 4 * n .. 4 * n + 3 /\ j - 4 * n = e
      BY <2>1
    <3>2. QED BY <1>3, <3>1 DEF Store
  <2>3. QED BY <2>1, <2>2
<1>6. QED BY <1>4, <1>5

\* A build that a step on the context leaves alone.
LEMMA UnmovedFollows ==
  ASSUME ScheduleInv, key' = key
  PROVE  /\ /\ rndk'["generic"] = rndk["generic"]
            /\ i'["generic"] = i["generic"] /\ pc'["generic"] = pc["generic"]
            => GenericFollows'
         /\ /\ rndk'["ni"] = rndk["ni"]
            /\ i'["ni"] = i["ni"] /\ pc'["ni"] = pc["ni"]
            => NiFollows'
BY DEF ScheduleInv, GenericFollows, NiFollows, Follows

\* A context that is begun, flushed or gone has no words to be checked yet.
LEMMA CallsKeepScheduleInv ==
  ASSUME \/ AES_Context_Create \/ AES_Context_Flush \/ AES_Context_Destroy
         \/ \E k \in Keys : AES_Context_Init(k) \/ AES_Context_FlushInit(k)
  PROVE  ScheduleInv'
<1>1. CASE AES_Context_Create \/ AES_Context_Flush \/ AES_Context_Destroy
  <2>1. \A b \in Builds : pc'[b] \in {"none", "made"}
    BY <1>1 DEF AES_Context_Create, AES_Context_Flush, AES_Context_Destroy
  <2>2. QED BY <2>1 DEF ScheduleInv, GenericFollows, NiFollows, Builds
<1>2. ASSUME NEW k \in Keys, Switch(k)
      PROVE  ScheduleInv'
  <2>1. /\ \A b \in Builds : i'[b] = 0
        /\ \A b \in Builds : pc'[b] \in {"load", "aborted"}
        /\ pc'["generic"] = "load" => key'.nk \in {4, 6, 8}
    BY <1>2 DEF Switch, Builds
  <2>2. i'["generic"] = 0 /\ pc'["generic"] \in {"load", "aborted"}
        /\ pc'["ni"] \in {"load", "aborted"}
    BY <2>1 DEF Builds
  <2>3. Follows("generic", 0)'
    BY DEF Follows, Followed
  <2>4. pc'["generic"] = "load" => 0 <= Length(key'.nk)
    BY <2>1 DEF Length
  <2>5. QED BY <2>2, <2>3, <2>4 DEF ScheduleInv, GenericFollows, NiFollows
<1>3. QED BY <1>1, <1>2 DEF AES_Context_Init, AES_Context_FlushInit

\* The generic loops write the next word of the standard.
LEMMA GenericKeepsScheduleInv ==
  ASSUME ContextInv, ScheduleInv, GenericLoad \/ GenericExpand
  PROVE  ScheduleInv'
<1> DEFINE w == rndk["generic"]
           n == i["generic"]
<1>1. /\ "generic" \in Builds /\ "ni" \in Builds
      /\ w \in Schedule /\ n \in Nat /\ key \in Keys
      /\ pc["generic"] \in {"load", "expand"} /\ key.nk \in {4, 6, 8}
      /\ i \in [Builds -> Nat] /\ rndk \in [Builds -> Schedule]
  BY DEF Builds, ContextInv, GenericLoad, GenericExpand
<1>2. Followed(w, n, key)
  BY <1>1 DEF ScheduleInv, GenericFollows, Follows
<1>3. PICK new : /\ n \in 0..Length(key.nk) - 1
                 /\ rndk' = [rndk EXCEPT !["generic"][n] = new]
                 /\ new = Standard(w, n, key)
  <2>1. CASE GenericLoad
    <3>1. n \in 0..key.nk - 1
      BY <1>1, <2>1 DEF ContextInv, GenericLoad
    <3>2. Standard(w, n, key) = key.word[n]
      <4>1. n < key.nk
        BY <1>1, <3>1
      <4>2. QED BY <4>1 DEF Standard
    <3>3. n \in 0..Length(key.nk) - 1
      BY <1>1, <3>1 DEF Length
    <3>4. QED BY <2>1, <3>2, <3>3 DEF GenericLoad
  <2>2. CASE GenericExpand
    <3>1. n \in key.nk .. Length(key.nk) - 1
      BY <1>1, <2>2 DEF ContextInv, GenericExpand, Length
    <3>2. n \in 0..59 /\ n >= key.nk /\ n \in 0..Length(key.nk) - 1
      BY <1>1, <3>1 DEF Length
    <3>3. Standard(w, n, key) = NextWord(w, n, key.nk)
      BY <1>1, <3>2, StandardNext
    <3>4. QED BY <2>2, <3>2, <3>3 DEF GenericExpand
  <2>3. QED BY <2>1, <2>2
<1>4. n \in 0..59
  BY <1>1, <1>3 DEF Length
<1> DEFINE v == Put(w, n, Standard(w, n, key))
<1>5. Followed(v, n + 1, key)
  <2>1. w \in Schedule /\ key.nk \in {4, 6, 8}
    BY <1>1
  <2> HIDE DEF w, n
  <2>2. QED BY <1>2, <1>4, <2>1, FollowsWord
<1>6. /\ rndk'["generic"] = v /\ rndk'["ni"] = rndk["ni"]
  BY <1>1, <1>3 DEF Put
<1>7. /\ key' = key /\ i'["generic"] = n + 1 /\ i'["ni"] = i["ni"]
      /\ pc'["generic"] \in {"load", "expand"} /\ pc'["ni"] = pc["ni"]
  <2>1. /\ key' = key /\ i' = [i EXCEPT !["generic"] = n + 1]
    BY DEF GenericLoad, GenericExpand
  <2>2. /\ pc'["generic"] \in {"load", "expand"} /\ pc'["ni"] = pc["ni"]
    BY <1>1 DEF ContextInv, GenericLoad, GenericExpand, Goto
  <2>3. QED BY <1>1, <2>1, <2>2
<1> HIDE DEF v
<1>8. Follows("generic", i["generic"])'
  BY <1>5, <1>6, <1>7 DEF Follows
<1>9. i'["generic"] <= Length(key'.nk)
  BY <1>1, <1>3, <1>7 DEF Length
<1>10. GenericFollows'
  BY <1>7, <1>8, <1>9 DEF GenericFollows
<1>11. NiFollows'
  BY <1>6, <1>7, UnmovedFollows
<1>12. QED BY <1>10, <1>11 DEF ScheduleInv

\* The loads of the AES-NI build put the words of the key in their place.
LEMMA NiLoadKeepsScheduleInv ==
  ASSUME ContextInv, ScheduleInv, NiLoad
  PROVE  ScheduleInv'
<1> DEFINE first  == [d \in 0..3 |-> key.word[d]]
           second == [d \in 0..3 |-> IF d + 4 < key.nk THEN key.word[d + 4]
                                                       ELSE ZeroWord]
           w      == Store(rndk["ni"], 0, first)
           v      == Store(w, 1, second)
<1>1. /\ "generic" \in Builds /\ "ni" \in Builds
      /\ key.nk \in {4, 6, 8} /\ pc["ni"] = "load"
      /\ i \in [Builds -> Nat] /\ rndk \in [Builds -> Schedule]
      /\ DOMAIN pc = Builds
  BY DEF Builds, ContextInv, NiLoad
<1>2. /\ rndk' = [rndk EXCEPT !["ni"] = IF key.nk = 4 THEN w ELSE v]
      /\ i' = [i EXCEPT !["ni"] = IF key.nk = 8 THEN 2 ELSE 1]
      /\ pc' = [pc EXCEPT !["ni"] = "expand"] /\ key' = key
  BY DEF NiLoad, Goto
<1>3. \A j \in 0..3 : w[j] = key.word[j]
  BY DEF Store
<1>4. ASSUME key.nk = 8
      PROVE  \A j \in 0..7 : v[j] = key.word[j]
  <2>1. \A j \in 0..3 : v[j] = w[j]
    BY DEF Store
  <2>2. \A j \in 4..7 : v[j] = second[j - 4]
    BY DEF Store
  <2>3. \A j \in 4..7 : second[j - 4] = key.word[j]
    <3>1. ASSUME NEW j \in 4..7
          PROVE  second[j - 4] = key.word[j]
      <4>1. j - 4 \in 0..3 /\ j - 4 + 4 = j /\ j < key.nk
        BY <1>4
      <4>2. QED BY <4>1
    <3>2. QED BY <3>1
  <2> HIDE DEF first, second, w, v
  <2>4. ASSUME NEW j \in 0..7
        PROVE  v[j] = key.word[j]
    <3>1. j \in 0..3 \/ j \in 4..7
      OBVIOUS
    <3>2. ASSUME j \in 0..3
          PROVE  v[j] = key.word[j]
      BY <1>3, <2>1, <3>2
    <3>3. ASSUME j \in 4..7
          PROVE  v[j] = key.word[j]
      BY <2>2, <2>3, <3>3
    <3>4. QED BY <3>1, <3>2, <3>3
  <2>5. QED BY <2>4
<1> HIDE DEF first, second, w, v
<1>5. /\ rndk'["ni"] = IF key.nk = 4 THEN w ELSE v
      /\ rndk'["generic"] = rndk["generic"]
      /\ i'["ni"] = IF key.nk = 8 THEN 2 ELSE 1
      /\ i'["generic"] = i["generic"]
      /\ pc'["ni"] = "expand" /\ pc'["generic"] = pc["generic"]
  BY <1>1, <1>2 DEF Builds
<1>6. GenericFollows'
  BY <1>2, <1>5, UnmovedFollows
<1>7. ASSUME key.nk # 6
      PROVE  Follows("ni", 4 * i["ni"])' /\ i'["ni"] <= key.nk + 7
  <2>1. CASE key.nk = 4
    <3>1. i'["ni"] = 1 /\ rndk'["ni"] = w
      BY <1>5, <2>1
    <3>2. \A j \in 0..3 : w[j] = Standard(w, j, key)
      BY <1>3, <2>1 DEF Standard
    <3>3. QED BY <1>2, <2>1, <3>1, <3>2 DEF Follows, Followed
  <2>2. CASE key.nk = 8
    <3>1. i'["ni"] = 2 /\ rndk'["ni"] = v
      BY <1>5, <2>2
    <3>2. \A j \in 0..7 : v[j] = Standard(v, j, key)
      BY <1>4, <2>2 DEF Standard
    <3>3. QED BY <1>2, <2>2, <3>1, <3>2 DEF Follows, Followed
  <2>3. QED BY <1>1, <1>7, <2>1, <2>2
<1>8. NiFollows'
  BY <1>2, <1>5, <1>7 DEF NiFollows
<1>9. QED BY <1>6, <1>8 DEF ScheduleInv

\* A register that KeyExpansion makes, nk / 4 registers after the one it
\* starts from, is made of words of the standard if its first word is.
LEMMA ExpandedRegister ==
  ASSUME NEW w \in Schedule, NEW k, k.nk \in {4, 8}, NEW n \in 1..14,
         4 * n >= k.nk, NEW assist \in Quad, NEW d \in 0..3,
         Followed(w, 4 * n, k),
         XorWords(w[4 * n - k.nk], assist[d]) = Standard(w, 4 * n, k)
  PROVE  Followed(Store(w, n, KeyExpansion(Reg(w, n - (k.nk \div 4)),
                                           assist, d)),
                  4 * (n + 1), k)
<1> DEFINE m == n - (k.nk \div 4)
           x == Reg(w, m)
           q == KeyExpansion(x, assist, d)
           v == Store(w, n, q)
           nk == k.nk
<1>1. m \in 0..14 /\ 4 * m = 4 * n - nk
  <2>1. CASE nk = 4
    BY <2>1
  <2>2. CASE nk = 8
    BY <2>2
  <2>3. QED BY <2>1, <2>2
<1>2. x \in Quad /\ q \in Quad
  <2>1. x \in Quad
    BY <1>1, RegType
  <2>2. QED BY <2>1, KeyExpansionType
<1>3. \A e \in 0..3 : x[e] = w[4 * n - nk + e]
  BY <1>1 DEF Reg
<1>4. /\ q[0] = XorWords(x[0], assist[d]) /\ q[1] = XorWords(x[1], q[0])
      /\ q[2] = XorWords(x[2], q[1]) /\ q[3] = XorWords(x[3], q[2])
  BY <1>2, KeyExpansionWords
<1>5. /\ \A l \in 0..4 * n - 1 : v[l] = w[l]
      /\ \A e \in 0..3 : v[4 * n + e] = q[e]
  <2>1. \A l \in 0..4 * n - 1 : v[l] = w[l]
    BY DEF Store
  <2>2. ASSUME NEW e \in 0..3
        PROVE  v[4 * n + e] = q[e]
    <3>1. /\ 4 * n + e \in 0..59 /\ 4 * n + e \in 4 * n .. 4 * n + 3
          /\ 4 * n + e - 4 * n = e
      OBVIOUS
    <3>2. QED BY <3>1 DEF Store
  <2>3. QED BY <2>1, <2>2
<1> HIDE DEF q, v, x, m
<1>6. q[0] = Standard(v, 4 * n, k)
  <2>1. q[0] = Standard(w, 4 * n, k)
    BY <1>3, <1>4
  <2>2. KeySize(k)
    BY DEF KeySize
  <2>3. Standard(v, 4 * n, k) = Standard(w, 4 * n, k)
    BY <2>2, StandardOfStored DEF v
  <2>4. QED BY <2>1, <2>3
<1>7. ASSUME NEW e \in 1..3
      PROVE  XorWords(x[e], q[e - 1]) = Standard(v, 4 * n + e, k)
  <2> DEFINE j == 4 * n + e
  <2>1. /\ ~(j < nk) /\ j % nk # 0 /\ ~(nk > 6 /\ j % nk = 4)
        /\ j - 1 = 4 * n + (e - 1) /\ e - 1 \in 0..3 /\ e \in 0..3
        /\ j - nk = 4 * n - nk + e
    <3>1. CASE nk = 4
      BY <3>1
    <3>2. CASE nk = 8
      BY <3>2
    <3>3. QED BY <3>1, <3>2
  <2>2. j - nk \in 0..4 * n - 1
    BY <2>1
  <2>3. v[j - nk] = x[e] /\ v[j - 1] = q[e - 1]
    BY <1>3, <1>5, <2>1, <2>2
  <2>4. Standard(v, j, k) = XorWords(v[j - nk], v[j - 1])
    BY <2>1 DEF Standard
  <2>5. QED BY <2>3, <2>4
<1>8. \A e \in 0..3 : q[e] = Standard(v, 4 * n + e, k)
  <2>1. /\ q[1] = Standard(v, 4 * n + 1, k)
        /\ q[2] = Standard(v, 4 * n + 2, k)
        /\ q[3] = Standard(v, 4 * n + 3, k)
    BY <1>4, <1>7
  <2>2. 4 * n + 0 = 4 * n
    OBVIOUS
  <2>3. QED BY <1>6, <2>1, <2>2
<1>9. Followed(Store(w, n, q), 4 * (n + 1), k)
  BY <1>2, <1>8, FollowsRegister DEF v
<1>10. QED BY <1>9 DEF q, x, m

\* The registers of KeyExpansion128 and KeyExpansion256 are four words of the
\* standard each.
LEMMA NiExpandKeepsScheduleInv ==
  ASSUME ContextInv, ScheduleInv, NiExpand128 \/ NiExpand192 \/ NiExpand256
  PROVE  ScheduleInv'
<1> DEFINE w == rndk["ni"]
           n == i["ni"]
<1>1. /\ "generic" \in Builds /\ "ni" \in Builds
      /\ pc["ni"] = "expand" /\ key.nk \in {4, 6, 8}
      /\ w \in Schedule /\ n \in Nat /\ n >= (IF key.nk = 8 THEN 2 ELSE 1)
      /\ i \in [Builds -> Nat] /\ rndk \in [Builds -> Schedule]
  BY DEF Builds, ContextInv, NiExpand128, NiExpand192, NiExpand256
<1>2. /\ i' = [i EXCEPT !["ni"] = n + 1]
      /\ rndk'["generic"] = rndk["generic"] /\ UNCHANGED <<key, pc>>
  BY <1>1 DEF NiExpand128, NiExpand192, NiExpand256, Builds
<1>3. /\ i'["ni"] = n + 1 /\ i'["generic"] = i["generic"]
  BY <1>1, <1>2 DEF Builds
<1>4. GenericFollows'
  BY <1>2, <1>3, UnmovedFollows
<1>5. ASSUME key.nk # 6
      PROVE  Follows("ni", 4 * i["ni"])' /\ i'["ni"] <= key.nk + 7
  <2>1. Followed(w, 4 * n, key) /\ n <= key.nk + 7
    BY <1>1, <1>5 DEF ScheduleInv, NiFollows, Follows
  <2>2. CASE key.nk = 4
    <3> DEFINE last == Reg(w, n - 1)
               assist == aeskeygenassist(last, RCon[n])
               q == KeyExpansion(last, assist, 3)
    <3>1. /\ NiExpand128 /\ n \in 1..10 /\ n \in 1..14
          /\ n - 1 \in 0..14
      BY <1>1, <2>2 DEF NiExpand128, NiExpand192, NiExpand256
    <3>2. rndk'["ni"] = Store(w, n, q)
      BY <1>1, <3>1 DEF NiExpand128
    <3>3. last \in Quad /\ RCon[n] \in Byte
      BY <1>1, <3>1, RegType, RConType
    <3>4. assist \in Quad
      BY <3>3, AssistType
    <3>5. assist[3] = AddRCon(SubWord(RotWord(w[4 * n - 1])), RCon[n])
      <4>1. assist[3] = AddRCon(RotWord(SubWord(last[3])), RCon[n])
        BY DEF aeskeygenassist
      <4>2. last[3] = w[4 * n - 1] /\ last[3] \in Word
        <5>1. 4 * (n - 1) + 3 = 4 * n - 1
          BY <3>1
        <5>2. QED BY <3>3, <5>1 DEF Reg, Quad
      <4>3. QED BY <4>1, <4>2, SubRotCommute
    <3>6. XorWords(w[4 * n - key.nk], assist[3]) = Standard(w, 4 * n, key)
      <4>1. /\ ~(4 * n < key.nk) /\ (4 * n) % key.nk = 0
            /\ (4 * n) \div key.nk = n
        BY <2>2, <3>1
      <4>2. QED BY <3>5, <4>1 DEF Standard
    <3>7. n - (key.nk \div 4) = n - 1 /\ 4 * n >= key.nk
      BY <2>2, <3>1
    <3> HIDE DEF assist
    <3>8. Followed(Store(w, n, q), 4 * (n + 1), key)
      BY <1>1, <2>1, <2>2, <3>1, <3>4, <3>6, <3>7, ExpandedRegister
    <3>9. Follows("ni", 4 * i["ni"])'
      BY <1>2, <1>3, <3>2, <3>8 DEF Follows
    <3>10. QED BY <1>3, <2>2, <3>1, <3>9
  <2>3. CASE key.nk = 8
    <3> DEFINE d == IF n % 2 = 0 THEN 3 ELSE 2
               c == IF n % 2 = 0 THEN RCon[n \div 2] ELSE {}
               assist == aeskeygenassist(Reg(w, n - 1), c)
               q == KeyExpansion(Reg(w, n - 2), assist, d)
    <3>1. /\ NiExpand256 /\ n \in 2..14 /\ n \in 1..14
          /\ n - 1 \in 0..14
      BY <1>1, <2>3 DEF NiExpand128, NiExpand192, NiExpand256
    <3>2. rndk'["ni"] = Store(w, n, q)
      BY <1>1, <3>1 DEF NiExpand256, NiNext256
    <3>3. Reg(w, n - 1) \in Quad /\ c \in Byte /\ d \in 0..3
      <4>1. Reg(w, n - 1) \in Quad
        BY <1>1, <3>1, RegType
      <4>2. n \div 2 \in 1..10
        BY <3>1
      <4>3. c \in Byte
        BY <4>2, RConType DEF Byte
      <4>4. QED BY <4>1, <4>3
    <3>4. assist \in Quad
      BY <3>3, AssistType
    <3>5. Reg(w, n - 1)[3] = w[4 * n - 1] /\ w[4 * n - 1] \in Word
      <4>1. 4 * (n - 1) + 3 = 4 * n - 1
        BY <3>1
      <4>2. QED BY <3>3, <4>1 DEF Reg, Quad
    <3>6. XorWords(w[4 * n - key.nk], assist[d]) = Standard(w, 4 * n, key)
      <4>1. CASE n % 2 = 0
        <5>1. /\ ~(4 * n < key.nk) /\ (4 * n) % key.nk = 0
              /\ (4 * n) \div key.nk = n \div 2
          BY <2>3, <3>1, <4>1
        <5>2. assist[d] = AddRCon(SubWord(RotWord(w[4 * n - 1])),
                                  RCon[n \div 2])
          BY <3>5, <4>1, SubRotCommute DEF aeskeygenassist
        <5>3. QED BY <5>1, <5>2 DEF Standard
      <4>2. CASE n % 2 # 0
        <5>1. /\ ~(4 * n < key.nk) /\ (4 * n) % key.nk # 0
              /\ key.nk > 6 /\ (4 * n) % key.nk = 4
          BY <2>3, <3>1, <4>2
        <5>2. assist[d] = SubWord(w[4 * n - 1])
          BY <3>5, <4>2 DEF aeskeygenassist
        <5>3. QED BY <5>1, <5>2 DEF Standard
      <4>3. QED BY <4>1, <4>2
    <3>7. n - (key.nk \div 4) = n - 2 /\ 4 * n >= key.nk
      BY <2>3, <3>1
    <3> HIDE DEF assist, d, c
    <3>8. Followed(Store(w, n, q), 4 * (n + 1), key)
      <4>1. /\ w \in Schedule /\ key.nk \in {4, 8} /\ n \in 1..14
            /\ d \in 0..3
        BY <1>1, <2>3, <3>1, <3>3
      <4> HIDE DEF w, n
      <4>2. Followed(Store(w, n, KeyExpansion(Reg(w, n - (key.nk \div 4)),
                                              assist, d)),
                     4 * (n + 1), key)
        BY <2>1, <3>4, <3>6, <3>7, <4>1, ExpandedRegister
      <4>3. QED BY <3>7, <4>2
    <3>9. Follows("ni", 4 * i["ni"])'
      BY <1>2, <1>3, <3>2, <3>8 DEF Follows
    <3>10. QED BY <1>3, <2>3, <3>1, <3>9
  <2>4. QED BY <1>1, <1>5, <2>2, <2>3
<1>6. NiFollows'
  BY <1>1, <1>2, <1>5 DEF NiFollows
<1>7. QED BY <1>4, <1>6 DEF ScheduleInv

\* When AES_Context_Init returns, the last word has been made.
LEMMA ReturnKeepsScheduleInv ==
  ASSUME ContextInv, ScheduleInv, NEW b \in Builds, Return(b)
  PROVE  ScheduleInv'
<1>1. /\ pc[b] = "expand" /\ i[b] = End(b) /\ key.nk \in {4, 6, 8}
      /\ pc' = [pc EXCEPT ![b] = "ready"] /\ DOMAIN pc = Builds
      /\ UNCHANGED <<key, rndk, i>>
  BY DEF Return, Goto, ContextInv
<1>2. CASE b = "generic"
  <2>1. i["generic"] = Length(key.nk) /\ pc'["generic"] = "ready"
        /\ pc'["ni"] = pc["ni"] /\ pc["generic"] = "expand"
    BY <1>1, <1>2 DEF End, Builds
  <2>2. Follows("generic", Length(key.nk))'
    BY <1>1, <2>1 DEF ScheduleInv, GenericFollows, Follows
  <2>3. GenericFollows'
    BY <1>1, <2>1, <2>2 DEF GenericFollows
  <2>4. NiFollows'
    BY <1>1, <2>1, UnmovedFollows
  <2>5. QED BY <2>3, <2>4 DEF ScheduleInv
<1>3. CASE b = "ni"
  <2>1. pc'["ni"] = "ready" /\ pc'["generic"] = pc["generic"]
        /\ pc["ni"] = "expand"
    BY <1>1, <1>3 DEF Builds
  <2>2. ASSUME key.nk # 6
        PROVE  Follows("ni", Length(key.nk))'
    <3>1. 4 * i["ni"] = Length(key.nk)
      <4>1. CASE key.nk = 4
        BY <1>1, <1>3, <4>1 DEF End, Length
      <4>2. CASE key.nk = 8
        BY <1>1, <1>3, <4>2 DEF End, Length
      <4>3. QED BY <1>1, <2>2, <4>1, <4>2
    <3>2. Follows("ni", 4 * i["ni"])
      BY <2>1, <2>2 DEF ScheduleInv, NiFollows
    <3>3. QED BY <1>1, <3>1, <3>2 DEF Follows
  <2>3. NiFollows'
    BY <1>1, <2>1, <2>2 DEF NiFollows
  <2>4. GenericFollows'
    BY <1>1, <2>1, UnmovedFollows
  <2>5. QED BY <2>3, <2>4 DEF ScheduleInv
<1>4. QED BY <1>2, <1>3 DEF Builds

\* Only the key schedules write words: the block functions leave them alone.
LEMMA ScheduleInvPreserved ==
  ASSUME IInv, ScheduleInv, [Next]_vars
  PROVE  ScheduleInv'
<1>1. CASE ContextNext
  <2>1. ContextInv
    BY DEF IInv
  <2>2. QED BY <1>1, <2>1, CallsKeepScheduleInv, GenericKeepsScheduleInv,
        NiLoadKeepsScheduleInv, NiExpandKeepsScheduleInv,
        ReturnKeepsScheduleInv DEF ContextNext
<1>2. CASE UNCHANGED contextVars
  BY <1>2 DEF ScheduleInv, GenericFollows, NiFollows, Follows, contextVars
<1>3. ContextNext \/ UNCHANGED contextVars
  BY DEF Next, ContextStep, NextBlock, EncryptStart, EncryptRound,
     EncryptLast, DecryptStart, DecryptRound, DecryptLast, NiEncryptStart,
     NiEncryptRound, NiEncryptLast, NiDecryptStart, NiDecryptRound,
     NiDecryptLast, Go, vars
<1>4. QED BY <1>1, <1>2, <1>3

-----------------------------------------------------------------------------
(* The two builds side by side.                                            *)

\* A set of numbers has a least one: the induction of the two lemmas below.
LEMMA Least ==
  ASSUME NEW T, T \subseteq Nat, T # {}
  PROVE  \E x \in T : \A y \in T : x <= y
<1> DEFINE R == OpToRel(<, Nat)
<1>1. \A x, y \in Nat : y < x => <<y, x>> \in R
  BY DEF OpToRel
<1>2. IsWellFoundedOn(R, Nat)
  BY NatLessThanWellFounded
<1> HIDE DEF R
<1>3. PICK x \in T : \A y \in T : ~(<<y, x>> \in R)
  BY <1>2, WFMin
<1>4. ASSUME NEW y \in T
      PROVE  x <= y
  <2>1. x \in Nat /\ y \in Nat
    OBVIOUS
  <2>2. ~(y < x)
    BY <1>1, <1>3, <2>1
  <2>3. QED BY <2>1, <2>2
<1>5. QED BY <1>4

\* Counting up from zero, over a set of numbers.
LEMMA UpTo ==
  ASSUME NEW n \in Nat, NEW P, 0 \in P,
         \A k \in 1..n : k - 1 \in P => k \in P
  PROVE  \A k \in 0..n : k \in P
<1> DEFINE T == {k \in 0..n : k \notin P}
<1>1. SUFFICES ASSUME T # {}
               PROVE  FALSE
  OBVIOUS
<1>2. T \subseteq Nat
  OBVIOUS
<1>3. PICK x \in T : \A y \in T : x <= y
  <2> HIDE DEF T
  <2>1. QED BY <1>1, <1>2, Least
<1>4. x \in 1..n /\ x \notin P
  OBVIOUS
<1>5. x - 1 \in 0..n /\ ~(x <= x - 1)
  BY <1>4
<1>6. x - 1 \in P
  BY <1>3, <1>5
<1>7. QED BY <1>4, <1>6

\* There is one schedule of a key.
LEMMA OneSchedule ==
  ASSUME NEW w, NEW v, NEW k, KeySize(k), NEW n \in 0..60,
         Followed(w, n, k), Followed(v, n, k)
  PROVE  Agree(w, v, n)
<1> DEFINE T == {j \in 0..n - 1 : w[j] # v[j]}
<1>1. SUFFICES ASSUME T # {}
               PROVE  FALSE
  BY DEF Agree
<1>2. T \subseteq Nat
  OBVIOUS
<1>3. PICK x \in T : \A y \in T : x <= y
  <2> HIDE DEF T
  <2>1. QED BY <1>1, <1>2, Least
<1>4. x \in 0..n - 1 /\ x \in 0..59 /\ w[x] # v[x]
  OBVIOUS
<1>5. Agree(w, v, x)
  <2>1. ASSUME NEW l \in 0..x - 1
        PROVE  w[l] = v[l]
    <3>1. l \in 0..n - 1 /\ ~(x <= l)
      BY <1>4
    <3>2. l \notin T
      BY <1>3, <3>1
    <3>3. QED BY <3>1, <3>2
  <2>2. QED BY <2>1 DEF Agree
<1> HIDE DEF T
<1>6. Standard(w, x, k) = Standard(v, x, k)
  BY <1>4, <1>5, StandardLocal
<1>7. QED BY <1>4, <1>6 DEF Followed

\* Two arrays that are the same as far as the words of round k.
SameWords(w, v, k) == \A j \in 0..4 * k + 3 : w[j] = v[j]

\* What is the same for k rounds is the same for fewer.
LEMMA SameWordsOfFewer ==
  ASSUME NEW w, NEW v, NEW n \in 0..14, SameWords(w, v, n), NEW k \in 0..n
  PROVE  SameWords(w, v, k)
<1>1. \A j \in 0..4 * k + 3 : j \in 0..4 * n + 3
  OBVIOUS
<1>2. QED BY <1>1 DEF SameWords

\* Rounds depend on the words of their round only.
LEMMA SameWordsSameRound ==
  ASSUME NEW m, NEW w, NEW v, NEW k \in 0..14, SameWords(w, v, k)
  PROVE  /\ AddWords(m, w, k) = AddWords(m, v, k)
         /\ Forth(m, w, k) = Forth(m, v, k)
         /\ LastForth(m, w, k) = LastForth(m, v, k)
<1>1. \A col \in 0..3 : w[4 * k + col] = v[4 * k + col]
  <2>1. \A col \in 0..3 : 4 * k + col \in 0..4 * k + 3
    OBVIOUS
  <2>2. QED BY <2>1 DEF SameWords
<1>2. \A u : AddWords(u, w, k) = AddWords(u, v, k)
  BY <1>1 DEF AddWords
<1>3. QED BY <1>2 DEF Forth, LastForth

\* With a key of 128 or 256 bits, two builds at work have the same words and
\* have recorded the same states, as far as both have come.
LEMMA SameRecords ==
  ASSUME IInv, ScheduleInv, key.nk # 6,
         at["generic"] # "start", at["ni"] # "start"
  PROVE  LET g == "generic"
             n == "ni"
         IN
         /\ rndn[g] = rndn[n] /\ rndn[g] \in 10..14
         /\ SameWords(rndk[g], rndk[n], rndn[g])
         /\ \A k \in 1..rndn[g] :
              k <= Len(trace[g]) /\ k <= Len(trace[n])
                => trace[g][k] = trace[n][k]
<1> DEFINE g == "generic"
           n == "ni"
           w == rndk[g]
           v == rndk[n]
           R == rndn[g]
<1>1. /\ g \in Builds /\ n \in Builds
      /\ Rounds(g) /\ Rounds(n) /\ ContextInv
  BY DEF IInv, Builds
<1>2. pc[g] = "ready" /\ pc[n] = "ready" /\ Recorded(g) /\ Recorded(n)
  BY <1>1 DEF Rounds
<1>3. key.nk \in {4, 8} /\ R = key.nk + 6 /\ rndn[n] = R
  BY <1>1, <1>2 DEF ContextInv
<1>4. R \in 10..14 /\ Length(key.nk) = 4 * R + 4 /\ Length(key.nk) \in 0..60
  BY <1>3 DEF Length
<1>5. Followed(w, Length(key.nk), key) /\ Followed(v, Length(key.nk), key)
  BY <1>2 DEF ScheduleInv, GenericFollows, NiFollows, Follows
<1>6. SameWords(w, v, R)
  <2>1. PICK m \in 0..60 : m = Length(key.nk) /\ m - 1 = 4 * R + 3
    BY <1>4
  <2>2. KeySize(key)
    BY <1>3 DEF KeySize
  <2>3. Followed(w, m, key) /\ Followed(v, m, key)
    BY <1>5, <2>1
  <2>4. Agree(w, v, m)
    <3> HIDE DEF w, v
    <3>1. QED BY <2>2, <2>3, OneSchedule
  <2>5. QED BY <2>1, <2>4 DEF SameWords, Agree
<1> DEFINE T == {k \in 1..R : /\ k <= Len(trace[g]) /\ k <= Len(trace[n])
                              /\ trace[g][k] # trace[n][k]}
<1>7. T = {}
  <2>1. SUFFICES ASSUME T # {}
                 PROVE  FALSE
    OBVIOUS
  <2>2. T \subseteq Nat
    BY <1>4
  <2>3. PICK x \in T : \A y \in T : x <= y
    <3> HIDE DEF T
    <3>1. QED BY <2>1, <2>2, Least
  <2>4. /\ x \in 1..R /\ x <= Len(trace[g]) /\ x <= Len(trace[n])
        /\ trace[g][x] # trace[n][x]
    OBVIOUS
  <2>5. Len(trace[g]) \in Nat /\ Len(trace[n]) \in Nat
    BY <1>1 DEF IInv, BlockInv
  <2>6. CASE x = 1
    <3>1. AddWords(Load(plain), w, 0) = AddWords(Load(plain), v, 0)
      <4> HIDE DEF w, v, R
      <4>1. SameWords(w, v, 0)
        BY <1>4, <1>6, SameWordsOfFewer
      <4>2. QED BY <4>1, SameWordsSameRound
    <3>2. QED BY <1>2, <2>4, <2>6, <3>1 DEF Recorded
  <2>7. CASE x # 1
    <3>1. PICK k \in 1..R - 1 : k + 1 = x /\ ~(x <= k)
      <4>1. x - 1 \in 1..R - 1 /\ (x - 1) + 1 = x /\ ~(x <= x - 1)
        BY <1>4, <2>4, <2>7
      <4>2. QED BY <4>1
    <3>2. /\ k \in 1..R /\ k \in 0..R /\ k \in 0..14
          /\ k \in 1..Len(trace[g]) - 1 /\ k <= Len(trace[g])
          /\ k \in 1..Len(trace[n]) - 1 /\ k <= Len(trace[n])
      <4> HIDE DEF R
      <4>1. k \in 1..R /\ k \in 0..R /\ k \in 0..14
        BY <1>4, <3>1
      <4>2. k + 1 <= Len(trace[g]) /\ k + 1 <= Len(trace[n])
        BY <2>4, <3>1
      <4>3. QED BY <2>5, <3>1, <4>1, <4>2
    <3>3. trace[g][k] = trace[n][k]
      BY <2>3, <3>1, <3>2
    <3>4. /\ trace[g][k + 1] = Forth(trace[g][k], w, k)
          /\ trace[n][k + 1] = Forth(trace[n][k], v, k)
      BY <1>2, <3>2 DEF Recorded
    <3>5. Forth(trace[g][k], w, k) = Forth(trace[g][k], v, k)
      <4> HIDE DEF w, v, R
      <4>1. SameWords(w, v, k)
        <5>1. R \in 0..14 /\ k \in 0..R
          BY <1>4, <3>2
        <5>2. QED BY <1>6, <5>1, SameWordsOfFewer
      <4>2. QED BY <3>2, <4>1, SameWordsSameRound
    <3>6. QED BY <2>4, <3>1, <3>3, <3>4, <3>5
  <2>8. QED BY <2>6, <2>7
<1>8. QED BY <1>3, <1>4, <1>6, <1>7

\* At the same place of the same function the two builds hold the same state,
\* and what they have encrypted is the same.
LEMMA SamePlaceSameState ==
  ASSUME IInv, ScheduleInv, key.nk # 6
  PROVE  /\ at["generic"] = at["ni"] /\ r["generic"] = r["ni"]
              => s = Load(block)
         /\ Encrypted("generic") /\ Encrypted("ni")
              => enc["generic"] = enc["ni"]
<1> DEFINE g == "generic"
           n == "ni"
           R == rndn[g]
<1>1. /\ Rounds(g) /\ Rounds(n) /\ ContextInv /\ BlockInv
      /\ State(g) = s /\ State(n) = Load(block)
      /\ g \in Builds /\ n \in Builds
  BY DEF IInv, State, Builds
<1>2. ASSUME at[g] # "start", at[n] # "start"
      PROVE  /\ rndn[n] = R /\ R \in 10..14
             /\ SameWords(rndk[g], rndk[n], R)
             /\ \A k \in 1..R :
                  k <= Len(trace[g]) /\ k <= Len(trace[n])
                    => trace[g][k] = trace[n][k]
  BY <1>2, SameRecords
<1>3. ASSUME Encrypted(g), Encrypted(n)
      PROVE  Load(enc[g]) = Load(enc[n]) /\ enc[g] = enc[n]
  <2>1. at[g] # "start" /\ at[n] # "start"
    BY <1>3 DEF Encrypted
  <2>2. /\ rndn[n] = R /\ R \in 10..14
        /\ SameWords(rndk[g], rndk[n], R)
        /\ \A k \in 1..R : k <= Len(trace[g]) /\ k <= Len(trace[n])
                             => trace[g][k] = trace[n][k]
    BY <1>2, <2>1
  <2>3. /\ Len(trace[g]) = R /\ Len(trace[n]) = R
        /\ Load(enc[g]) = LastForth(trace[g][R], rndk[g], R)
        /\ Load(enc[n]) = LastForth(trace[n][R], rndk[n], R)
    BY <1>1, <1>3, <2>2 DEF Rounds
  <2>4. trace[g][R] = trace[n][R]
    <3>1. R \in 1..R /\ R <= Len(trace[g]) /\ R <= Len(trace[n])
      BY <2>2, <2>3
    <3>2. QED BY <2>2, <3>1
  <2>5. LastForth(trace[g][R], rndk[g], R) = LastForth(trace[g][R], rndk[n], R)
    <3>1. R \in 0..14
      BY <2>2
    <3>2. SameWords(rndk[g], rndk[n], R)
      BY <2>2
    <3> DEFINE w == rndk[g]
               v == rndk[n]
               m == trace[g][R]
    <3> HIDE DEF w, v, m, R
    <3>3. LastForth(m, w, R) = LastForth(m, v, R)
      BY <3>1, <3>2, SameWordsSameRound DEF w, v
    <3>4. QED BY <3>3 DEF m, w, v
  <2>6. Load(enc[g]) = Load(enc[n])
    BY <2>3, <2>4, <2>5
  <2>7. enc[g] \in Register /\ enc[n] \in Register
    BY <1>1 DEF BlockInv
  <2>8. QED BY <2>6, <2>7, LoadOut
<1>4. ASSUME at[g] = at[n], r[g] = r[n]
      PROVE  s = Load(block)
  <2>1. at[g] \in {"start", "encrypt", "encrypted", "decrypt", "done"}
    BY <1>1 DEF BlockInv
  <2>2. CASE at[g] \in {"start", "done"}
    BY <1>1, <1>4, <2>2 DEF Rounds
  <2>3. CASE at[g] = "encrypt"
    <3>1. /\ r[g] = Len(trace[g]) /\ r[g] = Len(trace[n]) /\ r[g] <= R
          /\ s = trace[g][r[g]] /\ Load(block) = trace[n][r[g]]
          /\ r[g] >= 1
      BY <1>1, <1>4, <2>3 DEF Rounds, Recorded
    <3>2. r[g] \in Int
      BY <1>1 DEF BlockInv
    <3>3. R \in 10..14 /\ \A k \in 1..R :
            k <= Len(trace[g]) /\ k <= Len(trace[n])
              => trace[g][k] = trace[n][k]
      BY <1>2, <1>4, <2>3
    <3>4. r[g] \in 1..R /\ r[g] <= Len(trace[g]) /\ r[g] <= Len(trace[n])
      BY <3>1, <3>2, <3>3
    <3>5. QED BY <3>1, <3>3, <3>4
  <2>4. CASE at[g] = "encrypted"
    <3>1. Load(enc[g]) = Load(enc[n])
      BY <1>3, <1>4, <2>4 DEF Encrypted
    <3>2. QED BY <1>1, <1>4, <2>4, <3>1 DEF Rounds
  <2>5. CASE at[g] = "decrypt"
    <3>1. R \in 10..14 /\ rndn[n] = R /\ \A k \in 1..R :
            k <= Len(trace[g]) /\ k <= Len(trace[n])
              => trace[g][k] = trace[n][k]
      BY <1>2, <1>4, <2>5
    <3>2. Len(trace[g]) = R /\ Len(trace[n]) = R
      BY <1>1, <1>4, <2>5, <3>1 DEF Rounds, Encrypted
    <3>3. /\ r[g] \in 0..R - 1 /\ s = ShiftRows(SubBytes(trace[g][r[g] + 1]))
          /\ Load(block) = ShiftRows(SubBytes(trace[n][r[g] + 1]))
      BY <1>1, <1>4, <2>5, <3>1 DEF Rounds
    <3>4. r[g] + 1 \in 1..R /\ r[g] + 1 <= R
      BY <3>1, <3>3
    <3>5. trace[g][r[g] + 1] = trace[n][r[g] + 1]
      BY <3>1, <3>2, <3>4
    <3>6. QED BY <3>3, <3>5
  <2>6. QED BY <2>1, <2>2, <2>3, <2>4, <2>5
<1>5. QED BY <1>3, <1>4

-----------------------------------------------------------------------------
(* The cipher as a function of the words of the context and a block.       *)

\* What becomes of a state in each of n steps, and the states one goes
\* through from the state a.
Moves(n, S) == [1..n -> [S -> S]]
Course(t, n, S, a, F) ==
  /\ t \in [0..n -> S]
  /\ t[0] = a /\ \A k \in 1..n : t[k] = F[k][t[k - 1]]

\* One goes through some states, whatever becomes of them.
LEMMA CourseExists ==
  ASSUME NEW S, NEW a \in S, NEW n \in Nat, NEW F \in Moves(n, S)
  PROVE  \E t : Course(t, n, S, a, F)
<1> DEFINE P == {m \in 0..n : \E t : Course(t, m, S, a, F)}
<1>1. 0 \in P
  <2>1. Course([k \in 0..0 |-> a], 0, S, a, F)
    BY DEF Course
  <2>2. 0 \in 0..n
    OBVIOUS
  <2>3. QED BY <2>1, <2>2
<1>2. ASSUME NEW m \in 1..n, m - 1 \in P
      PROVE  m \in P
  <2>1. PICK t : Course(t, m - 1, S, a, F)
    BY <1>2
  <2> DEFINE x == F[m][t[m - 1]]
             v == [k \in 0..m |-> IF k = m THEN x ELSE t[k]]
  <2>2. m - 1 \in 0..m - 1 /\ t[m - 1] \in S
    BY <2>1 DEF Course
  <2>3. x \in S
    BY <2>2 DEF Moves
  <2> HIDE DEF x
  <2>4. v \in [0..m -> S]
    <3>1. \A k \in 0..m : k = m \/ k \in 0..m - 1
      OBVIOUS
    <3>2. QED BY <2>1, <2>3, <3>1 DEF Course
  <2>5. v[0] = a
    BY <2>1 DEF Course
  <2>6. ASSUME NEW k \in 1..m
        PROVE  v[k] = F[k][v[k - 1]]
    <3>1. k - 1 \in 0..m - 1 /\ v[k - 1] = t[k - 1]
      OBVIOUS
    <3>2. CASE k = m
      BY <3>1, <3>2 DEF x
    <3>3. CASE k # m
      <4>1. k \in 1..m - 1 /\ v[k] = t[k]
        BY <3>3
      <4>2. QED BY <2>1, <3>1, <4>1 DEF Course
    <3>4. QED BY <3>2, <3>3
  <2> HIDE DEF v
  <2>7. Course(v, m, S, a, F)
    BY <2>4, <2>5, <2>6 DEF Course
  <2>8. QED BY <2>7
<1>3. n \in P
  <2> HIDE DEF P
  <2>1. \A k \in 1..n : k - 1 \in P => k \in P
    BY <1>2
  <2>2. n \in 0..n
    OBVIOUS
  <2>3. QED BY <1>1, <2>1, <2>2, UpTo
<1>4. QED BY <1>3

\* FIPS 197, 5.1 and 5.3: the states of encryption with n rounds, after the
\* words of round 0 are added and after each round but the last, and those of
\* decryption in the opposite order of the words.
Forwards(w, n, x) ==
  LET t[k \in 0..n - 1] ==
        IF k = 0 THEN AddWords(Load(x), w, 0) ELSE Forth(t[k - 1], w, k)
  IN  t

Backwards(w, n, y) ==
  LET u[k \in 0..n - 1] ==
        IF k = 0 THEN AddWords(Load(y), w, n) ELSE Back(u[k - 1], w, n - k)
  IN  u

\* What the block x is encrypted to with the words w, and what y is decrypted
\* to.
Encipher(w, n, x) == Out(LastForth(Forwards(w, n, x)[n - 1], w, n))
Decipher(w, n, y) == Out(LastBack(Backwards(w, n, y)[n - 1], w, 0))

\* Encryption goes through these states, one for each round.
LEMMA ForwardsStates ==
  ASSUME NEW w \in Schedule, NEW n \in 1..14, NEW x \in Register
  PROVE  LET t == Forwards(w, n, x) IN
         /\ t \in [0..n - 1 -> Matrix]
         /\ t[0] = AddWords(Load(x), w, 0)
         /\ \A k \in 1..n - 1 : t[k] = Forth(t[k - 1], w, k)
<1> DEFINE a == AddWords(Load(x), w, 0)
           Made(t) == t = [k \in 0..n - 1 |->
                             IF k = 0 THEN a ELSE Forth(t[k - 1], w, k)]
           F == [k \in 1..n - 1 |-> [m \in Matrix |-> Forth(m, w, k)]]
           f == Forwards(w, n, x)
<1>1. a \in Matrix /\ n - 1 \in Nat
  BY LoadEntries, AddWordsUndone
<1>2. \A m \in Matrix, k \in 1..n - 1 : Forth(m, w, k) \in Matrix
  <2>1. \A k \in 1..n - 1 : k \in 0..14
    OBVIOUS
  <2>2. QED BY <2>1, RoundUndone
<1>3. F \in Moves(n - 1, Matrix)
  BY <1>2 DEF Moves
<1>4. PICK t : Course(t, n - 1, Matrix, a, F)
  <2> HIDE DEF a, F
  <2>1. QED BY <1>1, <1>3, CourseExists
<1>5. \A k \in 1..n - 1 : t[k] = Forth(t[k - 1], w, k)
  <2>1. \A k \in 1..n - 1 : t[k - 1] \in Matrix
    BY <1>4 DEF Course
  <2>2. QED BY <1>4, <2>1 DEF Course
<1>6. Made(t)
  <2> HIDE DEF a
  <2>1. \A k \in 0..n - 1 : k = 0 \/ k \in 1..n - 1
    OBVIOUS
  <2>2. QED BY <1>4, <1>5, <2>1 DEF Course
<1>7. Made(f)
  <2> HIDE DEF a
  <2>1. Forwards(w, n, x) = CHOOSE v : Made(v)
    BY DEF Forwards, a
  <2> HIDE DEF Made
  <2>2. QED BY <1>6, <2>1
<1>8. f[0] = a /\ \A k \in 1..n - 1 : f[k] = Forth(f[k - 1], w, k)
  <2> HIDE DEF a, f
  <2>1. QED BY <1>7
<1>9. \A k \in 0..n - 1 : f[k] \in Matrix
  <2> HIDE DEF a, f
  <2> DEFINE P == {k \in 0..n - 1 : f[k] \in Matrix}
  <2>1. 0 \in P
    BY <1>1, <1>8
  <2>2. \A k \in 1..n - 1 : k - 1 \in P => k \in P
    BY <1>2, <1>8
  <2>3. \A k \in 0..n - 1 : k \in P
    <3> HIDE DEF P
    <3>1. QED BY <1>1, <2>1, <2>2, UpTo
  <2>4. QED BY <2>3
<1>10. f \in [0..n - 1 -> Matrix]
  <2> HIDE DEF a, f
  <2>1. QED BY <1>7, <1>9
<1>11. QED BY <1>8, <1>10

\* A round of decryption gives a matrix, and so does the last.
LEMMA BackMatrix ==
  ASSUME NEW m \in Matrix, NEW w \in Schedule, NEW k \in 0..14
  PROVE  Back(m, w, k) \in Matrix /\ LastBack(m, w, k) \in Matrix
<1>1. InvSubBytes(InvShiftRows(m)) \in Matrix
  BY InvShiftRowsEntries, SubBytesEntries
<1>2. LastBack(m, w, k) \in Matrix
  BY <1>1, AddWordsUndone DEF LastBack
<1>3. Back(m, w, k) = InvMixColumns(LastBack(m, w, k))
  BY DEF Back, LastBack
<1>4. QED BY <1>2, <1>3, InvMixColumnsEntries

\* Decryption goes through these states, one for each round.
LEMMA BackwardsStates ==
  ASSUME NEW w \in Schedule, NEW n \in 1..14, NEW y \in Register
  PROVE  LET u == Backwards(w, n, y) IN
         /\ u \in [0..n - 1 -> Matrix]
         /\ u[0] = AddWords(Load(y), w, n)
         /\ \A k \in 1..n - 1 : u[k] = Back(u[k - 1], w, n - k)
<1> DEFINE a == AddWords(Load(y), w, n)
           Made(u) == u = [k \in 0..n - 1 |->
                             IF k = 0 THEN a ELSE Back(u[k - 1], w, n - k)]
           F == [k \in 1..n - 1 |-> [m \in Matrix |-> Back(m, w, n - k)]]
           f == Backwards(w, n, y)
<1>1. a \in Matrix /\ n - 1 \in Nat
  <2>1. n \in 0..14 /\ n - 1 \in Nat
    OBVIOUS
  <2>2. Load(y) \in Matrix
    BY LoadEntries
  <2>3. AddWords(Load(y), w, n) \in Matrix
    BY <2>1, <2>2, AddWordsUndone
  <2>4. QED BY <2>1, <2>3
<1>2. \A m \in Matrix, k \in 1..n - 1 : Back(m, w, n - k) \in Matrix
  <2>1. \A k \in 1..n - 1 : n - k \in 0..14
    OBVIOUS
  <2>2. QED BY <2>1, BackMatrix
<1>3. F \in Moves(n - 1, Matrix)
  BY <1>2 DEF Moves
<1>4. PICK u : Course(u, n - 1, Matrix, a, F)
  <2> HIDE DEF a, F
  <2>1. QED BY <1>1, <1>3, CourseExists
<1>5. \A k \in 1..n - 1 : u[k] = Back(u[k - 1], w, n - k)
  <2>1. \A k \in 1..n - 1 : u[k - 1] \in Matrix
    BY <1>4 DEF Course
  <2>2. QED BY <1>4, <2>1 DEF Course
<1>6. Made(u)
  <2> HIDE DEF a
  <2>1. \A k \in 0..n - 1 : k = 0 \/ k \in 1..n - 1
    OBVIOUS
  <2>2. QED BY <1>4, <1>5, <2>1 DEF Course
<1>7. Made(f)
  <2> HIDE DEF a
  <2>1. Backwards(w, n, y) = CHOOSE v : Made(v)
    BY DEF Backwards, a
  <2> HIDE DEF Made
  <2>2. QED BY <1>6, <2>1
<1>8. f[0] = a /\ \A k \in 1..n - 1 : f[k] = Back(f[k - 1], w, n - k)
  <2> HIDE DEF a, f
  <2>1. QED BY <1>7
<1>9. \A k \in 0..n - 1 : f[k] \in Matrix
  <2> HIDE DEF a, f
  <2> DEFINE P == {k \in 0..n - 1 : f[k] \in Matrix}
  <2>1. 0 \in P
    BY <1>1, <1>8
  <2>2. \A k \in 1..n - 1 : k - 1 \in P => k \in P
    BY <1>2, <1>8
  <2>3. \A k \in 0..n - 1 : k \in P
    <3> HIDE DEF P
    <3>1. QED BY <1>1, <2>1, <2>2, UpTo
  <2>4. QED BY <2>3
<1>10. f \in [0..n - 1 -> Matrix]
  <2> HIDE DEF a, f
  <2>1. QED BY <1>7, <1>9
<1>11. QED BY <1>8, <1>10

\* Both functions give a block for every block.
LEMMA CipherType ==
  ASSUME NEW w \in Schedule, NEW n \in 1..14, NEW x \in Register
  PROVE  Encipher(w, n, x) \in Register /\ Decipher(w, n, x) \in Register
<1>1. n - 1 \in 0..n - 1 /\ n \in 0..14
  OBVIOUS
<1>2. Forwards(w, n, x)[n - 1] \in Matrix
  BY <1>1, ForwardsStates
<1>3. LastForth(Forwards(w, n, x)[n - 1], w, n) \in Matrix
  BY <1>1, <1>2, RoundUndone
<1>4. Backwards(w, n, x)[n - 1] \in Matrix
  BY <1>1, BackwardsStates
<1>5. LastBack(Backwards(w, n, x)[n - 1], w, 0) \in Matrix
  BY <1>4, BackMatrix
<1>6. QED BY <1>3, <1>5, LoadOut DEF Encipher, Decipher

\* Decryption is at what SubBytes and ShiftRows make of the states of
\* encryption, in the opposite order.
LEMMA BackThroughStates ==
  ASSUME NEW w \in Schedule, NEW n \in 1..14, NEW x \in Register,
         NEW k \in 0..n - 1
  PROVE  Backwards(w, n, Encipher(w, n, x))[k]
           = ShiftRows(SubBytes(Forwards(w, n, x)[n - 1 - k]))
<1> DEFINE t == Forwards(w, n, x)
           y == Encipher(w, n, x)
           u == Backwards(w, n, y)
<1>1. /\ t \in [0..n - 1 -> Matrix]
      /\ \A j \in 1..n - 1 : t[j] = Forth(t[j - 1], w, j)
  BY ForwardsStates
<1>2. y \in Register
  BY CipherType
<1>3. /\ u[0] = AddWords(Load(y), w, n)
      /\ \A j \in 1..n - 1 : u[j] = Back(u[j - 1], w, n - j)
  <2> HIDE DEF y
  <2>1. QED BY <1>2, BackwardsStates
<1>4. u[0] = ShiftRows(SubBytes(t[n - 1]))
  <2>1. n \in 0..14 /\ t[n - 1] \in Matrix
    BY <1>1
  <2> HIDE DEF t
  <2>2. LastForth(t[n - 1], w, n) \in Matrix
        /\ AddWords(LastForth(t[n - 1], w, n), w, n)
             = ShiftRows(SubBytes(t[n - 1]))
    BY <2>1, RoundUndone
  <2>3. Load(y) = LastForth(t[n - 1], w, n)
    BY <2>2, LoadOut DEF Encipher, t
  <2> HIDE DEF u, y
  <2>4. QED BY <1>3, <2>2, <2>3
<1> HIDE DEF t, u, y
<1> DEFINE P == {j \in 0..n - 1 : u[j] = ShiftRows(SubBytes(t[n - 1 - j]))}
<1>5. 0 \in P
  BY <1>4
<1>6. ASSUME NEW j \in 1..n - 1, j - 1 \in P
      PROVE  j \in P
  <2>1. u[j - 1] = ShiftRows(SubBytes(t[n - j]))
    <3>1. n - 1 - (j - 1) = n - j
      OBVIOUS
    <3>2. QED BY <1>6, <3>1
  <2>2. n - j \in 1..n - 1 /\ n - j \in 0..14 /\ (n - j) - 1 \in 0..n - 1
        /\ (n - j) - 1 = n - 1 - j
    OBVIOUS
  <2>3. t[n - j] = Forth(t[n - 1 - j], w, n - j) /\ t[n - 1 - j] \in Matrix
    BY <1>1, <2>2
  <2>4. Back(ShiftRows(SubBytes(t[n - j])), w, n - j)
          = ShiftRows(SubBytes(t[n - 1 - j]))
    <3>1. \A q \in 0..14, m \in Matrix :
            Back(ShiftRows(SubBytes(Forth(m, w, q))), w, q)
              = ShiftRows(SubBytes(m))
      BY RoundUndone
    <3>2. QED BY <2>2, <2>3, <3>1
  <2>5. u[j] = ShiftRows(SubBytes(t[n - 1 - j]))
    BY <1>3, <2>1, <2>4
  <2>6. QED BY <2>5
<1>7. k \in P
  <2> HIDE DEF P
  <2>1. n - 1 \in Nat /\ \A j \in 1..n - 1 : j - 1 \in P => j \in P
    BY <1>6
  <2>2. QED BY <1>5, <2>1, UpTo
<1>8. u[k] = ShiftRows(SubBytes(t[n - 1 - k]))
  BY <1>7
<1>9. QED BY <1>8 DEF t, u, y

\* Decryption gives the block back, whatever the words are.
LEMMA DecipherUndoes ==
  ASSUME NEW w \in Schedule, NEW n \in 1..14, NEW x \in Register
  PROVE  Decipher(w, n, Encipher(w, n, x)) = x
<1> DEFINE t == Forwards(w, n, x)
           u == Backwards(w, n, Encipher(w, n, x))
<1>1. n - 1 \in 0..n - 1 /\ n - 1 - (n - 1) = 0
  OBVIOUS
<1>2. u[n - 1] = ShiftRows(SubBytes(t[0]))
  BY <1>1, BackThroughStates
<1>3. t[0] = AddWords(Load(x), w, 0) /\ Load(x) \in Matrix
  BY ForwardsStates, LoadEntries
<1>4. t[0] \in Matrix /\ AddWords(t[0], w, 0) = Load(x)
  BY <1>3, AddWordsUndone
<1> HIDE DEF t, u
<1>5. InvSubBytes(InvShiftRows(ShiftRows(SubBytes(t[0])))) = t[0]
  BY <1>4, SubShiftUndone
<1>6. LastBack(u[n - 1], w, 0) = Load(x)
  BY <1>2, <1>4, <1>5 DEF LastBack
<1>7. QED BY <1>6, LoadOut DEF Decipher, u

\* Encryption depends on the words of its rounds only.
LEMMA EncipherSameWords ==
  ASSUME NEW w \in Schedule, NEW v \in Schedule, NEW n \in 1..14,
         NEW x \in Register, SameWords(w, v, n)
  PROVE  Encipher(w, n, x) = Encipher(v, n, x)
<1> DEFINE t == Forwards(w, n, x)
           u == Forwards(v, n, x)
<1>1. /\ t[0] = AddWords(Load(x), w, 0) /\ u[0] = AddWords(Load(x), v, 0)
      /\ \A k \in 1..n - 1 : /\ t[k] = Forth(t[k - 1], w, k)
                             /\ u[k] = Forth(u[k - 1], v, k)
  BY ForwardsStates
<1>2. ASSUME NEW k \in 0..n, NEW m
      PROVE  /\ AddWords(m, w, k) = AddWords(m, v, k)
             /\ Forth(m, w, k) = Forth(m, v, k)
             /\ LastForth(m, w, k) = LastForth(m, v, k)
  <2>1. k \in 0..14 /\ n \in 0..14
    OBVIOUS
  <2>2. SameWords(w, v, k)
    BY <2>1, SameWordsOfFewer
  <2>3. QED BY <2>1, <2>2, SameWordsSameRound
<1> HIDE DEF t, u
<1> DEFINE P == {k \in 0..n - 1 : t[k] = u[k]}
<1>3. 0 \in P
  BY <1>1, <1>2
<1>4. ASSUME NEW k \in 1..n - 1, k - 1 \in P
      PROVE  k \in P
  <2>1. k \in 0..n /\ t[k - 1] = u[k - 1]
    BY <1>4
  <2>2. Forth(t[k - 1], w, k) = Forth(t[k - 1], v, k)
    BY <1>2, <2>1
  <2>3. QED BY <1>1, <2>1, <2>2
<1>5. n - 1 \in P
  <2> HIDE DEF P
  <2>1. n - 1 \in Nat /\ \A k \in 1..n - 1 : k - 1 \in P => k \in P
    BY <1>4
  <2>2. n - 1 \in 0..n - 1
    OBVIOUS
  <2>3. QED BY <1>3, <2>1, <2>2, UpTo
<1>6. t[n - 1] = u[n - 1]
  BY <1>5
<1>7. LastForth(t[n - 1], w, n) = LastForth(u[n - 1], v, n)
  <2>1. n \in 0..n
    OBVIOUS
  <2>2. QED BY <1>2, <1>6, <2>1
<1>8. QED BY <1>7 DEF Encipher, t, u

\* FIPS 197, figure 11, for every word: the schedule of a key.
ScheduleOf(k) ==
  LET w[j \in 0..59] ==
        IF j < Length(k.nk) THEN Standard(w, j, k) ELSE ZeroWord
  IN  w

\* The word of the standard is a word.
LEMMA StandardType ==
  ASSUME NEW k \in Keys, k.nk \in {4, 6, 8}, NEW w \in Schedule,
         NEW j \in 0..Length(k.nk) - 1
  PROVE  Standard(w, j, k) \in Word
<1>1. CASE j < k.nk
  BY <1>1, KeysType DEF Standard
<1>2. CASE j >= k.nk
  <2>1. j \in k.nk .. Length(k.nk) - 1 /\ j \in 0..59
    BY <1>2 DEF Length
  <2>2. NextWord(w, j, k.nk) \in Word
    BY <2>1, NextWordType
  <2>3. QED BY <1>2, <2>1, <2>2, StandardNext
<1>3. QED BY <1>1, <1>2 DEF Length

\* A key has a schedule, whose words are those of the standard.
LEMMA ScheduleExists ==
  ASSUME NEW k \in Keys, k.nk \in {4, 6, 8}
  PROVE  /\ ScheduleOf(k) \in Schedule
         /\ Followed(ScheduleOf(k), Length(k.nk), k)
<1> DEFINE L == Length(k.nk)
           Zeros(w, n) == \A j \in n..59 : w[j] = ZeroWord
           P == {n \in 0..L : \E w \in Schedule :
                                Followed(w, n, k) /\ Zeros(w, n)}
<1>1. L \in {44, 52, 60} /\ k.nk \in 0..L
  BY DEF Length
<1>2. ZeroWord \in Word
  BY DEF ZeroWord, Word, Byte
<1>3. 0 \in P
  <2> DEFINE w == [j \in 0..59 |-> ZeroWord]
  <2>1. w \in Schedule
    BY <1>2 DEF Schedule
  <2>2. Followed(w, 0, k) /\ Zeros(w, 0)
    BY DEF Followed
  <2> HIDE DEF w, Zeros
  <2>3. QED BY <1>1, <2>1, <2>2
<1>4. ASSUME NEW n \in 1..L, n - 1 \in P
      PROVE  n \in P
  <2>1. PICK w \in Schedule : Followed(w, n - 1, k) /\ Zeros(w, n - 1)
    BY <1>4
  <2>2. PICK m \in 0..59 : m = n - 1 /\ m \in 0..L - 1 /\ n = m + 1
    BY <1>1
  <2> DEFINE x == Standard(w, m, k)
             v == Put(w, m, x)
  <2>3. x \in Word
    BY <2>2, StandardType
  <2>4. v \in Schedule
    BY <2>3 DEF Put, Schedule
  <2>5. Followed(v, n, k)
    BY <2>1, <2>2, FollowsWord
  <2>6. Zeros(v, n)
    <3>1. ASSUME NEW j \in n..59
          PROVE  v[j] = ZeroWord
      <4>1. j \in n - 1..59 /\ j \in 0..59 /\ j # m
        BY <2>2
      <4>2. w[j] = ZeroWord
        BY <2>1, <4>1
      <4> HIDE DEF x
      <4>3. QED BY <4>1, <4>2 DEF Put, Schedule
    <3> HIDE DEF v
    <3>2. QED BY <3>1
  <2> HIDE DEF v, Zeros
  <2>7. QED BY <2>4, <2>5, <2>6
<1>5. L \in P
  <2> HIDE DEF P
  <2>1. L \in Nat /\ L \in 0..L
    BY <1>1
  <2> HIDE DEF L
  <2>2. \A n \in 1..L : n - 1 \in P => n \in P
    BY <1>4
  <2>3. QED BY <1>3, <2>1, <2>2, UpTo
<1>6. PICK w \in Schedule : Followed(w, L, k) /\ Zeros(w, L)
  BY <1>5
<1> DEFINE Whole(v) == v = [j \in 0..59 |-> IF j < L THEN Standard(v, j, k)
                                                     ELSE ZeroWord]
           f == ScheduleOf(k)
<1>7. Whole(w)
  <2>1. \A j \in 0..59 : w[j] = IF j < L THEN Standard(w, j, k) ELSE ZeroWord
    <3>1. \A j \in 0..59 : j \in 0..L - 1 \/ (j \in L..59 /\ ~(j < L))
      BY <1>1
    <3>2. \A j \in 0..L - 1 : j < L
      BY <1>1
    <3> HIDE DEF L
    <3>3. QED BY <1>6, <3>1, <3>2 DEF Followed
  <2> HIDE DEF L
  <2>2. w = [j \in 0..59 |-> w[j]]
    BY DEF Schedule
  <2>3. QED BY <2>1, <2>2
<1>8. Whole(f)
  <2>1. ScheduleOf(k) = CHOOSE v : Whole(v)
    BY DEF ScheduleOf
  <2> HIDE DEF Whole
  <2>2. QED BY <1>7, <2>1
<1> HIDE DEF f
<1>9. \A j \in 0..59 : f[j] = IF j < L THEN Standard(f, j, k) ELSE ZeroWord
  <2> HIDE DEF L
  <2>1. QED BY <1>8
<1>10. Followed(f, L, k)
  <2>1. \A j \in 0..L - 1 : j \in 0..59 /\ j < L
    BY <1>1
  <2> HIDE DEF L
  <2>2. QED BY <1>9, <2>1 DEF Followed
<1>11. \A j \in 0..59 : f[j] = w[j]
  <2>1. \A j \in 0..L - 1 : f[j] = w[j]
    <3>1. L \in 0..60 /\ KeySize(k)
      BY <1>1 DEF KeySize
    <3> HIDE DEF L
    <3>2. Agree(f, w, L)
      BY <1>6, <1>10, <3>1, OneSchedule
    <3>3. QED BY <3>2 DEF Agree
  <2>2. \A j \in 0..59 : j \in 0..L - 1 \/ (j \in L..59 /\ ~(j < L))
    BY <1>1
  <2> HIDE DEF L
  <2>3. QED BY <1>6, <1>9, <2>1, <2>2
<1>12. f = w
  <2>1. f = [j \in 0..59 |-> f[j]]
    <3> HIDE DEF L
    <3>1. QED BY <1>8
  <2>2. w = [j \in 0..59 |-> w[j]]
    BY DEF Schedule
  <2>3. QED BY <1>11, <2>1, <2>2
<1>13. QED BY <1>6, <1>12 DEF f

\* A key has one schedule, so it makes one ciphertext of a block.
LEMMA OneCipher ==
  ASSUME NEW w \in Schedule, NEW v \in Schedule, NEW k, k.nk \in {4, 6, 8},
         Followed(w, Length(k.nk), k), Followed(v, Length(k.nk), k),
         NEW x \in Register
  PROVE  Encipher(w, k.nk + 6, x) = Encipher(v, k.nk + 6, x)
<1>1. PICK n \in 1..14 : n = k.nk + 6
  OBVIOUS
<1>2. PICK m \in 0..60 : m = Length(k.nk) /\ m - 1 = 4 * n + 3
  <2>1. Length(k.nk) \in 0..60 /\ Length(k.nk) - 1 = 4 * n + 3
    BY <1>1 DEF Length
  <2>2. QED BY <2>1
<1>3. Followed(w, m, k) /\ Followed(v, m, k)
  BY <1>2
<1>4. Agree(w, v, m)
  <2>1. KeySize(k)
    BY DEF KeySize
  <2>2. QED BY <1>3, <2>1, OneSchedule
<1>5. SameWords(w, v, n)
  BY <1>2, <1>4 DEF SameWords, Agree
<1>6. Encipher(w, n, x) = Encipher(v, n, x)
  BY <1>5, EncipherSameWords
<1>7. QED BY <1>1, <1>6

\* There are finitely many blocks: a block is determined by the pairs of a
\* place and the byte there.
LEMMA RegistersFinite == IsFiniteSet(Register)
<1> DEFINE Pairs == (0..15) \X Byte
           Graph(x) == {<<k, x[k]>> : k \in 0..15}
           g == [x \in Register |-> Graph(x)]
<1>1. IsFiniteSet(SUBSET Pairs)
  <2>1. IsFiniteSet(0..15)
    <3>1. PICK k \in Int : k = 15
      OBVIOUS
    <3>2. IsFiniteSet(0..k)
      BY FS_Interval
    <3>3. QED BY <3>1, <3>2
  <2>2. IsFiniteSet(Byte)
    BY BitAssumption, FS_SUBSET DEF Byte
  <2>3. IsFiniteSet(Pairs)
    BY <2>1, <2>2, FS_Product
  <2> HIDE DEF Pairs
  <2>4. QED BY <2>3, FS_SUBSET
<1>2. \A x \in Register : Graph(x) \in SUBSET Pairs
  BY DEF Register
<1>3. ASSUME NEW x \in Register, NEW y \in Register, Graph(x) = Graph(y)
      PROVE  x = y
  <2>1. ASSUME NEW k \in 0..15
        PROVE  x[k] = y[k]
    <3>1. <<k, x[k]>> \in Graph(y)
      BY <1>3
    <3>2. QED BY <3>1
  <2>2. QED BY <2>1 DEF Register
<1> HIDE DEF Pairs, Graph
<1>4. g \in Injection(Register, SUBSET Pairs)
  <2>1. g \in [Register -> SUBSET Pairs]
    BY <1>2
  <2>2. IsInjective(g)
    BY <1>3 DEF IsInjective
  <2>3. QED BY <2>1, <2>2 DEF Injection
<1> HIDE DEF g
<1>5. QED BY <1>1, <1>4, FS_Injection

\* Encryption gives the block back that was decrypted: decryption reaches
\* every block, of which there are finitely many, so it takes no two to one.
LEMMA EncipherUndoes ==
  ASSUME NEW w \in Schedule, NEW n \in 1..14, NEW y \in Register
  PROVE  Encipher(w, n, Decipher(w, n, y)) = y
<1> DEFINE d == [x \in Register |-> Decipher(w, n, x)]
<1>1. \A x \in Register :
        Encipher(w, n, x) \in Register /\ Decipher(w, n, x) \in Register
  BY CipherType
<1>2. \A x \in Register : Decipher(w, n, Encipher(w, n, x)) = x
  BY DecipherUndoes
<1>3. d \in Surjection(Register, Register)
  <2>1. d \in [Register -> Register]
    BY <1>1
  <2>2. \A x \in Register : d[Encipher(w, n, x)] = x
    BY <1>1, <1>2
  <2>3. \A x \in Register : \E z \in Register : d[z] = x
    BY <1>1, <2>2
  <2> HIDE DEF d
  <2>4. QED BY <2>1, <2>3 DEF Surjection
<1>4. IsInjective(d)
  <2> HIDE DEF d
  <2>1. d \in Injection(Register, Register)
    BY <1>3, RegistersFinite, FS_SurjSameCardinalityImpliesInj
  <2>2. QED BY <2>1 DEF Injection
<1>5. PICK x \in Register : x = Encipher(w, n, Decipher(w, n, y))
  BY <1>1
<1>6. d[x] = d[y]
  BY <1>1, <1>2, <1>5
<1>7. x = y
  <2>1. DOMAIN d = Register
    OBVIOUS
  <2> HIDE DEF d
  <2>2. QED BY <1>4, <1>6, <2>1 DEF IsInjective
<1>8. QED BY <1>5, <1>7

\* The two functions write what the words of the context make of the block and
\* of the ciphertext, and leave nothing behind that the next call would see.
BlockFunctions ==
  \A b \in Builds :
    /\ Encrypted(b) => enc[b] = Encipher(rndk[b], rndn[b], plain)
    /\ at[b] = "done" => dec[b] = Decipher(rndk[b], rndn[b], enc[b])

\* FIPS 197 as a whole: what is encrypted is a function of the key of the last
\* AES_Context_Init and of the block, in either build, but for AES-NI and a
\* key of 192 bits.
FunctionOfKey ==
  \A b \in Builds :
    Encrypted(b) /\ (b = "generic" \/ key.nk # 6)
      => enc[b] = Encipher(ScheduleOf(key), key.nk + 6, plain)

\* The states that have been recorded are those.
LEMMA RecordedStates ==
  ASSUME IInv, NEW b \in Builds, at[b] # "start"
  PROVE  /\ rndk[b] \in Schedule /\ rndn[b] \in 1..14 /\ plain \in Register
         /\ \A k \in 0..rndn[b] - 1 : k < Len(trace[b]) =>
              trace[b][k + 1] = Forwards(rndk[b], rndn[b], plain)[k]
<1>1. Rounds(b) /\ ContextInv /\ BlockInv
  BY DEF IInv
<1>2. Recorded(b) /\ pc[b] = "ready"
  BY <1>1 DEF Rounds
<1>3. /\ rndk[b] \in Schedule /\ rndn[b] \in 1..14 /\ plain \in Register
      /\ trace[b] \in Seq(Matrix)
  <2>1. rndn[b] \in {10, 12, 14}
    BY <1>1, <1>2 DEF ContextInv
  <2>2. QED BY <1>1, <2>1 DEF ContextInv, BlockInv
<1> DEFINE w == rndk[b]
           n == rndn[b]
           t == Forwards(w, n, plain)
           P == {k \in 0..n - 1 : k < Len(trace[b]) => trace[b][k + 1] = t[k]}
<1>4. /\ t[0] = AddWords(Load(plain), w, 0)
      /\ \A k \in 1..n - 1 : t[k] = Forth(t[k - 1], w, k)
  BY <1>3, ForwardsStates
<1> HIDE DEF t
<1>5. 0 \in P
  <2>1. trace[b][0 + 1] = t[0] /\ 0 \in 0..n - 1
    BY <1>2, <1>3, <1>4 DEF Recorded
  <2>2. QED BY <2>1
<1>6. ASSUME NEW k \in 1..n - 1, k - 1 \in P, k < Len(trace[b])
      PROVE  trace[b][k + 1] = t[k]
  <2>1. k \in 1..Len(trace[b]) - 1 /\ k - 1 < Len(trace[b])
        /\ (k - 1) + 1 = k
    <3>1. Len(trace[b]) \in Nat
      BY <1>3
    <3>2. QED BY <1>3, <1>6, <3>1
  <2>2. trace[b][k] = t[k - 1]
    BY <1>6, <2>1
  <2>3. trace[b][k + 1] = Forth(trace[b][k], w, k)
    BY <1>2, <2>1 DEF Recorded
  <2>4. QED BY <1>4, <2>2, <2>3
<1>7. \A k \in 0..n - 1 : k \in P
  <2>1. \A k \in 1..n - 1 : k - 1 \in P => k \in P
    <3>1. \A k \in 1..n - 1 : k \in 0..n - 1
      OBVIOUS
    <3>2. QED BY <1>6, <3>1
  <2>2. n - 1 \in Nat
    BY <1>3
  <2> HIDE DEF P, n
  <2>3. QED BY <1>5, <2>1, <2>2, UpTo
<1>8. QED BY <1>3, <1>7 DEF t

\* What a build has encrypted is what its words make of the block.
LEMMA EncryptedIsEnciphered ==
  ASSUME IInv, NEW b \in Builds, Encrypted(b)
  PROVE  /\ rndk[b] \in Schedule /\ rndn[b] \in 1..14 /\ plain \in Register
         /\ enc[b] = Encipher(rndk[b], rndn[b], plain)
<1>1. Rounds(b) /\ BlockInv /\ at[b] # "start"
  BY DEF IInv, Encrypted
<1>2. /\ rndk[b] \in Schedule /\ rndn[b] \in 1..14 /\ plain \in Register
      /\ \A k \in 0..rndn[b] - 1 : k < Len(trace[b]) =>
           trace[b][k + 1] = Forwards(rndk[b], rndn[b], plain)[k]
  BY <1>1, RecordedStates
<1>3. /\ Len(trace[b]) = rndn[b]
      /\ Load(enc[b]) = LastForth(trace[b][rndn[b]], rndk[b], rndn[b])
  BY <1>1 DEF Rounds
<1>4. trace[b][rndn[b]] = Forwards(rndk[b], rndn[b], plain)[rndn[b] - 1]
  <2>1. rndn[b] - 1 \in 0..rndn[b] - 1 /\ rndn[b] - 1 < rndn[b]
        /\ (rndn[b] - 1) + 1 = rndn[b]
    BY <1>2
  <2>2. QED BY <1>2, <1>3, <2>1
<1>5. enc[b] \in Register
  BY <1>1 DEF BlockInv
<1>6. enc[b] = Out(Load(enc[b]))
  BY <1>5, LoadOut
<1>7. QED BY <1>2, <1>3, <1>4, <1>6 DEF Encipher

-----------------------------------------------------------------------------
(* The theorems.                                                           *)

\* Where AES_Context_DecryptBlock is in its loop, it has come back to the
\* state that AES_Context_EncryptBlock had there, and when it returns it has
\* given the block back: in either build, for every key and every block, and
\* for every pair of tables that undo each other and every product of bytes
\* that distributes over ^ and makes the two matrices of MixColumns and
\* InvMixColumns inverse.  Nothing is asked of the words of the context, so
\* this holds of the schedule the AES-NI build makes of 192 bits as well.
THEOREM RoundTripCorrect == Spec => []RoundTrip
<1>1. IInv => RoundTrip
  BY DEF IInv, Rounds, RoundTrip
<1>2. QED BY <1>1, IInvInit, IInvPreserved, PTL DEF Spec

\* Whenever AES_Context_Init has returned, the words of the context are those
\* of FIPS 197 for the key it was called with: for every key of every length,
\* whatever the context held before and in whatever order it was flushed,
\* initialized and used; the AES-NI build with 192 bits excepted.
THEOREM FollowsStandardCorrect == Spec => []FollowsStandard
<1>1. Init => ScheduleInv
  BY DEF Init, ContextInit, ScheduleInv, GenericFollows, NiFollows, Builds
<1>2. IInv /\ ScheduleInv => FollowsStandard
  <2>1. SUFFICES ASSUME IInv, ScheduleInv, NEW b \in Builds, pc[b] = "ready",
                        b = "generic" \/ key.nk # 6
                 PROVE  IsSchedule(b)
    BY DEF FollowsStandard
  <2>2. rndn[b] = key.nk + 6 /\ key.nk \in {4, 6, 8}
    BY <2>1 DEF IInv, ContextInv
  <2>3. Follows(b, Length(key.nk))
    BY <2>1 DEF ScheduleInv, GenericFollows, NiFollows, Builds
  <2>4. 0..4 * rndn[b] + 3 = 0..Length(key.nk) - 1
    BY <2>2 DEF Length
  <2>5. QED BY <2>2, <2>3, <2>4 DEF IsSchedule, Follows, Followed
<1>3. QED BY <1>1, <1>2, IInvInit, IInvPreserved, ScheduleInvPreserved, PTL
      DEF Spec

\* With a key of 128 or 256 bits the two builds go through the same states
\* and produce the same ciphertext, so that one decrypts what the other has
\* encrypted: for every key and every block, and however far the one is ahead
\* of the other.  There is one schedule of a key (OneSchedule), both builds
\* have it, and a round depends on nothing else.
THEOREM BuildsAgreeCorrect == Spec => []BuildsAgree
<1>1. Init => ScheduleInv
  BY DEF Init, ContextInit, ScheduleInv, GenericFollows, NiFollows, Builds
<1>2. IInv /\ ScheduleInv => BuildsAgree
  BY SamePlaceSameState DEF BuildsAgree
<1>3. QED BY <1>1, <1>2, IInvInit, IInvPreserved, ScheduleInvPreserved, PTL
      DEF Spec

\* With any words and any number of rounds, AES_Context_EncryptBlock is a
\* permutation of the blocks and AES_Context_DecryptBlock is its inverse, from
\* either side.  AesModes assumes the first two of the cipher of a context
\* (CipherUndoes), and all that AesCtr needs of it is its type.
THEOREM CipherIsPermutation ==
  ASSUME NEW w \in Schedule, NEW n \in 1..14, NEW x \in Register
  PROVE  /\ Encipher(w, n, x) \in Register /\ Decipher(w, n, x) \in Register
         /\ Decipher(w, n, Encipher(w, n, x)) = x
         /\ Encipher(w, n, Decipher(w, n, x)) = x
BY CipherType, DecipherUndoes, EncipherUndoes

\* In either build, after any calls on the context and any blocks before, an
\* encrypted block is Encipher of the words in the context and of the block,
\* and a decrypted one is Decipher of the ciphertext: the loops in place of the
\* generic build and the instructions of the other compute the same functions,
\* whatever the words are, those of a wrong schedule included.
THEOREM BlockFunctionsCorrect == Spec => []BlockFunctions
<1>1. ASSUME IInv, NEW b \in Builds
      PROVE  /\ Encrypted(b) => enc[b] = Encipher(rndk[b], rndn[b], plain)
             /\ at[b] = "done" => dec[b] = Decipher(rndk[b], rndn[b], enc[b])
  <2>1. Encrypted(b) => enc[b] = Encipher(rndk[b], rndn[b], plain)
    BY <1>1, EncryptedIsEnciphered
  <2>2. ASSUME at[b] = "done"
        PROVE  dec[b] = Decipher(rndk[b], rndn[b], enc[b])
    <3>1. Encrypted(b) /\ dec[b] = plain
      BY <1>1, <2>2 DEF IInv, Rounds, Encrypted
    <3>2. /\ rndk[b] \in Schedule /\ rndn[b] \in 1..14 /\ plain \in Register
          /\ enc[b] = Encipher(rndk[b], rndn[b], plain)
      BY <1>1, <3>1, EncryptedIsEnciphered
    <3>3. Decipher(rndk[b], rndn[b], Encipher(rndk[b], rndn[b], plain)) = plain
      BY <3>2, DecipherUndoes
    <3>4. QED BY <3>1, <3>2, <3>3
  <2>3. QED BY <2>1, <2>2
<1>2. IInv => BlockFunctions
  BY <1>1 DEF BlockFunctions
<1>3. QED BY <1>2, IInvInit, IInvPreserved, PTL DEF Spec

\* An encrypted block is what FIPS 197 makes of it with the key of the last
\* AES_Context_Init: the earlier keys, the flushes, the blocks encrypted before
\* and what malloc left in the context make no difference.
THEOREM FunctionOfKeyCorrect == Spec => []FunctionOfKey
<1>1. Init => ScheduleInv
  BY DEF Init, ContextInit, ScheduleInv, GenericFollows, NiFollows, Builds
<1>2. ASSUME IInv, ScheduleInv, NEW b \in Builds, Encrypted(b),
             b = "generic" \/ key.nk # 6
      PROVE  enc[b] = Encipher(ScheduleOf(key), key.nk + 6, plain)
  <2>1. /\ rndk[b] \in Schedule /\ rndn[b] \in 1..14 /\ plain \in Register
        /\ enc[b] = Encipher(rndk[b], rndn[b], plain)
    BY <1>2, EncryptedIsEnciphered
  <2>2. pc[b] = "ready" /\ ContextInv
    BY <1>2 DEF IInv, Rounds, Encrypted
  <2>3. key \in Keys /\ key.nk \in {4, 6, 8} /\ rndn[b] = key.nk + 6
    BY <2>2 DEF ContextInv
  <2>4. Followed(rndk[b], Length(key.nk), key)
    BY <1>2, <2>2 DEF ScheduleInv, GenericFollows, NiFollows, Follows, Builds
  <2>5. /\ ScheduleOf(key) \in Schedule
        /\ Followed(ScheduleOf(key), Length(key.nk), key)
    BY <2>3, ScheduleExists
  <2>6. Encipher(rndk[b], key.nk + 6, plain)
          = Encipher(ScheduleOf(key), key.nk + 6, plain)
    BY <2>1, <2>3, <2>4, <2>5, OneCipher
  <2>7. QED BY <2>1, <2>3, <2>6
<1>3. IInv /\ ScheduleInv => FunctionOfKey
  BY <1>2 DEF FunctionOfKey
<1>4. QED BY <1>1, <1>3, IInvInit, IInvPreserved, ScheduleInvPreserved, PTL
      DEF Spec
=============================================================================
