---------------------------- MODULE Crc32cProofs -----------------------------
(***************************************************************************)
(* The checksum of checksum.rs is CRC32C, for messages of every length,    *)
(* however they are divided among calls of update.  Shifting a word by one *)
(* bit is linear and loses nothing; eight shifts take in a byte, a slice   *)
(* takes in eight bytes, and process goes through the same states as the   *)
(* division bit by bit.  Linearity also tells which damage is noticed.     *)
(***************************************************************************)
EXTENDS Crc32c, LeastNumber

(* A u32.                                                                  *)
U32 == SUBSET Bit

-----------------------------------------------------------------------------
(* Exclusive or.                                                           *)

(* ^ is commutative and associative, 0 is neutral, and every word is its   *)
(* own inverse.                                                            *)
LEMMA XorAlgebra ==
  ASSUME NEW x, NEW y, NEW z
  PROVE  /\ Xor(x, y) = Xor(y, x)
         /\ Xor(Xor(x, y), z) = Xor(x, Xor(y, z))
         /\ Xor(x, {}) = x
         /\ Xor(x, x) = {}
         /\ Xor({}, x) = x
BY DEF Xor

(* A word can be cancelled.                                                *)
LEMMA XorCancels ==
  ASSUME NEW x, NEW y, NEW z, Xor(x, z) = Xor(y, z)
  PROVE  x = y
<1>1. Xor(Xor(x, z), z) = x /\ Xor(Xor(y, z), z) = y
  BY DEF Xor
<1> QED
  BY <1>1

(* ^ stays within the bits of its arguments.                               *)
LEMMA XorType ==
  ASSUME NEW B, NEW x \in SUBSET B, NEW y \in SUBSET B
  PROVE  Xor(x, y) \in SUBSET B
BY DEF Xor

-----------------------------------------------------------------------------
(* One shift.                                                              *)

(* The bits of a shifted word.                                             *)
LEMMA ShrBits ==
  ASSUME NEW x \in SUBSET Int, NEW n \in Nat, NEW i \in Int
  PROVE  i \in Shr(x, n) <=> i >= 0 /\ i + n \in x
BY DEF Shr

(* >> distributes over ^.                                                  *)
LEMMA ShrLinear ==
  ASSUME NEW x \in SUBSET Int, NEW y \in SUBSET Int, NEW n \in Nat
  PROVE  Shr(Xor(x, y), n) = Xor(Shr(x, n), Shr(y, n))
BY DEF Xor, Shr

(* A shifted word is a word.                                               *)
LEMMA ShiftOneType ==
  ASSUME NEW x \in U32
  PROVE  ShiftOne(x) \in U32
<1>1. Shr(x, 1) \in U32
  BY DEF Shr, U32, Bit
<1>2. POLY \in U32
  BY DEF POLY, U32, Bit
<1> QED
  BY <1>1, <1>2, XorType DEF ShiftOne, U32

(* One shift, with the polynomial taken away when a one falls out, is      *)
(* linear.                                                                 *)
LEMMA ShiftOneLinear ==
  ASSUME NEW x \in U32, NEW y \in U32
  PROVE  ShiftOne(Xor(x, y)) = Xor(ShiftOne(x), ShiftOne(y))
<1>1. Shr(Xor(x, y), 1) = Xor(Shr(x, 1), Shr(y, 1))
  BY ShrLinear DEF U32, Bit
<1>2. 0 \in Xor(x, y) <=> ~ (0 \in x <=> 0 \in y)
  BY DEF Xor
<1> DEFINE a == Shr(x, 1)
           b == Shr(y, 1)
           p == POLY
<1>3. /\ Xor(Xor(a, p), b) = Xor(Xor(a, b), p)
      /\ Xor(a, Xor(b, p)) = Xor(Xor(a, b), p)
      /\ Xor(Xor(a, p), Xor(b, p)) = Xor(a, b)
  <2> HIDE DEF a, b, p
  <2> QED
    BY DEF Xor
<1> QED
  BY <1>1, <1>2, <1>3 DEF ShiftOne

(* One shift loses nothing: bit 31 tells whether a one fell out.           *)
LEMMA ShiftOneKernel ==
  ASSUME NEW x \in U32, ShiftOne(x) = {}
  PROVE  x = {}
<1>1. 31 \notin Shr(x, 1)
  BY DEF Shr, U32, Bit
<1>2. 31 \in POLY
  BY DEF POLY
<1>3. 0 \notin x
  BY <1>1, <1>2 DEF ShiftOne, Xor
<1>4. Shr(x, 1) = {}
  BY <1>3 DEF ShiftOne
<1>5. ASSUME NEW i \in x PROVE FALSE
  <2>1. i \in 1 .. 31
    BY <1>3 DEF U32, Bit
  <2>2. i - 1 \in Shr(x, 1)
    BY <2>1 DEF Shr
  <2> QED
    BY <2>2, <1>4
<1> QED
  BY <1>5

-----------------------------------------------------------------------------
(* Eight shifts: a byte.                                                   *)

FourShifts(x)  == ShiftOne(ShiftOne(ShiftOne(ShiftOne(x))))
EightShifts(x) == FourShifts(FourShifts(x))

(* The loop of generate_tables shifts eight times.                         *)
LEMMA ShiftedIsEightShifts ==
  ASSUME NEW b
  PROVE  Shifted(b) = EightShifts(b)
<1> DEFINE F(c) == [bit \in 0 .. 8 |-> IF bit = 0 THEN b ELSE ShiftOne(c[bit - 1])]
           crc  == CHOOSE c : c = F(c)
           s1 == ShiftOne(b)
           s2 == ShiftOne(s1)
           s3 == ShiftOne(s2)
           s4 == ShiftOne(s3)
           s5 == ShiftOne(s4)
           s6 == ShiftOne(s5)
           s7 == ShiftOne(s6)
           s8 == ShiftOne(s7)
           w  == [bit \in 0 .. 8 |->
                   CASE bit = 0 -> b  [] bit = 1 -> s1 [] bit = 2 -> s2
                     [] bit = 3 -> s3 [] bit = 4 -> s4 [] bit = 5 -> s5
                     [] bit = 6 -> s6 [] bit = 7 -> s7 [] bit = 8 -> s8]
<1>1. Shifted(b) = crc[8]
  BY DEF Shifted
<1>2. ASSUME NEW bit \in 0 .. 8
      PROVE  w[bit] = F(w)[bit]
  OBVIOUS
<1>3. w = F(w)
  BY <1>2
<1>4. crc = F(crc)
  <2> HIDE DEF w
  <2> QED
    BY <1>3
<1>5. /\ crc[0] = b
      /\ \A bit \in 1 .. 8 : crc[bit] = ShiftOne(crc[bit - 1])
  <2> HIDE DEF crc, w
  <2> QED
    BY <1>4
<1>6. crc[8] = ShiftOne(ShiftOne(ShiftOne(ShiftOne(ShiftOne(ShiftOne(ShiftOne(ShiftOne(b))))))))
  <2> HIDE DEF crc, w, F
  <2>1. /\ crc[1] = ShiftOne(crc[0]) /\ crc[2] = ShiftOne(crc[1])
        /\ crc[3] = ShiftOne(crc[2]) /\ crc[4] = ShiftOne(crc[3])
        /\ crc[5] = ShiftOne(crc[4]) /\ crc[6] = ShiftOne(crc[5])
        /\ crc[7] = ShiftOne(crc[6]) /\ crc[8] = ShiftOne(crc[7])
    BY <1>5
  <2> QED
    BY <2>1, <1>5
<1> QED
  BY <1>1, <1>6 DEF EightShifts, FourShifts

(* Eight shifts of a word are a word.                                      *)
LEMMA EightShiftsType ==
  ASSUME NEW x \in U32
  PROVE  FourShifts(x) \in U32 /\ EightShifts(x) \in U32
<1>1. \A y \in U32 : FourShifts(y) \in U32
  BY ShiftOneType DEF FourShifts
<1> QED
  BY <1>1 DEF EightShifts

(* Eight shifts are linear.                                                *)
LEMMA EightShiftsLinear ==
  ASSUME NEW x \in U32, NEW y \in U32
  PROVE  EightShifts(Xor(x, y)) = Xor(EightShifts(x), EightShifts(y))
<1>1. ASSUME NEW a \in U32, NEW b \in U32
      PROVE  FourShifts(Xor(a, b)) = Xor(FourShifts(a), FourShifts(b))
  <2> DEFINE P(u, v) == ShiftOne(u) \in U32 /\ ShiftOne(v) \in U32
                        /\ ShiftOne(Xor(u, v)) = Xor(ShiftOne(u), ShiftOne(v))
  <2>1. \A u, v \in U32 : P(u, v)
    BY ShiftOneType, ShiftOneLinear
  <2>2. ShiftOne(ShiftOne(Xor(a, b))) = Xor(ShiftOne(ShiftOne(a)), ShiftOne(ShiftOne(b)))
    BY <2>1
  <2> DEFINE c == ShiftOne(ShiftOne(a))
             d == ShiftOne(ShiftOne(b))
  <2>3. c \in U32 /\ d \in U32
    BY <2>1
  <2>4. ShiftOne(ShiftOne(Xor(c, d))) = Xor(ShiftOne(ShiftOne(c)), ShiftOne(ShiftOne(d)))
    <3> HIDE DEF c, d
    <3> QED
      BY <2>1, <2>3
  <2> QED
    BY <2>2, <2>4 DEF FourShifts
<1>2. FourShifts(x) \in U32 /\ FourShifts(y) \in U32
  BY EightShiftsType
<1>3. FourShifts(Xor(x, y)) = Xor(FourShifts(x), FourShifts(y))
  BY <1>1
<1> QED
  BY <1>1, <1>2, <1>3 DEF EightShifts

(* Eight shifts lose nothing.                                              *)
LEMMA EightShiftsKernel ==
  ASSUME NEW x \in U32, EightShifts(x) = {}
  PROVE  x = {}
<1>1. ASSUME NEW y \in U32, FourShifts(y) = {}
      PROVE  y = {}
  BY <1>1, ShiftOneType, ShiftOneKernel, Zenon DEF FourShifts
<1>2. FourShifts(x) \in U32
  BY EightShiftsType
<1> QED
  BY <1>1, <1>2 DEF EightShifts

(* Different words stay different.                                         *)
LEMMA EightShiftsInjective ==
  ASSUME NEW x \in U32, NEW y \in U32, EightShifts(x) = EightShifts(y)
  PROVE  x = y
<1>1. EightShifts(Xor(x, y)) = {}
  BY EightShiftsLinear, XorAlgebra
<1>2. Xor(x, y) \in U32
  BY XorType DEF U32
<1>3. Xor(x, y) = {}
  BY <1>1, <1>2, EightShiftsKernel
<1> QED
  BY <1>3 DEF Xor

(* Shifting twice.                                                         *)
LEMMA ShrTwice ==
  ASSUME NEW x \in SUBSET Int, NEW m \in Nat, NEW n \in Nat
  PROVE  Shr(Shr(x, m), n) = Shr(x, m + n)
<1>1. Shr(x, m) \in SUBSET Int /\ Shr(Shr(x, m), n) \in SUBSET Int
  BY DEF Shr
<1>2. Shr(x, m + n) \in SUBSET Int
  BY DEF Shr
<1>3. ASSUME NEW i \in Int
      PROVE  i \in Shr(Shr(x, m), n) <=> i \in Shr(x, m + n)
  BY <1>1, ShrBits
<1> QED
  BY <1>1, <1>2, <1>3

(* Zeros fall out first: nothing is taken away.                            *)
LEMMA EightShiftsOfHigh ==
  ASSUME NEW x \in SUBSET (8 .. 31)
  PROVE  EightShifts(x) = Shr(x, 8)
<1>1. ASSUME NEW n \in 0 .. 7
      PROVE  ShiftOne(Shr(x, n)) = Shr(x, n + 1)
  <2>1. 0 \notin Shr(x, n)
    BY DEF Shr
  <2>2. x \in SUBSET Int /\ n \in Nat
    OBVIOUS
  <2>3. Shr(Shr(x, n), 1) = Shr(x, n + 1)
    BY <2>2, ShrTwice
  <2> QED
    BY <2>1, <2>3 DEF ShiftOne
<1>2. x = Shr(x, 0)
  <2>1. Shr(x, 0) \in SUBSET Int
    BY DEF Shr
  <2>2. \A i \in Int : i \in Shr(x, 0) <=> i \in x
    BY ShrBits
  <2>3. x \in SUBSET Int
    OBVIOUS
  <2> QED
    BY <2>1, <2>2, <2>3
<1>3. /\ ShiftOne(Shr(x, 0)) = Shr(x, 1) /\ ShiftOne(Shr(x, 1)) = Shr(x, 2)
      /\ ShiftOne(Shr(x, 2)) = Shr(x, 3) /\ ShiftOne(Shr(x, 3)) = Shr(x, 4)
      /\ ShiftOne(Shr(x, 4)) = Shr(x, 5) /\ ShiftOne(Shr(x, 5)) = Shr(x, 6)
      /\ ShiftOne(Shr(x, 6)) = Shr(x, 7) /\ ShiftOne(Shr(x, 7)) = Shr(x, 8)
  BY <1>1
<1> QED
  BY <1>2, <1>3 DEF EightShifts, FourShifts

(* A byte at position k of a word.                                         *)
At(b, k) == {i + 8 * k : i \in b}

(* Its bits.                                                               *)
LEMMA AtBits ==
  ASSUME NEW b \in Byte, NEW k \in Nat
  PROVE  /\ At(b, k) \in SUBSET (8 * k .. 8 * k + 7)
         /\ \A i \in Int : i \in At(b, k) <=> i - 8 * k \in b
BY DEF At, Byte

(* Eight shifts move a byte down by one position.                          *)
LEMMA EightShiftsOfByte ==
  ASSUME NEW b \in Byte, NEW k \in 1 .. 3
  PROVE  EightShifts(At(b, k)) = At(b, k - 1)
<1>1. At(b, k) \in SUBSET (8 .. 31)
  BY DEF At, Byte
<1>2. Shr(At(b, k), 8) = At(b, k - 1)
  <2>1. At(b, k) \in SUBSET Int /\ Shr(At(b, k), 8) \in SUBSET Int
    BY <1>1 DEF Shr
  <2>2. At(b, k - 1) \in SUBSET Nat
    BY DEF At, Byte
  <2>3. \A i \in Int : i \in Shr(At(b, k), 8) <=> i >= 0 /\ i + 8 \in At(b, k)
    BY <2>1, ShrBits
  <2>4. \A i \in Int : i + 8 \in At(b, k) <=> (i + 8) - 8 * k \in b
    BY AtBits
  <2>5. \A i \in Int : i \in At(b, k - 1) <=> i - 8 * (k - 1) \in b
    BY AtBits
  <2>6. \A i \in Int : (i + 8) - 8 * k = i - 8 * (k - 1)
    OBVIOUS
  <2>7. ASSUME NEW i \in Int
        PROVE  i \in Shr(At(b, k), 8) <=> i \in At(b, k - 1)
    BY <2>2, <2>3, <2>4, <2>5, <2>6
  <2> QED
    BY <2>1, <2>2, <2>7
<1> QED
  BY <1>1, <1>2, EightShiftsOfHigh

(* One step of the table is eight shifts of the word with the byte in it.  *)
LEMMA OneByteIsEightShifts ==
  ASSUME NEW c \in U32, NEW b \in Byte
  PROVE  OneByte(c, b) = EightShifts(Xor(c, b)) /\ OneByte(c, b) \in U32
<1> DEFINE low  == ByteOf(c, 0)
           high == c \ (0 .. 7)
<1>1. low \in Byte /\ high \in SUBSET (8 .. 31)
  BY DEF ByteOf, Byte, U32, Bit
<1>2. Xor(low, b) \in Byte
  BY <1>1, XorType DEF Byte
<1>3. \A a \in Byte : a \in U32
  BY DEF Byte, U32, Bit
<1>4. Shr(c, 8) = Shr(high, 8)
  BY DEF Shr, U32, Bit
<1>5. Xor(c, b) = Xor(high, Xor(low, b))
  BY DEF Xor, ByteOf, U32, Bit, Byte
<1> HIDE DEF low, high
<1>6. high \in U32
  BY <1>1 DEF U32, Bit
<1>7. Table0[Xor(low, b)] = EightShifts(Xor(low, b))
  BY <1>2, ShiftedIsEightShifts DEF Table0
<1>8. OneByte(c, b) = Xor(EightShifts(high), EightShifts(Xor(low, b)))
  BY <1>1, <1>4, <1>7, EightShiftsOfHigh DEF OneByte, low
<1>9. OneByte(c, b) = EightShifts(Xor(c, b))
  BY <1>2, <1>3, <1>5, <1>6, <1>8, EightShiftsLinear
<1>10. Xor(c, b) \in U32
  BY <1>3, XorType DEF U32
<1> QED
  BY <1>9, <1>10, EightShiftsType

-----------------------------------------------------------------------------
(* A slice: eight bytes at once.                                           *)

(* A word moved on by one to eight zero bytes.                             *)
L(x)  == EightShifts(x)
L2(x) == L(L(x))
L3(x) == L(L2(x))
L4(x) == L(L3(x))
L5(x) == L(L4(x))
L6(x) == L(L5(x))
L7(x) == L(L6(x))
L8(x) == L(L7(x))

(* Shifts by several bytes give words.                                     *)
LEMMA ShiftsType ==
  ASSUME NEW x \in U32
  PROVE  /\ L(x) \in U32 /\ L2(x) \in U32 /\ L3(x) \in U32 /\ L4(x) \in U32
         /\ L5(x) \in U32 /\ L6(x) \in U32 /\ L7(x) \in U32 /\ L8(x) \in U32
<1>1. \A a \in U32 : L(a) \in U32
  BY EightShiftsType DEF L
<1>2. L(x) \in U32 /\ L2(x) \in U32 /\ L3(x) \in U32 /\ L4(x) \in U32
  BY <1>1 DEF L2, L3, L4
<1> QED
  BY <1>1, <1>2 DEF L5, L6, L7, L8

(* A shift by a byte is linear.                                            *)
LEMMA LLinear ==
  ASSUME NEW x \in U32, NEW y \in U32
  PROVE  L(Xor(x, y)) = Xor(L(x), L(y))
BY EightShiftsLinear DEF L

(* So is one by two bytes.                                                *)
LEMMA L2Linear ==
  ASSUME NEW x \in U32, NEW y \in U32
  PROVE  L2(Xor(x, y)) = Xor(L2(x), L2(y))
<1>1. L(x) \in U32 /\ L(y) \in U32
  BY ShiftsType
<1>2. L(Xor(x, y)) = Xor(L(x), L(y))
  BY LLinear
<1>3. L(Xor(L(x), L(y))) = Xor(L(L(x)), L(L(y)))
  BY <1>1, LLinear
<1> QED
  BY <1>2, <1>3 DEF L2

(* So is one by three bytes.                                              *)
LEMMA L3Linear ==
  ASSUME NEW x \in U32, NEW y \in U32
  PROVE  L3(Xor(x, y)) = Xor(L3(x), L3(y))
<1>1. L2(x) \in U32 /\ L2(y) \in U32
  BY ShiftsType
<1>2. L2(Xor(x, y)) = Xor(L2(x), L2(y))
  BY L2Linear
<1>3. L(Xor(L2(x), L2(y))) = Xor(L(L2(x)), L(L2(y)))
  BY <1>1, LLinear
<1> QED
  BY <1>2, <1>3 DEF L3

(* So is one by four bytes.                                               *)
LEMMA L4Linear ==
  ASSUME NEW x \in U32, NEW y \in U32
  PROVE  L4(Xor(x, y)) = Xor(L4(x), L4(y))
<1>1. L3(x) \in U32 /\ L3(y) \in U32
  BY ShiftsType
<1>2. L3(Xor(x, y)) = Xor(L3(x), L3(y))
  BY L3Linear
<1>3. L(Xor(L3(x), L3(y))) = Xor(L(L3(x)), L(L3(y)))
  BY <1>1, LLinear
<1> QED
  BY <1>2, <1>3 DEF L4

(* So is one by eight bytes.                                              *)
LEMMA L8Linear ==
  ASSUME NEW x \in U32, NEW y \in U32
  PROVE  L8(Xor(x, y)) = Xor(L8(x), L8(y))
<1>1. L4(x) \in U32 /\ L4(y) \in U32
  BY ShiftsType
<1>2. L4(Xor(x, y)) = Xor(L4(x), L4(y))
  BY L4Linear
<1>3. L4(Xor(L4(x), L4(y))) = Xor(L4(L4(x)), L4(L4(y)))
  BY <1>1, L4Linear
<1>4. \A z : L8(z) = L4(L4(z))
  BY DEF L8, L7, L6, L5, L4, L3, L2
<1> QED
  BY <1>2, <1>3, <1>4

(* A byte is a word.                                                       *)
LEMMA ByteIsWord == Byte \subseteq U32
BY DEF Byte, U32, Bit

(* Table k holds the byte shifted by k + 1 bytes.                          *)
LEMMA TableShifts ==
  ASSUME NEW b \in Byte
  PROVE  /\ TABLES[1][b] = L(b)  /\ TABLES[2][b] = L2(b)
         /\ TABLES[3][b] = L3(b) /\ TABLES[4][b] = L4(b)
         /\ TABLES[5][b] = L5(b) /\ TABLES[6][b] = L6(b)
         /\ TABLES[7][b] = L7(b) /\ TABLES[8][b] = L8(b)
<1>1. ASSUME NEW c \in U32 PROVE OneByte(c, {}) = L(c)
  BY OneByteIsEightShifts, XorAlgebra DEF L, Byte
<1>2. \A t : Extended(t)[b] = OneByte(t[b], {})
  BY DEF Extended
<1>3. b \in U32
  BY ByteIsWord
<1>4. Table0[b] = L(b)
  BY ShiftedIsEightShifts DEF Table0, L
<1>5. Table1[b] = L2(b)
  BY <1>1, <1>2, <1>3, <1>4, ShiftsType DEF Table1, L2
<1>6. Table2[b] = L3(b)
  BY <1>1, <1>2, <1>3, <1>5, ShiftsType DEF Table2, L3
<1>7. Table3[b] = L4(b)
  BY <1>1, <1>2, <1>3, <1>6, ShiftsType DEF Table3, L4
<1>8. Table4[b] = L5(b)
  BY <1>1, <1>2, <1>3, <1>7, ShiftsType DEF Table4, L5
<1>9. Table5[b] = L6(b)
  BY <1>1, <1>2, <1>3, <1>8, ShiftsType DEF Table5, L6
<1>10. Table6[b] = L7(b)
  BY <1>1, <1>2, <1>3, <1>9, ShiftsType DEF Table6, L7
<1>11. Table7[b] = L8(b)
  BY <1>1, <1>2, <1>3, <1>10, ShiftsType DEF Table7, L8
<1> QED
  BY <1>4, <1>5, <1>6, <1>7, <1>8, <1>9, <1>10, <1>11 DEF TABLES

(* A word is the sum of its four bytes.                                    *)
LEMMA WordIsItsBytes ==
  ASSUME NEW x \in U32
  PROVE  /\ \A k \in 0 .. 3 : ByteOf(x, k) \in Byte
         /\ x = Xor(ByteOf(x, 0), Xor(At(ByteOf(x, 1), 1),
                    Xor(At(ByteOf(x, 2), 2), At(ByteOf(x, 3), 3))))
<1>1. \A k \in 0 .. 3 : ByteOf(x, k) \in Byte
  BY DEF ByteOf, Byte
<1>2. /\ ByteOf(x, 0) = x \cap 0 .. 7
      /\ \A i : i \in At(ByteOf(x, 1), 1) <=> i \in x /\ i \in 8 .. 15
      /\ \A i : i \in At(ByteOf(x, 2), 2) <=> i \in x /\ i \in 16 .. 23
      /\ \A i : i \in At(ByteOf(x, 3), 3) <=> i \in x /\ i \in 24 .. 31
  <2>1. ASSUME NEW k \in 1 .. 3, NEW i
        PROVE  i \in At(ByteOf(x, k), k) <=> i \in x /\ i \in 8 * k .. 8 * k + 7
    <3>1. CASE i \in 8 * k .. 8 * k + 7
      <4>1. i \in At(ByteOf(x, k), k) <=> i - 8 * k \in ByteOf(x, k)
        <5>1. ByteOf(x, k) \in Byte /\ k \in Nat /\ i \in Int
          BY <1>1, <3>1
        <5> QED
          BY <5>1, AtBits
      <4>2. i - 8 * k \in 0 .. 7 /\ (i - 8 * k) + 8 * k = i
        BY <3>1
      <4> QED
        BY <3>1, <4>1, <4>2 DEF ByteOf
    <3>2. CASE i \notin 8 * k .. 8 * k + 7
      BY <1>1, <3>2, AtBits
    <3> QED
      BY <3>1, <3>2
  <2>2. ByteOf(x, 0) = x \cap 0 .. 7
    BY DEF ByteOf, U32, Bit
  <2>3. 8 * 1 = 8 /\ 8 * 2 = 16 /\ 8 * 3 = 24 /\ 8 + 7 = 15 /\ 16 + 7 = 23 /\ 24 + 7 = 31
    OBVIOUS
  <2> QED
    BY <2>1, <2>2, <2>3
<1>3. \A i \in x : i \in 0 .. 7 \/ i \in 8 .. 15 \/ i \in 16 .. 23 \/ i \in 24 .. 31
  BY DEF U32, Bit
<1> DEFINE b0 == ByteOf(x, 0)
           b1 == At(ByteOf(x, 1), 1)
           b2 == At(ByteOf(x, 2), 2)
           b3 == At(ByteOf(x, 3), 3)
<1>4. \A i : i \in x <=> i \in Xor(b0, Xor(b1, Xor(b2, b3)))
  <2> HIDE DEF b1, b2, b3, b0
  <2>1. \A i : i \in Xor(b2, b3) <=> i \in x /\ i \in 16 .. 31
    BY <1>2 DEF Xor, b2, b3
  <2>2. \A i : i \in Xor(b1, Xor(b2, b3)) <=> i \in x /\ i \in 8 .. 31
    BY <1>2, <2>1 DEF Xor, b1
  <2> QED
    BY <1>2, <1>3, <2>2 DEF Xor, b0
<1> QED
  BY <1>1, <1>4

(* The word made of the first four bytes of a chunk has these bytes.       *)
LEMMA BytesOfWord ==
  ASSUME NEW b, \A k \in 1 .. 4 : b[k] \in Byte
  PROVE  /\ Word(b) \in U32
         /\ \A k \in 0 .. 3 : ByteOf(Word(b), k) = b[k + 1]
<1>1. \A k \in 1 .. 4 : \A i \in b[k] : i \in 0 .. 7
  BY DEF Byte
<1>2. Word(b) \in U32
  BY <1>1 DEF Word, U32, Bit
<1>3. ASSUME NEW k \in 0 .. 3, NEW i \in 0 .. 7
      PROVE  i + 8 * k \in Word(b) <=> i \in b[k + 1]
  BY <1>1 DEF Word
<1>4. \A k \in 0 .. 3 : b[k + 1] \subseteq 0 .. 7
  BY <1>1
<1> QED
  BY <1>2, <1>3, <1>4 DEF ByteOf

(* A byte of a word reaches the lowest position, unchanged.                *)
LEMMA BytesMoveDown ==
  ASSUME NEW b \in Byte
  PROVE  /\ At(b, 1) \in U32 /\ At(b, 2) \in U32 /\ At(b, 3) \in U32
         /\ L(At(b, 1)) = b /\ L2(At(b, 2)) = b /\ L3(At(b, 3)) = b
<1>1. /\ At(b, 1) \in SUBSET (8 * 1 .. 8 * 1 + 7)
      /\ At(b, 2) \in SUBSET (8 * 2 .. 8 * 2 + 7)
      /\ At(b, 3) \in SUBSET (8 * 3 .. 8 * 3 + 7)
  BY AtBits
<1>2. At(b, 0) = b
  <2>1. \A i \in b : i + 8 * 0 = i
    BY DEF Byte
  <2> QED
    BY <2>1 DEF At
<1>3. L(At(b, 1)) = At(b, 0) /\ L(At(b, 2)) = At(b, 1) /\ L(At(b, 3)) = At(b, 2)
  BY EightShiftsOfByte DEF L
<1>4. At(b, 1) \in U32 /\ At(b, 2) \in U32 /\ At(b, 3) \in U32
  BY <1>1 DEF U32, Bit
<1> QED
  BY <1>2, <1>3, <1>4 DEF L2, L3

(* What the loop over the eight tables adds up.                            *)
LEMMA SliceSum ==
  ASSUME NEW c, NEW chunk
  PROVE  LET x == Xor(c, Word(chunk))
         IN  Slice(c, chunk) =
               Xor(TABLES[8][ByteOf(x, 0)], Xor(TABLES[7][ByteOf(x, 1)],
               Xor(TABLES[6][ByteOf(x, 2)], Xor(TABLES[5][ByteOf(x, 3)],
               Xor(TABLES[4][chunk[5]], Xor(TABLES[3][chunk[6]],
               Xor(TABLES[2][chunk[7]], Xor(TABLES[1][chunk[8]], {}))))))))
<1> DEFINE x    == Xor(c, Word(chunk))
           t(k) == TABLES[9 - k][IF k <= 4 THEN ByteOf(x, k - 1) ELSE chunk[k]]
           F(s) == [k \in 1 .. 9 |-> IF k = 9 THEN {} ELSE Xor(t(k), s[k + 1])]
           sum  == CHOOSE s : s = F(s)
           s8 == Xor(t(8), {})
           s7 == Xor(t(7), s8)
           s6 == Xor(t(6), s7)
           s5 == Xor(t(5), s6)
           s4 == Xor(t(4), s5)
           s3 == Xor(t(3), s4)
           s2 == Xor(t(2), s3)
           s1 == Xor(t(1), s2)
           w  == [k \in 1 .. 9 |->
                   CASE k = 1 -> s1 [] k = 2 -> s2 [] k = 3 -> s3
                     [] k = 4 -> s4 [] k = 5 -> s5 [] k = 6 -> s6
                     [] k = 7 -> s7 [] k = 8 -> s8 [] k = 9 -> {}]
<1>1. Slice(c, chunk) = sum[1]
  BY DEF Slice
<1>2. w = F(w)
  <2> HIDE DEF t
  <2>1. ASSUME NEW k \in 1 .. 9
        PROVE  w[k] = F(w)[k]
    OBVIOUS
  <2> QED
    BY <2>1
<1>3. sum = F(sum)
  <2> HIDE DEF w, t
  <2> QED
    BY <1>2
<1>4. sum[9] = {} /\ \A k \in 1 .. 8 : sum[k] = Xor(t(k), sum[k + 1])
  <2> HIDE DEF sum, w, t
  <2> QED
    BY <1>3
<1>5. sum[1] = Xor(t(1), Xor(t(2), Xor(t(3), Xor(t(4), Xor(t(5), Xor(t(6), Xor(t(7), Xor(t(8), {}))))))))
  <2> HIDE DEF sum, w, t, F
  <2>1. /\ sum[8] = Xor(t(8), sum[9]) /\ sum[7] = Xor(t(7), sum[8])
        /\ sum[6] = Xor(t(6), sum[7]) /\ sum[5] = Xor(t(5), sum[6])
        /\ sum[4] = Xor(t(4), sum[5]) /\ sum[3] = Xor(t(3), sum[4])
        /\ sum[2] = Xor(t(2), sum[3]) /\ sum[1] = Xor(t(1), sum[2])
    BY <1>4
  <2> QED
    BY <1>4, <2>1
<1>6. /\ t(1) = TABLES[8][ByteOf(x, 0)] /\ t(2) = TABLES[7][ByteOf(x, 1)]
      /\ t(3) = TABLES[6][ByteOf(x, 2)] /\ t(4) = TABLES[5][ByteOf(x, 3)]
      /\ t(5) = TABLES[4][chunk[5]] /\ t(6) = TABLES[3][chunk[6]]
      /\ t(7) = TABLES[2][chunk[7]] /\ t(8) = TABLES[1][chunk[8]]
  <2> HIDE DEF x
  <2> QED
    OBVIOUS
<1> HIDE DEF sum, t
<1> QED
  BY <1>1, <1>5, <1>6

(* Four bytes taken in one by one are the word they make up, shifted out.  *)
LEMMA FourBytes ==
  ASSUME NEW c \in U32, NEW b, \A k \in 1 .. 4 : b[k] \in Byte
  PROVE  OneByte(OneByte(OneByte(OneByte(c, b[1]), b[2]), b[3]), b[4])
           = L4(Xor(c, Word(b)))
<1> DEFINE b2 == At(b[2], 1)
           b3 == At(b[3], 2)
           b4 == At(b[4], 3)
           x1 == Xor(c, b[1])
           x2 == Xor(x1, b2)
           x3 == Xor(x2, b3)
           x4 == Xor(x3, b4)
<1>1. b[1] \in Byte /\ b[2] \in Byte /\ b[3] \in Byte /\ b[4] \in Byte
  OBVIOUS
<1>2. b[1] \in U32 /\ b2 \in U32 /\ b3 \in U32 /\ b4 \in U32
  BY <1>1, ByteIsWord, BytesMoveDown
<1>3. L(b2) = b[2] /\ L2(b3) = b[3] /\ L3(b4) = b[4]
  BY <1>1, BytesMoveDown
<1>4. Word(b) = Xor(b[1], Xor(b2, Xor(b3, b4)))
  <2>1. Word(b) \in U32 /\ ByteOf(Word(b), 0) = b[1] /\ ByteOf(Word(b), 1) = b[2]
        /\ ByteOf(Word(b), 2) = b[3] /\ ByteOf(Word(b), 3) = b[4]
    BY BytesOfWord
  <2> QED
    BY <2>1, WordIsItsBytes
<1> HIDE DEF b2, b3, b4
<1>5. x1 \in U32 /\ x2 \in U32 /\ x3 \in U32
  BY <1>2, XorType DEF U32
<1>6. Xor(c, Word(b)) = x4
  <2> DEFINE b1 == b[1]
  <2> HIDE DEF b1
  <2>1. Xor(c, Xor(b1, Xor(b2, Xor(b3, b4)))) = Xor(Xor(Xor(Xor(c, b1), b2), b3), b4)
    BY DEF Xor
  <2> QED
    BY <1>4, <2>1 DEF b1
<1> HIDE DEF x1, x2, x3, x4
<1>7. OneByte(c, b[1]) = L(x1)
  BY <1>1, OneByteIsEightShifts DEF L, x1
<1>8. OneByte(L(x1), b[2]) = L2(x2)
  <2>1. L(x1) \in U32 /\ L(Xor(x1, b2)) = Xor(L(x1), L(b2))
    BY <1>2, <1>5, ShiftsType, LLinear
  <2>2. L(x2) = Xor(L(x1), b[2])
    BY <1>3, <2>1 DEF x2
  <2> QED
    BY <1>1, <2>1, <2>2, OneByteIsEightShifts DEF L, L2
<1>9. OneByte(L2(x2), b[3]) = L3(x3)
  <2>1. L2(x2) \in U32 /\ L2(Xor(x2, b3)) = Xor(L2(x2), L2(b3))
    BY <1>2, <1>5, ShiftsType, L2Linear
  <2>2. L2(x3) = Xor(L2(x2), b[3])
    BY <1>3, <2>1 DEF x3
  <2> QED
    BY <1>1, <2>1, <2>2, OneByteIsEightShifts DEF L, L3
<1>10. OneByte(L3(x3), b[4]) = L4(x4)
  <2>1. L3(x3) \in U32 /\ L3(Xor(x3, b4)) = Xor(L3(x3), L3(b4))
    BY <1>2, <1>5, ShiftsType, L3Linear
  <2>2. L3(x4) = Xor(L3(x3), b[4])
    BY <1>3, <2>1 DEF x4
  <2> QED
    BY <1>1, <2>1, <2>2, OneByteIsEightShifts DEF L, L4
<1> QED
  BY <1>6, <1>7, <1>8, <1>9, <1>10

(* A slice is eight single bytes.                                          *)
LEMMA SliceIsEightBytes ==
  ASSUME NEW c \in U32, NEW b, \A k \in 1 .. 8 : b[k] \in Byte
  PROVE  Slice(c, b) =
           OneByte(OneByte(OneByte(OneByte(
             OneByte(OneByte(OneByte(OneByte(c, b[1]), b[2]), b[3]), b[4]),
               b[5]), b[6]), b[7]), b[8])
<1> DEFINE x  == Xor(c, Word(b))
           b5 == b[5]
           b6 == b[6]
           b7 == b[7]
           b8 == b[8]
           x0 == ByteOf(x, 0)
           x1 == ByteOf(x, 1)
           x2 == ByteOf(x, 2)
           x3 == ByteOf(x, 3)
<1>1. /\ b5 \in Byte /\ b6 \in Byte /\ b7 \in Byte /\ b8 \in Byte
      /\ b5 \in U32 /\ b6 \in U32 /\ b7 \in U32 /\ b8 \in U32
  BY ByteIsWord
<1>2. x \in U32
  BY BytesOfWord, XorType DEF U32
<1>3. OneByte(OneByte(OneByte(OneByte(c, b[1]), b[2]), b[3]), b[4]) = L4(x)
  BY FourBytes
<1>4. Slice(c, b) =
        Xor(TABLES[8][x0], Xor(TABLES[7][x1], Xor(TABLES[6][x2], Xor(TABLES[5][x3],
        Xor(TABLES[4][b5], Xor(TABLES[3][b6], Xor(TABLES[2][b7], Xor(TABLES[1][b8], {}))))))))
  BY SliceSum
<1> HIDE DEF x, b5, b6, b7, b8, x0, x1, x2, x3
<1>5. OneByte(L4(x), b5) = Xor(L5(x), L(b5))
  <2>1. L4(x) \in U32 /\ L(Xor(L4(x), b5)) = Xor(L(L4(x)), L(b5))
    BY <1>1, <1>2, ShiftsType, LLinear
  <2> QED
    BY <1>1, <2>1, OneByteIsEightShifts DEF L, L5
<1>6. OneByte(Xor(L5(x), L(b5)), b6) = Xor(Xor(L6(x), L2(b5)), L(b6))
  <2>1. L5(x) \in U32 /\ L(b5) \in U32
    BY <1>1, <1>2, ShiftsType
  <2>2. Xor(L5(x), L(b5)) \in U32
    BY <2>1, XorType DEF U32
  <2>3. L(Xor(Xor(L5(x), L(b5)), b6)) = Xor(L(Xor(L5(x), L(b5))), L(b6))
    BY <1>1, <2>2, LLinear
  <2>4. L(Xor(L5(x), L(b5))) = Xor(L(L5(x)), L(L(b5)))
    BY <2>1, LLinear
  <2> QED
    BY <1>1, <2>2, <2>3, <2>4, OneByteIsEightShifts DEF L, L6, L2
<1> DEFINE y6 == Xor(L6(x), L2(b5))
<1>7. OneByte(Xor(y6, L(b6)), b7) = Xor(Xor(Xor(L7(x), L3(b5)), L2(b6)), L(b7))
  <2>1. L6(x) \in U32 /\ L2(b5) \in U32 /\ L(b6) \in U32
    BY <1>1, <1>2, ShiftsType
  <2>2. y6 \in U32 /\ Xor(y6, L(b6)) \in U32
    BY <2>1, XorType DEF U32
  <2>3. L(Xor(Xor(y6, L(b6)), b7)) = Xor(L(Xor(y6, L(b6))), L(b7))
    BY <1>1, <2>2, LLinear
  <2>4. L(Xor(y6, L(b6))) = Xor(L(y6), L(L(b6)))
    BY <2>1, <2>2, LLinear
  <2>5. L(y6) = Xor(L(L6(x)), L(L2(b5)))
    BY <2>1, LLinear
  <2>6. OneByte(Xor(y6, L(b6)), b7) = L(Xor(Xor(y6, L(b6)), b7))
    BY <1>1, <2>2, OneByteIsEightShifts DEF L
  <2> QED
    BY <2>3, <2>4, <2>5, <2>6 DEF L7, L3, L2
<1> DEFINE y7 == Xor(Xor(L7(x), L3(b5)), L2(b6))
<1>8. OneByte(Xor(y7, L(b7)), b8)
        = Xor(Xor(Xor(Xor(L8(x), L4(b5)), L3(b6)), L2(b7)), L(b8))
  <2>1. L7(x) \in U32 /\ L3(b5) \in U32 /\ L2(b6) \in U32 /\ L(b7) \in U32
    BY <1>1, <1>2, ShiftsType
  <2>2. Xor(L7(x), L3(b5)) \in U32
    BY <2>1, XorType DEF U32
  <2>3. y7 \in U32
    BY <2>1, <2>2, XorType DEF U32
  <2>4. Xor(y7, L(b7)) \in U32
    BY <2>1, <2>3, XorType DEF U32
  <2>5. L(Xor(Xor(y7, L(b7)), b8)) = Xor(L(Xor(y7, L(b7))), L(b8))
    BY <1>1, <2>4, LLinear
  <2>6. L(Xor(y7, L(b7))) = Xor(L(y7), L(L(b7)))
    BY <2>1, <2>3, LLinear
  <2>7. L(y7) = Xor(L(Xor(L7(x), L3(b5))), L(L2(b6)))
    BY <2>1, <2>2, LLinear
  <2>8. L(Xor(L7(x), L3(b5))) = Xor(L(L7(x)), L(L3(b5)))
    BY <2>1, LLinear
  <2>9. OneByte(Xor(y7, L(b7)), b8) = L(Xor(Xor(y7, L(b7)), b8))
    BY <1>1, <2>4, OneByteIsEightShifts DEF L
  <2> QED
    BY <2>5, <2>6, <2>7, <2>8, <2>9 DEF L8, L4, L3, L2
<1>9. /\ x0 \in Byte /\ x1 \in Byte /\ x2 \in Byte /\ x3 \in Byte
      /\ x = Xor(x0, Xor(At(x1, 1), Xor(At(x2, 2), At(x3, 3))))
  BY <1>2, WordIsItsBytes DEF x0, x1, x2, x3
<1>10. L8(x) = Xor(L8(x0), Xor(L7(x1), Xor(L6(x2), L5(x3))))
  <2> DEFINE a1 == At(x1, 1)
             a2 == At(x2, 2)
             a3 == At(x3, 3)
  <2>1. x0 \in U32 /\ a1 \in U32 /\ a2 \in U32 /\ a3 \in U32
    BY <1>9, ByteIsWord, BytesMoveDown
  <2>2. L(a1) = x1 /\ L2(a2) = x2 /\ L3(a3) = x3
    BY <1>9, BytesMoveDown
  <2> HIDE DEF a1, a2, a3
  <2>3. L8(a1) = L7(x1) /\ L8(a2) = L6(x2) /\ L8(a3) = L5(x3)
    BY <2>2 DEF L8, L7, L6, L5, L4, L3, L2
  <2>4. Xor(a2, a3) \in U32
    BY <2>1, XorType DEF U32
  <2>5. Xor(a1, Xor(a2, a3)) \in U32
    BY <2>1, <2>4, XorType DEF U32
  <2>6. L8(Xor(a2, a3)) = Xor(L8(a2), L8(a3))
    BY <2>1, L8Linear
  <2>7. L8(Xor(a1, Xor(a2, a3))) = Xor(L8(a1), L8(Xor(a2, a3)))
    BY <2>1, <2>4, L8Linear
  <2>8. L8(Xor(x0, Xor(a1, Xor(a2, a3)))) = Xor(L8(x0), L8(Xor(a1, Xor(a2, a3))))
    BY <2>1, <2>5, L8Linear
  <2> QED
    BY <1>9, <2>3, <2>6, <2>7, <2>8 DEF a1, a2, a3
<1>11. Slice(c, b) =
         Xor(L8(x0), Xor(L7(x1), Xor(L6(x2), Xor(L5(x3),
         Xor(L4(b5), Xor(L3(b6), Xor(L2(b7), Xor(L(b8), {}))))))))
  BY <1>1, <1>4, <1>9, TableShifts
<1>12. ASSUME NEW p, NEW q, NEW r, NEW s, NEW t, NEW u, NEW v, NEW w
       PROVE  Xor(p, Xor(q, Xor(r, Xor(s, Xor(t, Xor(u, Xor(v, Xor(w, {}))))))))
                = Xor(Xor(Xor(Xor(Xor(p, Xor(q, Xor(r, s))), t), u), v), w)
  BY DEF Xor
<1>13. Slice(c, b) = Xor(Xor(Xor(Xor(L8(x), L4(b5)), L3(b6)), L2(b7)), L(b8))
  BY <1>10, <1>11, <1>12
<1> QED
  BY <1>3, <1>5, <1>6, <1>7, <1>8, <1>13 DEF b5, b6, b7, b8

-----------------------------------------------------------------------------
(* process: the states after each byte.                                    *)

(* f[n] is the state c after n bytes of data.                              *)
IsRun(f, c, data) ==
  /\ f \in [0 .. Len(data) -> U32]
  /\ f[0] = c
  /\ \A n \in 1 .. Len(data) : f[n] = OneByte(f[n - 1], data[n])

(* A state can be run over any bytes.                                      *)
LEMMA RunExists ==
  ASSUME NEW c \in U32, NEW data \in Seq(Byte)
  PROVE  \E f : IsRun(f, c, data)
<1> DEFINE N == Len(data)
           S == [n \in 1 .. N |-> [x \in U32 |-> OneByte(x, data[n])]]
<1>1. N \in Nat /\ \A n \in 1 .. N : data[n] \in Byte
  OBVIOUS
<1>2. S \in [1 .. N -> [U32 -> U32]]
  BY <1>1, OneByteIsEightShifts
<1>3. \A n \in 1 .. N : \A x \in U32 : S[n][x] = OneByte(x, data[n])
  OBVIOUS
<1> HIDE DEF S
<1>4. PICK f : Follows(f, c, S, N, U32)
  BY <1>1, <1>2, StepsExist DEF AreSteps
<1>5. ASSUME NEW n \in 1 .. N PROVE f[n] = OneByte(f[n - 1], data[n])
  <2>1. n - 1 \in 0 .. N
    BY <1>1
  <2> QED
    BY <1>3, <1>4, <2>1 DEF Follows
<1> QED
  BY <1>4, <1>5 DEF IsRun, Follows

(* The bytes of eight in a row.                                            *)
LEMMA PieceByte ==
  ASSUME NEW data \in Seq(Byte), NEW m \in Nat, m + 8 \in 0 .. Len(data), NEW k \in 1 .. 8
  PROVE  SubSeq(data, m + 1, m + 8)[k] = data[m + k]
  BY SMTT(30)

(* The whole chunks lead to the state after their last byte.               *)
LEMMA ChunksFollowRun ==
  ASSUME NEW c \in U32, NEW data \in Seq(Byte), NEW f, IsRun(f, c, data)
  PROVE  Chunks(c, data) = f[8 * (Len(data) \div 8)]
<1> DEFINE q    == Len(data) \div 8
           part(n) == SubSeq(data, 8 * n - 7, 8 * n)
           F(g) == [n \in 0 .. q |-> IF n = 0 THEN c ELSE Slice(g[n - 1], part(n))]
           after == CHOOSE g : g = F(g)
           w    == [n \in 0 .. q |-> f[8 * n]]
<1>1. Chunks(c, data) = after[q]
  BY DEF Chunks
<1>2. Len(data) \in Nat /\ q \in Nat /\ 8 * q <= Len(data)
  OBVIOUS
<1>3. ASSUME NEW n \in 1 .. q
      PROVE  f[8 * n] = Slice(f[8 * (n - 1)], part(n))
  <2> DEFINE m == 8 * (n - 1)
  <2>1. m \in Nat /\ m + 8 = 8 * n /\ m + 8 <= Len(data) /\ 8 * n - 7 = m + 1
    BY <1>2
  <2> HIDE DEF m, q
  <2>2. ASSUME NEW k \in 1 .. 8
        PROVE  part(n)[k] = data[m + k] /\ data[m + k] \in Byte
    <3>1. m + k \in 1 .. Len(data) /\ m + 8 \in Nat /\ m + 1 \in Nat
      BY <2>1
    <3>2. part(n) = SubSeq(data, m + 1, m + 8)
      BY <2>1
    <3>3. SubSeq(data, m + 1, m + 8)[k] = data[m + k]
      <4>1. m + 8 \in 0 .. Len(data)
        BY <2>1
      <4> QED
        BY <2>1, <4>1, PieceByte, Zenon
    <3>4. data[m + k] \in Byte
      BY <3>1
    <3> QED
      BY <3>2, <3>3, <3>4, Zenon
  <2>3. f[m] \in U32
    BY <2>1 DEF IsRun
  <2>4. ASSUME NEW k \in 1 .. 8
        PROVE  f[m + k] = OneByte(f[m + (k - 1)], part(n)[k])
    <3>1. m + k \in 1 .. Len(data) /\ (m + k) - 1 = m + (k - 1)
      BY <2>1
    <3> QED
      BY <2>2, <3>1 DEF IsRun
  <2> DEFINE b == part(n)
  <2>5. \A k \in 1 .. 8 : b[k] \in Byte
    BY <2>2
  <2> HIDE DEF b
  <2>6. /\ f[m + 1] = OneByte(f[m + 0], b[1]) /\ f[m + 2] = OneByte(f[m + 1], b[2])
        /\ f[m + 3] = OneByte(f[m + 2], b[3]) /\ f[m + 4] = OneByte(f[m + 3], b[4])
        /\ f[m + 5] = OneByte(f[m + 4], b[5]) /\ f[m + 6] = OneByte(f[m + 5], b[6])
        /\ f[m + 7] = OneByte(f[m + 6], b[7]) /\ f[m + 8] = OneByte(f[m + 7], b[8])
    BY <2>4 DEF b
  <2>7. m + 0 = m
    BY <2>1
  <2>8. f[m + 8] = Slice(f[m], b)
    BY <2>3, <2>5, <2>6, <2>7, SliceIsEightBytes
  <2> QED
    BY <2>1, <2>8 DEF b, m
<1> HIDE DEF part
<1>4. w = F(w)
  <2>1. ASSUME NEW n \in 0 .. q PROVE w[n] = F(w)[n]
    <3>1. CASE n = 0
      <4>1. f[0] = c /\ 8 * 0 = 0
        BY DEF IsRun
      <4> QED
        BY <3>1, <4>1
    <3>2. CASE n # 0
      <4>1. n \in 1 .. q /\ n - 1 \in 0 .. q
        BY <1>2, <3>2
      <4> HIDE DEF q
      <4> QED
        BY <1>3, <3>2, <4>1
    <3> QED
      BY <3>1, <3>2
  <2> HIDE DEF q
  <2> QED
    BY <2>1
<1>5. after = F(after)
  <2> HIDE DEF w
  <2> QED
    BY <1>4
<1> HIDE DEF after
<1>6. \A n \in 1 .. q : after[n] = Slice(after[n - 1], part(n))
  <2> HIDE DEF q
  <2> QED
    BY <1>2, <1>5
<1>7. \A n \in 1 .. q : w[n] = Slice(w[n - 1], part(n))
  <2> HIDE DEF q
  <2> QED
    BY <1>2, <1>4
<1>8. after[0] = c /\ w[0] = c
  <2>1. 0 \in 0 .. q
    BY <1>2
  <2> HIDE DEF q
  <2> QED
    BY <1>4, <1>5, <2>1
<1>9. \A n \in 0 .. q : after[n] = w[n]
  <2> HIDE DEF w, q
  <2>1. \A n \in 1 .. q : after[n - 1] = w[n - 1] => after[n] = w[n]
    BY <1>6, <1>7
  <2>2. StepAlike(after, w, 0, q)
    BY <1>2, <1>8, <2>1 DEF StepAlike
  <2> QED
    BY <1>2, <2>2, SameSteps
<1>10. after[q] = f[8 * q]
  BY <1>2, <1>9
<1> QED
  BY <1>1, <1>10

(* process leads to the state after the last byte.                         *)
LEMMA ProcessFollowsRun ==
  ASSUME NEW c \in U32, NEW data \in Seq(Byte), NEW f, IsRun(f, c, data)
  PROVE  process(c, data) = f[Len(data)]
<1> DEFINE N == Len(data)
           whole == 8 * (Len(data) \div 8)
           F(g) == [n \in whole .. N |->
                      IF n = whole THEN Chunks(c, data) ELSE OneByte(g[n - 1], data[n])]
           after == CHOOSE g : g = F(g)
           w    == [n \in whole .. N |-> f[n]]
<1>1. process(c, data) = after[N]
  BY DEF process
<1>2. N \in Nat /\ whole \in Nat /\ whole <= N
  OBVIOUS
<1>3. Chunks(c, data) = f[whole]
  BY ChunksFollowRun
<1>4. \A n \in 1 .. N : f[n] = OneByte(f[n - 1], data[n])
  BY DEF IsRun
<1> HIDE DEF whole, N
<1>5. w = F(w)
  <2>1. ASSUME NEW n \in whole .. N PROVE w[n] = F(w)[n]
    <3>1. CASE n = whole
      BY <1>3, <3>1
    <3>2. CASE n # whole
      <4>1. n \in 1 .. N /\ n - 1 \in whole .. N
        BY <1>2, <3>2
      <4> QED
        BY <1>4, <3>2, <4>1
    <3> QED
      BY <3>1, <3>2
  <2> QED
    BY <2>1
<1>6. after = F(after)
  <2> HIDE DEF w
  <2> QED
    BY <1>5
<1> HIDE DEF after
<1>7. StepAlike(after, w, whole, N)
  <2>1. whole \in whole .. N
    BY <1>2
  <2>2. after[whole] = w[whole]
    BY <1>5, <1>6, <2>1
  <2>3. ASSUME NEW n \in whole + 1 .. N
        PROVE  after[n] = OneByte(after[n - 1], data[n]) /\ w[n] = OneByte(w[n - 1], data[n])
    <3>1. n \in whole .. N /\ n # whole
      BY <1>2
    <3> HIDE DEF w
    <3> QED
      BY <1>5, <1>6, <3>1
  <2> QED
    BY <2>2, <2>3 DEF StepAlike
<1>8. \A n \in whole .. N : after[n] = w[n]
  <2> HIDE DEF w
  <2> QED
    BY <1>2, <1>7, SameSteps
<1>9. N \in whole .. N
  BY <1>2
<1>10. after[N] = f[N]
  BY <1>8, <1>9
<1> QED
  BY <1>1, <1>10 DEF N

(* From the state after i bytes, process leads over the next ones to the   *)
(* state after j.                                                          *)
LEMMA ProcessAdvances ==
  ASSUME NEW c \in U32, NEW data \in Seq(Byte), NEW f, IsRun(f, c, data),
         NEW i \in Nat, NEW j \in Nat, i <= j, j <= Len(data)
  PROVE  process(f[i], SubSeq(data, i + 1, j)) = f[j]
<1> DEFINE d == SubSeq(data, i + 1, j)
           g == [n \in 0 .. j - i |-> f[i + n]]
<1>1. d \in Seq(Byte) /\ Len(d) = j - i
  OBVIOUS
<1>2. f[i] \in U32
  <2>1. i \in 0 .. Len(data)
    OBVIOUS
  <2> QED
    BY <2>1 DEF IsRun
<1>3. g \in [0 .. j - i -> U32]
  <2>1. ASSUME NEW n \in 0 .. j - i PROVE f[i + n] \in U32
    <3>1. i + n \in 0 .. Len(data)
      OBVIOUS
    <3> QED
      BY <3>1 DEF IsRun
  <2> QED
    BY <2>1
<1>4. g[0] = f[i]
  OBVIOUS
<1>5. ASSUME NEW n \in 1 .. j - i PROVE g[n] = OneByte(g[n - 1], d[n])
  <2>1. /\ i + n \in 1 .. Len(data) /\ (i + n) - 1 = i + (n - 1)
        /\ n \in 0 .. j - i /\ n - 1 \in 0 .. j - i
    OBVIOUS
  <2>2. d[n] = data[i + n]
    OBVIOUS
  <2>3. f[i + n] = OneByte(f[i + (n - 1)], data[i + n])
    BY <2>1 DEF IsRun
  <2>4. g[n] = f[i + n] /\ g[n - 1] = f[i + (n - 1)]
    BY <2>1
  <2> HIDE DEF d, g
  <2> QED
    BY <2>2, <2>3, <2>4
<1> HIDE DEF d, g
<1>6. IsRun(g, f[i], d)
  BY <1>1, <1>3, <1>4, <1>5 DEF IsRun
<1>7. process(f[i], d) = g[j - i]
  BY <1>1, <1>2, <1>6, ProcessFollowsRun
<1>8. g[j - i] = f[j]
  <2>1. j - i \in 0 .. j - i /\ i + (j - i) = j
    OBVIOUS
  <2> QED
    BY <2>1 DEF g
<1> QED
  BY <1>7, <1>8 DEF d

(* The result is a word.                                                   *)
LEMMA ProcessType ==
  ASSUME NEW c \in U32, NEW data \in Seq(Byte)
  PROVE  process(c, data) \in U32
<1>1. PICK f : IsRun(f, c, data)
  BY RunExists
<1>2. process(c, data) = f[Len(data)]
  BY <1>1, ProcessFollowsRun
<1> QED
  BY <1>1, <1>2 DEF IsRun

(* However a message is cut in two, its pieces are processed as the whole. *)
THEOREM StreamingIsOneShot ==
  ASSUME NEW c \in U32, NEW data \in Seq(Byte), NEW i \in 0 .. Len(data)
  PROVE  process(process(c, SubSeq(data, 1, i)), SubSeq(data, i + 1, Len(data)))
           = process(c, data)
<1>1. PICK f : IsRun(f, c, data)
  BY RunExists
<1>2. i \in Nat /\ Len(data) \in Nat /\ i <= Len(data) /\ 0 \in Nat /\ 0 <= i /\ 0 + 1 = 1
  OBVIOUS
<1>3. process(f[0], SubSeq(data, 0 + 1, i)) = f[i]
  BY <1>1, <1>2, ProcessAdvances
<1>4. process(f[i], SubSeq(data, i + 1, Len(data))) = f[Len(data)]
  BY <1>1, <1>2, ProcessAdvances
<1>5. f[0] = c
  BY <1>1 DEF IsRun
<1>6. process(c, data) = f[Len(data)]
  BY <1>1, ProcessFollowsRun
<1> QED
  BY <1>2, <1>3, <1>4, <1>5, <1>6

-----------------------------------------------------------------------------
(* What a checksum can tell apart.                                         *)

(* Different states never meet again over the same bytes.                  *)
LEMMA ProcessInjective ==
  ASSUME NEW c \in U32, NEW d \in U32, NEW data \in Seq(Byte),
         process(c, data) = process(d, data)
  PROVE  c = d
<1> DEFINE N == Len(data)
<1>1. PICK f : IsRun(f, c, data)
  BY RunExists
<1>2. PICK g : IsRun(g, d, data)
  BY RunExists
<1>3. f[N] = g[N]
  BY <1>1, <1>2, ProcessFollowsRun
<1> DEFINE G == [n \in 0 .. N |-> f[N - n]]
           H == [n \in 0 .. N |-> g[N - n]]
<1>4. N \in Nat
  OBVIOUS
<1>5. ASSUME NEW n \in 1 .. N, f[n] = g[n] PROVE f[n - 1] = g[n - 1]
  <2>1. f[n] = OneByte(f[n - 1], data[n]) /\ g[n] = OneByte(g[n - 1], data[n])
    BY <1>1, <1>2 DEF IsRun
  <2>2. f[n - 1] \in U32 /\ g[n - 1] \in U32 /\ data[n] \in Byte
    BY <1>1, <1>2 DEF IsRun
  <2>3. EightShifts(Xor(f[n - 1], data[n])) = EightShifts(Xor(g[n - 1], data[n]))
    <3>1. /\ OneByte(f[n - 1], data[n]) = EightShifts(Xor(f[n - 1], data[n]))
          /\ OneByte(g[n - 1], data[n]) = EightShifts(Xor(g[n - 1], data[n]))
      BY <2>2, OneByteIsEightShifts
    <3> QED
      BY <1>5, <2>1, <3>1
  <2>4. Xor(f[n - 1], data[n]) \in U32 /\ Xor(g[n - 1], data[n]) \in U32
    <3>1. data[n] \in U32
      BY <2>2, ByteIsWord
    <3> QED
      BY <2>2, <3>1, XorType DEF U32
  <2>5. Xor(f[n - 1], data[n]) = Xor(g[n - 1], data[n])
    BY <2>3, <2>4, EightShiftsInjective
  <2> QED
    BY <2>5, XorCancels
<1> HIDE DEF N
<1>6. StepAlike(G, H, 0, N)
  <2>1. G[0] = H[0]
    BY <1>3, <1>4
  <2>2. ASSUME NEW n \in 0 + 1 .. N, G[n - 1] = H[n - 1] PROVE G[n] = H[n]
    <3>1. /\ n \in 0 .. N /\ n - 1 \in 0 .. N
          /\ N - (n - 1) \in 1 .. N /\ (N - (n - 1)) - 1 = N - n
      BY <1>4
    <3>2. f[N - (n - 1)] = g[N - (n - 1)]
      BY <2>2, <3>1
    <3>3. f[N - n] = g[N - n]
      BY <1>5, <3>1, <3>2
    <3> QED
      BY <3>1, <3>3
  <2> HIDE DEF G, H
  <2> QED
    BY <2>1, <2>2 DEF StepAlike
<1>7. \A n \in 0 .. N : G[n] = H[n]
  <2> HIDE DEF G, H
  <2> QED
    BY <1>4, <1>6, SameSteps
<1>8. f[0] = g[0]
  <2>1. N \in 0 .. N /\ N - N = 0
    BY <1>4
  <2> QED
    BY <1>7, <2>1
<1> QED
  BY <1>1, <1>2, <1>8 DEF IsRun

(* Any damage within four adjacent bytes changes the checksum, whatever    *)
(* the length of the message and wherever chunks and remainder fall.       *)
THEOREM BurstsAreDetected ==
  ASSUME NEW c \in U32, NEW a \in Seq(Byte), NEW b \in Seq(Byte),
         Len(a) = Len(b), a # b,
         NEW i \in Nat, i + 4 <= Len(a),
         \A n \in 1 .. Len(a) : n \notin i + 1 .. i + 4 => a[n] = b[n]
  PROVE  process(c, a) # process(c, b)
<1> DEFINE N  == Len(a)
           wa == SubSeq(a, i + 1, i + 4)
           wb == SubSeq(b, i + 1, i + 4)
<1>1. N \in Nat /\ N = Len(b) /\ i + 4 \in Nat /\ i <= i + 4 /\ i + 4 <= N /\ i <= N
  OBVIOUS
<1>2. PICK f : IsRun(f, c, a)
  BY RunExists
<1>3. PICK g : IsRun(g, c, b)
  BY RunExists
<1>4. f[i] = g[i] /\ f[i] \in U32
  <2>1. SubSeq(a, 0 + 1, i) = SubSeq(b, 0 + 1, i)
    BY <1>1
  <2>2. process(f[0], SubSeq(a, 0 + 1, i)) = f[i]
    BY <1>1, <1>2, ProcessAdvances
  <2>3. process(g[0], SubSeq(b, 0 + 1, i)) = g[i]
    BY <1>1, <1>3, ProcessAdvances
  <2>4. f[0] = c /\ g[0] = c
    BY <1>2, <1>3 DEF IsRun
  <2>5. i \in 0 .. N
    BY <1>1
  <2> QED
    BY <1>2, <2>1, <2>2, <2>3, <2>4, <2>5 DEF IsRun
<1>5. ASSUME NEW d \in Seq(Byte), NEW h, IsRun(h, c, d), Len(d) = N
      PROVE  LET w == SubSeq(d, i + 1, i + 4)
             IN  h[i + 4] = L4(Xor(h[i], Word(w))) /\ \A k \in 1 .. 4 : w[k] = d[i + k] /\ w[k] \in Byte
  <2> DEFINE w == SubSeq(d, i + 1, i + 4)
  <2>1. ASSUME NEW k \in 1 .. 4
        PROVE  w[k] = d[i + k] /\ w[k] \in Byte
    BY <1>1, <1>5
  <2> HIDE DEF w
  <2>2. ASSUME NEW k \in 1 .. 4
        PROVE  h[i + k] = OneByte(h[i + (k - 1)], w[k])
    <3>1. i + k \in 1 .. N /\ (i + k) - 1 = i + (k - 1)
      BY <1>1
    <3> QED
      BY <1>5, <2>1, <3>1 DEF IsRun
  <2>3. /\ h[i + 1] = OneByte(h[i + 0], w[1]) /\ h[i + 2] = OneByte(h[i + 1], w[2])
        /\ h[i + 3] = OneByte(h[i + 2], w[3]) /\ h[i + 4] = OneByte(h[i + 3], w[4])
    BY <2>2
  <2>4. i + 0 = i /\ i \in 0 .. N
    BY <1>1
  <2>5. h[i] \in U32
    BY <1>5, <2>4 DEF IsRun
  <2>6. h[i + 4] = L4(Xor(h[i], Word(w)))
    BY <2>1, <2>3, <2>4, <2>5, FourBytes
  <2> QED
    BY <2>1, <2>6 DEF w
<1>6. /\ f[i + 4] = L4(Xor(f[i], Word(wa)))
      /\ \A k \in 1 .. 4 : wa[k] = a[i + k] /\ wa[k] \in Byte
  BY <1>2, <1>5
<1>7. /\ g[i + 4] = L4(Xor(g[i], Word(wb)))
      /\ \A k \in 1 .. 4 : wb[k] = b[i + k] /\ wb[k] \in Byte
  BY <1>1, <1>3, <1>5
<1> SUFFICES ASSUME process(c, a) = process(c, b) PROVE FALSE
  OBVIOUS
<1>8. f[i + 4] = g[i + 4]
  <2> DEFINE rest == SubSeq(a, (i + 4) + 1, N)
  <2>1. rest = SubSeq(b, (i + 4) + 1, N)
    BY <1>1
  <2>2. process(f[i + 4], rest) = f[N]
    BY <1>1, <1>2, ProcessAdvances
  <2>3. process(g[i + 4], rest) = g[N]
    <3>1. process(g[i + 4], SubSeq(b, (i + 4) + 1, N)) = g[N]
      BY <1>1, <1>3, ProcessAdvances
    <3> QED
      BY <2>1, <3>1
  <2>4. f[N] = g[N]
    BY <1>1, <1>2, <1>3, ProcessFollowsRun
  <2>5. rest \in Seq(Byte)
    BY <1>1
  <2>6. f[i + 4] \in U32 /\ g[i + 4] \in U32
    <3>1. i + 4 \in 0 .. N
      BY <1>1
    <3> QED
      BY <1>1, <1>2, <1>3, <3>1 DEF IsRun
  <2> HIDE DEF rest
  <2> QED
    BY <2>2, <2>3, <2>4, <2>5, <2>6, ProcessInjective
<1> HIDE DEF wa, wb
<1>9. Word(wa) \in U32 /\ Word(wb) \in U32
  BY <1>6, <1>7, BytesOfWord
<1>10. Xor(f[i], Word(wa)) = Xor(f[i], Word(wb))
  <2> DEFINE x == Xor(f[i], Word(wa))
             y == Xor(f[i], Word(wb))
  <2>1. x \in U32 /\ y \in U32
    BY <1>4, <1>9, XorType DEF U32
  <2>2. L4(x) = L4(y)
    BY <1>4, <1>6, <1>7, <1>8
  <2> HIDE DEF x, y
  <2>3. \A u, v \in U32 : EightShifts(u) \in U32 /\ (EightShifts(u) = EightShifts(v) => u = v)
    BY EightShiftsType, EightShiftsInjective
  <2>4. x = y
    BY <2>1, <2>2, <2>3 DEF L4, L3, L2, L
  <2> QED
    BY <2>4 DEF x, y
<1>11. Word(wa) = Word(wb)
  <2>1. Xor(Word(wa), f[i]) = Xor(Word(wb), f[i])
    BY <1>10, XorAlgebra
  <2> QED
    BY <2>1, XorCancels
<1>12. \A k \in 1 .. 4 : wa[k] = wb[k]
  <2>1. /\ \A k \in 0 .. 3 : ByteOf(Word(wa), k) = wa[k + 1]
        /\ \A k \in 0 .. 3 : ByteOf(Word(wb), k) = wb[k + 1]
    BY <1>6, <1>7, BytesOfWord
  <2>2. \A k \in 1 .. 4 : k - 1 \in 0 .. 3 /\ (k - 1) + 1 = k
    OBVIOUS
  <2> QED
    BY <1>11, <2>1, <2>2
<1>13. ASSUME NEW n \in 1 .. N PROVE a[n] = b[n]
  <2>1. CASE n \in i + 1 .. i + 4
    <3>1. n - i \in 1 .. 4 /\ i + (n - i) = n
      BY <1>1, <2>1
    <3> QED
      BY <1>6, <1>7, <1>12, <3>1
  <2> QED
    BY <2>1
<1>14. a = b
  BY <1>1, <1>13
<1> QED
  BY <1>14

-----------------------------------------------------------------------------
(* The reference goes through the same states, reflected.                  *)

(* A register with its bits in the opposite order.                         *)
Reflected(r) == {31 - i : i \in r}

(* The bits of a reflected register.                                       *)
LEMMA ReflectedBits ==
  ASSUME NEW r \in U32
  PROVE  /\ Reflected(r) \in U32
         /\ \A i \in Int : i \in Reflected(r) <=> 31 - i \in r
<1>1. Reflected(r) \in U32
  BY DEF Reflected, U32, Bit
<1>2. ASSUME NEW i \in Int PROVE i \in Reflected(r) <=> 31 - i \in r
  <2>1. ASSUME 31 - i \in r PROVE i \in Reflected(r)
    <3>1. 31 - (31 - i) = i
      OBVIOUS
    <3> QED
      BY <2>1, <3>1 DEF Reflected
  <2>2. ASSUME i \in Reflected(r) PROVE 31 - i \in r
    <3>1. PICK j \in r : i = 31 - j
      BY <2>2 DEF Reflected
    <3>2. j \in Int
      BY DEF U32, Bit
    <3>3. 31 - i = j
      BY <3>1, <3>2
    <3> QED
      BY <3>3
  <2> QED
    BY <2>1, <2>2
<1> QED
  BY <1>1, <1>2

(* A bit as a word.                                                        *)
BitZero(one) == IF one THEN {0} ELSE {}

(* A step of the division, seen in the mirror, is a shift of the word that *)
(* has met the bit.                                                        *)
LEMMA DivideIsShift ==
  ASSUME NEW r \in U32, NEW one \in BOOLEAN
  PROVE  /\ Divide(r, one) \in U32
         /\ Reflected(Divide(r, one)) = ShiftOne(Xor(Reflected(r), BitZero(one)))
<1> DEFINE left == {i + 1 : i \in r \ {31}}
           x    == Xor(Reflected(r), BitZero(one))
<1>1. left \in U32 /\ \A i \in Int : i \in left <=> i \in 1 .. 31 /\ i - 1 \in r
  BY DEF U32, Bit
<1>2. POLYNOMIAL \in U32 /\ POLY \in U32
  BY DEF POLYNOMIAL, POLY, U32, Bit
<1>3. Divide(r, one) = IF (31 \in r) # one THEN Xor(left, POLYNOMIAL) ELSE left
  BY DEF Divide
<1> HIDE DEF left
<1>4. Xor(left, POLYNOMIAL) \in U32
  BY <1>1, <1>2, XorType DEF U32
<1>5. Divide(r, one) \in U32
  BY <1>1, <1>3, <1>4
<1>6. x \in U32
  <2>1. BitZero(one) \in U32
    BY DEF BitZero, U32, Bit
  <2> QED
    BY <2>1, ReflectedBits, XorType DEF U32
<1>7. (0 \in x) <=> ((31 \in r) # one)
  <2>1. 0 \in Reflected(r) <=> 31 \in r
    <3>1. 31 - 0 = 31 /\ 0 \in Int
      OBVIOUS
    <3> QED
      BY <3>1, ReflectedBits
  <2>2. 0 \in BitZero(one) <=> one
    BY DEF BitZero
  <2>3. 0 \in x <=> ~ (0 \in Reflected(r) <=> 0 \in BitZero(one))
    BY DEF Xor
  <2> QED
    BY <2>1, <2>2, <2>3
<1>8. Reflected(left) = Shr(x, 1)
  <2>1. Reflected(left) \in SUBSET Int /\ Shr(x, 1) \in SUBSET Int /\ x \in SUBSET Int
    BY <1>1, <1>6, ReflectedBits DEF U32, Bit, Shr
  <2>2. ASSUME NEW i \in Int PROVE i \in Reflected(left) <=> i \in Shr(x, 1)
    <3>1. i \in Reflected(left) <=> 31 - i \in left
      BY <1>1, ReflectedBits
    <3>2. 31 - i \in left <=> 31 - i \in 1 .. 31 /\ (31 - i) - 1 \in r
      BY <1>1
    <3>3. i \in Shr(x, 1) <=> i >= 0 /\ i + 1 \in x
      BY <2>1, ShrBits
    <3>4. i + 1 \in Reflected(r) <=> 31 - (i + 1) \in r
      BY ReflectedBits
    <3>5. i >= 0 => (i + 1 \in x <=> i + 1 \in Reflected(r))
      BY DEF Xor, BitZero
    <3>6. 31 - (i + 1) = (31 - i) - 1
      OBVIOUS
    <3>7. (31 - i) - 1 \in r => i <= 30
      BY DEF U32, Bit
    <3> HIDE DEF x
    <3> QED
      BY <3>1, <3>2, <3>3, <3>4, <3>5, <3>6, <3>7
  <2> QED
    BY <2>1, <2>2
<1>9. Reflected(POLYNOMIAL) = POLY
  BY DEF Reflected, POLYNOMIAL, POLY
<1>10. Reflected(Xor(left, POLYNOMIAL)) = Xor(Reflected(left), Reflected(POLYNOMIAL))
  <2> DEFINE u == Reflected(Xor(left, POLYNOMIAL))
             v == Xor(Reflected(left), Reflected(POLYNOMIAL))
  <2>1. u \in SUBSET Int /\ v \in SUBSET Int
    BY <1>1, <1>2, <1>4, ReflectedBits DEF U32, Bit, Xor
  <2>2. ASSUME NEW i \in Int PROVE i \in u <=> i \in v
    BY <1>1, <1>2, <1>4, ReflectedBits DEF Xor
  <2> QED
    BY <2>1, <2>2
<1>11. Reflected(Divide(r, one)) = ShiftOne(x)
  BY <1>3, <1>7, <1>8, <1>9, <1>10 DEF ShiftOne
<1> QED
  BY <1>5, <1>11

(* The lowest bit of a byte meets the word, the others follow.             *)
LEMMA OneBitOfByte ==
  ASSUME NEW c \in U32, NEW b \in Byte
  PROVE  /\ Shr(b, 1) \in Byte
         /\ ShiftOne(Xor(c, b)) = Xor(ShiftOne(Xor(c, BitZero(0 \in b))), Shr(b, 1))
<1> DEFINE low == BitZero(0 \in b)
           up  == b \ {0}
<1>1. low \in U32 /\ up \in U32 /\ up \in Byte
  BY DEF BitZero, Byte, U32, Bit
<1>2. Xor(c, b) = Xor(Xor(c, low), up)
  BY DEF Xor, BitZero
<1>3. Xor(c, low) \in U32
  BY <1>1, XorType DEF U32
<1>4. ShiftOne(up) = Shr(up, 1)
  BY DEF ShiftOne
<1>5. Shr(up, 1) = Shr(b, 1)
  <2>1. {j \in up : j >= 1} = {j \in b : j >= 1}
    BY DEF Byte
  <2> QED
    BY <2>1 DEF Shr
<1>6. Shr(b, 1) \in Byte
  BY DEF Shr, Byte
<1> HIDE DEF low, up
<1>7. ShiftOne(Xor(Xor(c, low), up)) = Xor(ShiftOne(Xor(c, low)), ShiftOne(up))
  BY <1>1, <1>3, ShiftOneLinear
<1> QED
  BY <1>2, <1>4, <1>5, <1>6, <1>7 DEF low

(* Eight steps of the division take in a byte.                             *)
LEMMA EightDivisions ==
  ASSUME NEW r, NEW b \in Byte, r[0] \in U32,
         \A k \in 0 .. 7 : r[k + 1] = Divide(r[k], k \in b)
  PROVE  r[8] \in U32 /\ Reflected(r[8]) = OneByte(Reflected(r[0]), b)
<1> DEFINE c(k) == Reflected(r[k])
           s(k) == Shr(b, k)
<1>1. ASSUME NEW k \in 0 .. 7, r[k] \in U32
      PROVE  /\ r[k + 1] \in U32
             /\ s(k) \in Byte /\ s(k + 1) \in Byte
             /\ ShiftOne(Xor(c(k), s(k))) = Xor(c(k + 1), s(k + 1))
  <2>1. r[k + 1] \in U32 /\ c(k + 1) = ShiftOne(Xor(c(k), BitZero(k \in b)))
    <3>1. (k \in b) \in BOOLEAN
      OBVIOUS
    <3>2. /\ Divide(r[k], k \in b) \in U32
          /\ Reflected(Divide(r[k], k \in b)) = ShiftOne(Xor(Reflected(r[k]), BitZero(k \in b)))
      BY <1>1, <3>1, DivideIsShift, Zenon
    <3> QED
      BY <3>2
  <2>2. s(k) \in Byte /\ s(k + 1) = Shr(s(k), 1) /\ (0 \in s(k) <=> k \in b)
    <3>1. b \in SUBSET Int /\ k \in Nat /\ 0 \in Int /\ 0 + k = k
      BY DEF Byte
    <3>2. s(k) \in Byte
      BY DEF Shr, Byte
    <3>3. s(k + 1) = Shr(s(k), 1)
      BY <3>1, ShrTwice
    <3>4. 0 \in s(k) <=> 0 >= 0 /\ 0 + k \in b
      BY <3>1, ShrBits
    <3> QED
      BY <3>1, <3>2, <3>3, <3>4
  <2>3. c(k) \in U32
    BY <1>1, ReflectedBits
  <2>4. BitZero(0 \in s(k)) = BitZero(k \in b)
    BY <2>2 DEF BitZero
  <2>5. /\ Shr(s(k), 1) \in Byte
        /\ ShiftOne(Xor(c(k), s(k))) = Xor(ShiftOne(Xor(c(k), BitZero(0 \in s(k)))), Shr(s(k), 1))
    <3> HIDE DEF c, s
    <3> QED
      BY <2>2, <2>3, OneBitOfByte
  <2> HIDE DEF c, s
  <2> QED
    BY <2>1, <2>2, <2>4, <2>5
<1>2. s(0) = b
  <2>1. \A i \in b : i \in Nat /\ i - 0 = i
    BY DEF Byte
  <2> QED
    BY <2>1 DEF Shr
<1>3. s(8) = {}
  BY DEF Shr, Byte
<1> HIDE DEF c, s
<1>4. r[0] \in U32 /\ r[1] \in U32 /\ r[2] \in U32 /\ r[3] \in U32 /\ r[4] \in U32
      /\ r[5] \in U32 /\ r[6] \in U32 /\ r[7] \in U32 /\ r[8] \in U32
  <2>1. \A k \in 0 .. 7 : r[k] \in U32 => r[k + 1] \in U32
    BY <1>1
  <2>2. /\ r[0] \in U32 => r[1] \in U32
        /\ r[1] \in U32 => r[2] \in U32
        /\ r[2] \in U32 => r[3] \in U32
        /\ r[3] \in U32 => r[4] \in U32
        /\ r[4] \in U32 => r[5] \in U32
        /\ r[5] \in U32 => r[6] \in U32
        /\ r[6] \in U32 => r[7] \in U32
        /\ r[7] \in U32 => r[8] \in U32
    BY <2>1
  <2> QED
    BY <2>2
<1>5. \A k \in 0 .. 7 : r[k] \in U32 => ShiftOne(Xor(c(k), s(k))) = Xor(c(k + 1), s(k + 1))
  BY <1>1
<1>6. /\ ShiftOne(Xor(c(0), s(0))) = Xor(c(1), s(1))
      /\ ShiftOne(Xor(c(1), s(1))) = Xor(c(2), s(2))
      /\ ShiftOne(Xor(c(2), s(2))) = Xor(c(3), s(3))
      /\ ShiftOne(Xor(c(3), s(3))) = Xor(c(4), s(4))
      /\ ShiftOne(Xor(c(4), s(4))) = Xor(c(5), s(5))
      /\ ShiftOne(Xor(c(5), s(5))) = Xor(c(6), s(6))
      /\ ShiftOne(Xor(c(6), s(6))) = Xor(c(7), s(7))
      /\ ShiftOne(Xor(c(7), s(7))) = Xor(c(8), s(8))
  BY <1>4, <1>5
<1>7. EightShifts(Xor(c(0), s(0))) = Xor(c(8), s(8))
  BY <1>6 DEF EightShifts, FourShifts
<1>8. EightShifts(Xor(c(0), b)) = c(8)
  BY <1>2, <1>3, <1>7, XorAlgebra
<1>9. c(0) \in U32
  BY ReflectedBits DEF c
<1> QED
  BY <1>4, <1>8, <1>9, OneByteIsEightShifts DEF c

(* The n-th bit of a message.                                              *)
BitOf(data, n) == (n - 1) % 8 \in data[((n - 1) \div 8) + 1]

(* The registers of the division of a message.                             *)
IsDivision(g, data) ==
  /\ g \in [0 .. 8 * Len(data) -> U32]
  /\ g[0] = MAX
  /\ \A n \in 1 .. 8 * Len(data) : g[n] = Divide(g[n - 1], BitOf(data, n))

(* The reference is taken from the last register of a division.            *)
LEMMA ReferenceDivides ==
  ASSUME NEW data \in Seq(Byte)
  PROVE  \E g : /\ IsDivision(g, data)
                /\ Reference(data) = {31 - i : i \in MAX \ g[8 * Len(data)]}
<1> DEFINE M == 8 * Len(data)
           bit(n) == BitOf(data, n)
           F(g) == [n \in 0 .. M |-> IF n = 0 THEN MAX ELSE Divide(g[n - 1], bit(n))]
           register == CHOOSE g : g = F(g)
           S == [n \in 1 .. M |-> [x \in U32 |-> Divide(x, bit(n))]]
<1>1. Reference(data) = {31 - i : i \in MAX \ register[M]}
  BY DEF Reference, BitOf
<1>2. M \in Nat
  OBVIOUS
<1>4. MAX \in U32
  BY DEF MAX, U32
<1>5. \A n \in 1 .. M : bit(n) \in BOOLEAN
  BY DEF BitOf
<1> HIDE DEF bit, M
<1>6. AreSteps(S, M, U32)
  <2>1. ASSUME NEW n \in 1 .. M, NEW x \in U32 PROVE Divide(x, bit(n)) \in U32
    BY <1>5, DivideIsShift
  <2> QED
    BY <2>1 DEF AreSteps
<1>7. \A n \in 1 .. M : \A x \in U32 : S[n][x] = Divide(x, bit(n))
  OBVIOUS
<1> HIDE DEF S
<1>8. PICK h : Follows(h, MAX, S, M, U32)
  BY <1>2, <1>4, <1>6, StepsExist
<1>9. h = F(h)
  <2>1. ASSUME NEW n \in 0 .. M PROVE h[n] = F(h)[n]
    <3>1. CASE n = 0
      BY <1>8, <3>1 DEF Follows
    <3>2. CASE n # 0
      <4>1. n \in 1 .. M /\ n - 1 \in 0 .. M
        BY <1>2, <3>2
      <4> QED
        BY <1>7, <1>8, <3>2, <4>1 DEF Follows
    <3> QED
      BY <3>1, <3>2
  <2>2. h \in [0 .. M -> U32]
    BY <1>8 DEF Follows
  <2> QED
    BY <2>1, <2>2
<1>10. register = F(register)
  BY <1>9
<1> HIDE DEF register
<1>11. /\ register[0] = MAX
       /\ \A n \in 1 .. M : register[n] = Divide(register[n - 1], bit(n))
  <2>1. 0 \in 0 .. M /\ \A n \in 1 .. M : n \in 0 .. M /\ n # 0
    BY <1>2
  <2> QED
    BY <1>10, <2>1
<1>12. \A n \in 0 .. M : register[n] = h[n]
  <2>1. StepAlike(register, h, 0, M)
    <3>1. register[0] = h[0]
      BY <1>8, <1>11 DEF Follows
    <3>2. ASSUME NEW n \in 0 + 1 .. M, register[n - 1] = h[n - 1] PROVE register[n] = h[n]
      <4>1. n \in 1 .. M /\ n - 1 \in 0 .. M
        BY <1>2
      <4> QED
        BY <1>7, <1>8, <1>11, <3>2, <4>1 DEF Follows
    <3> QED
      BY <3>1, <3>2 DEF StepAlike
  <2> QED
    BY <1>2, <2>1, SameSteps
<1>13. register \in [0 .. M -> U32]
  <2>1. \A n \in 0 .. M : register[n] \in U32
    BY <1>8, <1>12 DEF Follows
  <2>2. register = [n \in 0 .. M |-> register[n]]
    BY <1>10
  <2> QED
    BY <2>1, <2>2
<1>14. IsDivision(register, data)
  BY <1>11, <1>13 DEF IsDivision, M, bit
<1> QED
  BY <1>1, <1>14 DEF M

(* The reference, on any message, is the complement of the state after the *)
(* last byte.                                                              *)
LEMMA ReferenceFollowsRun ==
  ASSUME NEW data \in Seq(Byte), NEW f, IsRun(f, MAX, data)
  PROVE  Reference(data) = Xor(f[Len(data)], MAX)
<1> DEFINE N == Len(data)
           M == 8 * Len(data)
           bit(n) == BitOf(data, n)
<1>1. PICK register : /\ IsDivision(register, data)
                      /\ Reference(data) = {31 - i : i \in MAX \ register[M]}
  BY ReferenceDivides
<1>2. N \in Nat /\ M \in Nat /\ M = 8 * N
  OBVIOUS
<1>3. \A m \in 1 .. N : data[m] \in Byte
  OBVIOUS
<1>5. ASSUME NEW m \in 1 .. N, NEW k \in 0 .. 7
      PROVE  /\ 8 * (m - 1) + (k + 1) \in 1 .. M
             /\ bit(8 * (m - 1) + (k + 1)) = (k \in data[m])
  <2> DEFINE n == 8 * (m - 1) + (k + 1)
  <2>1. n \in 1 .. M
    BY <1>2
  <2>2. n - 1 = 8 * (m - 1) + k
    BY <1>2
  <2>3. (8 * (m - 1) + k) % 8 = k /\ (8 * (m - 1) + k) \div 8 = m - 1 /\ (m - 1) + 1 = m
    BY <1>2
  <2>4. (n - 1) % 8 = k /\ ((n - 1) \div 8) + 1 = m
    BY <2>2, <2>3
  <2> HIDE DEF n
  <2>5. bit(n) = (k \in data[m])
    BY <2>4, Zenon DEF BitOf
  <2> QED
    BY <2>1, <2>5 DEF n
<1>11. /\ register \in [0 .. M -> U32] /\ register[0] = MAX
       /\ \A n \in 1 .. M : register[n] = Divide(register[n - 1], bit(n))
  BY <1>1 DEF IsDivision
<1> HIDE DEF N, M, bit
<1>12. ASSUME NEW m \in 1 .. N, register[8 * (m - 1)] \in U32
       PROVE  /\ register[8 * m] \in U32
              /\ Reflected(register[8 * m]) = OneByte(Reflected(register[8 * (m - 1)]), data[m])
  <2> DEFINE r == [k \in 0 .. 8 |-> register[8 * (m - 1) + k]]
  <2>1. r[0] = register[8 * (m - 1)] /\ r[8] = register[8 * m]
    <3>1. 8 * (m - 1) + 0 = 8 * (m - 1) /\ 8 * (m - 1) + 8 = 8 * m
      BY <1>2
    <3> QED
      BY <3>1
  <2>2. ASSUME NEW k \in 0 .. 7 PROVE r[k + 1] = Divide(r[k], k \in data[m])
    <3>1. r[k + 1] = register[8 * (m - 1) + (k + 1)] /\ r[k] = register[8 * (m - 1) + k]
      <4>1. k \in 0 .. 8 /\ k + 1 \in 0 .. 8
        OBVIOUS
      <4> QED
        BY <4>1, Zenon
    <3>2. (8 * (m - 1) + (k + 1)) - 1 = 8 * (m - 1) + k
      BY <1>2
    <3>3. register[8 * (m - 1) + (k + 1)] = Divide(register[8 * (m - 1) + k], bit(8 * (m - 1) + (k + 1)))
      BY <1>5, <1>11, <3>2
    <3>4. bit(8 * (m - 1) + (k + 1)) = (k \in data[m])
      BY <1>5
    <3> HIDE DEF r
    <3> QED
      BY <3>1, <3>3, <3>4
  <2> HIDE DEF r
  <2> QED
    BY <1>3, <1>12, <2>1, <2>2, EightDivisions
<1> DEFINE G == [m \in 0 .. N |-> Reflected(register[8 * m])]
<1>13. \A m \in 0 .. N : register[8 * m] \in U32
  <2>1. \A m \in 0 .. N : 8 * m \in 0 .. M
    BY <1>2
  <2> QED
    BY <1>11, <2>1
<1>14. StepAlike(G, f, 0, N)
  <2>1. G[0] = f[0]
    <3>1. Reflected(MAX) = MAX
      BY DEF Reflected, MAX, Bit
    <3>2. 8 * 0 = 0 /\ 0 \in 0 .. N
      BY <1>2
    <3>3. f[0] = MAX
      BY DEF IsRun
    <3> QED
      BY <1>11, <3>1, <3>2, <3>3
  <2>2. ASSUME NEW n \in 0 + 1 .. N, G[n - 1] = f[n - 1] PROVE G[n] = f[n]
    <3>1. n \in 1 .. N /\ n \in 0 .. N /\ n - 1 \in 0 .. N
      BY <1>2
    <3>2. f[n] = OneByte(f[n - 1], data[n])
      BY <3>1 DEF IsRun, N
    <3>3. Reflected(register[8 * n]) = OneByte(Reflected(register[8 * (n - 1)]), data[n])
      BY <1>12, <1>13, <3>1
    <3> QED
      BY <2>2, <3>1, <3>2, <3>3
  <2> HIDE DEF G
  <2> QED
    BY <2>1, <2>2 DEF StepAlike
<1>15. \A n \in 0 .. N : G[n] = f[n]
  <2> HIDE DEF G
  <2> QED
    BY <1>2, <1>14, SameSteps
<1>16. Reflected(register[M]) = f[N] /\ register[M] \in U32
  <2>1. N \in 0 .. N
    BY <1>2
  <2> QED
    BY <1>2, <1>13, <1>15, <2>1
<1>17. {31 - i : i \in MAX \ register[M]} = Xor(Reflected(register[M]), MAX)
  <2> DEFINE r == register[M]
  <2> HIDE DEF r
  <2>1. r \in U32 /\ MAX \ r \in U32
    BY <1>16 DEF r, U32, MAX
  <2>2. Reflected(r) \in U32 /\ Reflected(MAX \ r) \in U32
    BY <2>1, ReflectedBits
  <2>3. ASSUME NEW i \in Int PROVE i \in Reflected(MAX \ r) <=> i \in MAX \ Reflected(r)
    <3>1. i \in Reflected(MAX \ r) <=> 31 - i \in MAX /\ 31 - i \notin r
      BY <2>1, ReflectedBits
    <3>2. i \in Reflected(r) <=> 31 - i \in r
      BY <2>1, ReflectedBits
    <3>3. 31 - i \in MAX <=> i \in MAX
      BY DEF MAX, Bit
    <3> QED
      BY <3>1, <3>2, <3>3
  <2>4. Reflected(MAX \ r) = MAX \ Reflected(r)
    <3>1. Reflected(MAX \ r) \in SUBSET Int /\ MAX \ Reflected(r) \in SUBSET Int
      <4>1. U32 \subseteq SUBSET Int /\ MAX \in SUBSET Int
        BY DEF U32, Bit, MAX
      <4> QED
        BY <2>2, <4>1
    <3> DEFINE u == Reflected(MAX \ r)
               v == MAX \ Reflected(r)
    <3>2. u \in SUBSET Int /\ v \in SUBSET Int /\ \A i \in Int : i \in u <=> i \in v
      BY <2>3, <3>1
    <3> HIDE DEF u, v
    <3>3. u = v
      BY <3>2
    <3> QED
      BY <3>3 DEF u, v
  <2>5. Xor(Reflected(r), MAX) = MAX \ Reflected(r)
    BY <2>2 DEF Xor, U32, MAX
  <2> QED
    BY <2>4, <2>5 DEF Reflected, r
<1> QED
  BY <1>1, <1>16, <1>17 DEF N

(* The one-shot checksum of any bytes is their CRC32C (checksum.rs:3-5).   *)
THEOREM ChecksumIsCrc32c ==
  ASSUME NEW data \in Seq(Byte)
  PROVE  Xor(process(MAX, data), MAX) = Reference(data)
<1>1. MAX \in U32
  BY DEF MAX, U32
<1>2. PICK f : IsRun(f, MAX, data)
  BY <1>1, RunExists
<1> QED
  BY <1>1, <1>2, ProcessFollowsRun, ReferenceFollowsRun

-----------------------------------------------------------------------------
(* Two flipped bits.                                                       *)

(* A step of the division is linear in the register and the bit.           *)
LEMMA DivideLinear ==
  ASSUME NEW r \in U32, NEW s \in U32, NEW a \in BOOLEAN, NEW b \in BOOLEAN
  PROVE  Xor(Divide(r, a), Divide(s, b)) = Divide(Xor(r, s), a # b)
<1> DEFINE left(x) == {i + 1 : i \in x \ {31}}
           t == Xor(r, s)
           P == POLYNOMIAL
<1>1. ASSUME NEW x \in U32
      PROVE  left(x) \in U32 /\ \A i \in Int : i \in left(x) <=> i \in 1 .. 31 /\ i - 1 \in x
  BY DEF U32, Bit
<1>2. t \in U32 /\ \A i : i \in t <=> ((i \in r) # (i \in s))
  <2>1. t \in U32
    BY XorType DEF U32
  <2> QED
    BY <2>1 DEF Xor
<1>3. /\ Divide(r, a) = IF (31 \in r) # a THEN Xor(left(r), P) ELSE left(r)
      /\ Divide(s, b) = IF (31 \in s) # b THEN Xor(left(s), P) ELSE left(s)
      /\ Divide(t, a # b) = IF (31 \in t) # (a # b) THEN Xor(left(t), P) ELSE left(t)
  BY DEF Divide
<1> HIDE DEF t, P, left
<1>4. left(t) = Xor(left(r), left(s))
  <2> DEFINE u == left(t)
             v == Xor(left(r), left(s))
  <2>1. u \in SUBSET Int /\ v \in SUBSET Int
    BY <1>1, <1>2 DEF Xor, U32, Bit
  <2>2. ASSUME NEW i \in Int PROVE i \in u <=> i \in v
    BY <1>1, <1>2 DEF Xor
  <2> HIDE DEF u, v
  <2>3. u = v
    BY <2>1, <2>2
  <2> QED
    BY <2>3 DEF u, v
<1>5. (31 \in t) <=> ((31 \in r) # (31 \in s))
  BY <1>2
<1> DEFINE x == left(r)
           y == left(s)
<1>6. /\ Xor(Xor(x, P), Xor(y, P)) = Xor(x, y)
      /\ Xor(Xor(x, P), y) = Xor(Xor(x, y), P)
      /\ Xor(x, Xor(y, P)) = Xor(Xor(x, y), P)
  BY DEF Xor
<1> DEFINE pr == (31 \in r) # a
           ps == (31 \in s) # b
           pt == (31 \in t) # (a # b)
<1>7. pt <=> ~ (pr <=> ps)
  <2>1. (31 \in r) \in BOOLEAN /\ (31 \in s) \in BOOLEAN /\ (31 \in t) \in BOOLEAN
    OBVIOUS
  <2>2. (pr <=> ~ (31 \in r <=> a)) /\ (ps <=> ~ (31 \in s <=> b))
    BY <2>1, Zenon
  <2>3. pt <=> ~ (31 \in t <=> ~ (a <=> b))
    BY <2>1, Zenon
  <2>4. 31 \in t <=> ~ (31 \in r <=> 31 \in s)
    BY <1>5, <2>1, Zenon
  <2> HIDE DEF pr, ps, pt
  <2> QED
    BY <2>2, <2>3, <2>4
<1>8. /\ Divide(r, a) = IF pr THEN Xor(x, P) ELSE x
      /\ Divide(s, b) = IF ps THEN Xor(y, P) ELSE y
      /\ Divide(t, a # b) = IF pt THEN Xor(Xor(x, y), P) ELSE Xor(x, y)
  BY <1>3, <1>4, Zenon
<1> HIDE DEF pr, ps, pt, x, y
<1>9. Xor(Divide(r, a), Divide(s, b)) = Divide(t, a # b)
  <2>1. CASE pr /\ ps
    BY <1>6, <1>7, <1>8, <2>1, Zenon
  <2>2. CASE pr /\ ~ ps
    BY <1>6, <1>7, <1>8, <2>2, Zenon
  <2>3. CASE ~ pr /\ ps
    BY <1>6, <1>7, <1>8, <2>3, Zenon
  <2>4. CASE ~ pr /\ ~ ps
    BY <1>6, <1>7, <1>8, <2>4, Zenon
  <2> QED
    BY <2>1, <2>2, <2>3, <2>4
<1> QED
  BY <1>9 DEF t

(* A difference between registers does not disappear by itself.            *)
LEMMA DivideKernel ==
  /\ Divide({}, FALSE) = {} /\ Divide({}, TRUE) = POLYNOMIAL
  /\ \A r \in U32 : r # {} => Divide(r, FALSE) # {}
  /\ \A r \in U32 : Divide(r, TRUE) = Xor(Divide(r, FALSE), POLYNOMIAL)
<1>1. Divide({}, FALSE) = {} /\ Divide({}, TRUE) = POLYNOMIAL
  <2>1. {i + 1 : i \in {} \ {31}} = {}
    OBVIOUS
  <2>2. Xor({}, POLYNOMIAL) = POLYNOMIAL
    BY DEF Xor
  <2>3. ((31 \in {}) # FALSE) = FALSE /\ ((31 \in {}) # TRUE) = TRUE
    <3>1. (31 \in {}) = FALSE
      OBVIOUS
    <3> QED
      BY <3>1
  <2> QED
    BY <2>1, <2>2, <2>3 DEF Divide
<1>2. ASSUME NEW r \in U32, r # {} PROVE Divide(r, FALSE) # {}
  <2> DEFINE left == {i + 1 : i \in r \ {31}}
  <2>1. Divide(r, FALSE) = IF 31 \in r THEN Xor(left, POLYNOMIAL) ELSE left
    <3>1. ((31 \in r) # FALSE) <=> 31 \in r
      <4>1. CASE 31 \in r
        BY <4>1
      <4>2. CASE 31 \notin r
        <5>1. (31 \in r) = FALSE
          BY <4>2
        <5> QED
          BY <4>2, <5>1, Zenon
      <4> QED
        BY <4>1, <4>2
    <3>2. Divide(r, FALSE) = IF (31 \in r) # FALSE THEN Xor(left, POLYNOMIAL) ELSE left
      BY DEF Divide
    <3> QED
      BY <3>1, <3>2, Zenon
  <2>2. CASE 31 \in r
    <3>1. 0 \notin left
      BY DEF U32, Bit
    <3>2. 0 \in POLYNOMIAL
      BY DEF POLYNOMIAL
    <3> HIDE DEF left
    <3>3. 0 \in Xor(left, POLYNOMIAL)
      BY <3>1, <3>2 DEF Xor
    <3> QED
      BY <2>1, <2>2, <3>3
  <2>3. CASE 31 \notin r
    <3>1. PICK i \in r : TRUE
      BY <1>2
    <3>2. i + 1 \in left
      BY <2>3, <3>1
    <3> HIDE DEF left
    <3> QED
      BY <2>1, <2>3, <3>2
  <2> QED
    BY <2>2, <2>3
<1>3. ASSUME NEW r \in U32 PROVE Divide(r, TRUE) = Xor(Divide(r, FALSE), POLYNOMIAL)
  <2>1. {} \in U32 /\ TRUE \in BOOLEAN /\ FALSE \in BOOLEAN /\ (FALSE # TRUE) = TRUE
    BY DEF U32
  <2>2. Xor(Divide(r, FALSE), Divide({}, TRUE)) = Divide(Xor(r, {}), FALSE # TRUE)
    BY <2>1, DivideLinear
  <2>3. Xor(r, {}) = r
    BY DEF Xor
  <2> QED
    BY <1>1, <2>1, <2>2, <2>3
<1> QED
  BY <1>1, <1>2, <1>3

(* The registers of a division after a single one that zeros follow.       *)
Orbit(N) ==
  LET register[n \in 0 .. N] ==
        IF n = 0 THEN POLYNOMIAL ELSE Divide(register[n - 1], FALSE)
  IN  register

(* What Orbit is defined by.                                               *)
LEMMA OrbitSteps ==
  ASSUME NEW N \in Nat
  PROVE  /\ Orbit(N)[0] = POLYNOMIAL
         /\ \A n \in 1 .. N : Orbit(N)[n] = Divide(Orbit(N)[n - 1], FALSE)
         /\ \A n \in 0 .. N : Orbit(N)[n] \in U32
<1> DEFINE F(g) == [n \in 0 .. N |-> IF n = 0 THEN POLYNOMIAL ELSE Divide(g[n - 1], FALSE)]
           r == CHOOSE g : g = F(g)
           S == [n \in 1 .. N |-> [x \in U32 |-> Divide(x, FALSE)]]
<1>1. Orbit(N) = r
  BY DEF Orbit
<1>2. POLYNOMIAL \in U32
  BY DEF POLYNOMIAL, U32, Bit
<1>3. AreSteps(S, N, U32)
  <2>1. ASSUME NEW x \in U32 PROVE Divide(x, FALSE) \in U32
    BY DivideIsShift
  <2> QED
    BY <2>1 DEF AreSteps
<1>4. \A n \in 1 .. N : \A x \in U32 : S[n][x] = Divide(x, FALSE)
  OBVIOUS
<1> HIDE DEF S
<1>5. PICK h : Follows(h, POLYNOMIAL, S, N, U32)
  BY <1>2, <1>3, StepsExist
<1>6. h = F(h)
  <2>1. ASSUME NEW n \in 0 .. N PROVE h[n] = F(h)[n]
    <3>1. CASE n = 0
      BY <1>5, <3>1 DEF Follows
    <3>2. CASE n # 0
      <4>1. n \in 1 .. N /\ n - 1 \in 0 .. N
        BY <3>2
      <4> QED
        BY <1>4, <1>5, <3>2, <4>1 DEF Follows
    <3> QED
      BY <3>1, <3>2
  <2>2. h \in [0 .. N -> U32]
    BY <1>5 DEF Follows
  <2> QED
    BY <2>1, <2>2
<1>7. r = F(r)
  BY <1>6
<1> HIDE DEF r
<1>8. r[0] = POLYNOMIAL /\ \A n \in 1 .. N : r[n] = Divide(r[n - 1], FALSE)
  <2>1. 0 \in 0 .. N /\ \A n \in 1 .. N : n \in 0 .. N /\ n # 0
    OBVIOUS
  <2> QED
    BY <1>7, <2>1
<1>9. \A n \in 0 .. N : r[n] = h[n]
  <2>1. StepAlike(r, h, 0, N)
    <3>1. r[0] = h[0]
      BY <1>5, <1>8 DEF Follows
    <3>2. ASSUME NEW n \in 0 + 1 .. N, r[n - 1] = h[n - 1] PROVE r[n] = h[n]
      <4>1. n \in 1 .. N /\ n - 1 \in 0 .. N
        OBVIOUS
      <4>2. h[n] = S[n][h[n - 1]] /\ h[n - 1] \in U32
        BY <1>5, <4>1 DEF Follows
      <4>3. S[n][h[n - 1]] = Divide(h[n - 1], FALSE)
        BY <1>4, <4>1, <4>2, Zenon
      <4>4. r[n] = Divide(r[n - 1], FALSE)
        BY <1>8, <4>1, Zenon
      <4> QED
        BY <3>2, <4>2, <4>3, <4>4, Zenon
    <3> QED
      BY <3>1, <3>2 DEF StepAlike
  <2> QED
    BY <2>1, SameSteps
<1>10. \A n \in 0 .. N : r[n] \in U32
  BY <1>5, <1>9 DEF Follows
<1> QED
  BY <1>1, <1>8, <1>10

(* Functions that step alike end alike.                                    *)
LEMMA LastAlike ==
  ASSUME NEW a \in Int, NEW b \in Int, a <= b, NEW G, NEW H, StepAlike(G, H, a, b)
  PROVE  G[b] = H[b]
<1>1. \A n \in a .. b : G[n] = H[n]
  BY SameSteps
<1> QED
  BY <1>1

(* One or two differing bits leave the last registers different, unless    *)
(* the second meets the first where the orbit has come round.              *)
LEMMA DifferenceStays ==
  ASSUME NEW M \in Nat, NEW D \in [0 .. M -> U32], NEW d \in [1 .. M -> BOOLEAN],
         D[0] = {}, \A n \in 1 .. M : D[n] = Divide(D[n - 1], d[n]),
         NEW i \in 1 .. M, NEW j \in i .. M,
         \A n \in 1 .. M : d[n] <=> n \in {i, j},
         i < j => Orbit(M)[j - i] # POLYNOMIAL
  PROVE  D[M] # {}
<1> DEFINE r == Orbit(M)
<1>1. /\ r[0] = POLYNOMIAL /\ \A n \in 1 .. M : r[n] = Divide(r[n - 1], FALSE)
      /\ \A n \in 0 .. M : r[n] \in U32
  BY OrbitSteps
<1> HIDE DEF r
<1>2. ASSUME NEW n \in 1 .. M PROVE d[n] = (n \in {i, j})
  OBVIOUS
<1>3. D[i - 1] = {}
  <2> DEFINE E == [n \in 0 .. i - 1 |-> {}]
  <2>1. StepAlike(D, E, 0, i - 1)
    <3>1. D[0] = E[0]
      OBVIOUS
    <3>2. ASSUME NEW n \in 0 + 1 .. i - 1, D[n - 1] = E[n - 1] PROVE D[n] = E[n]
      <4>1. n \in 1 .. M /\ n \notin {i, j} /\ n - 1 \in 0 .. i - 1 /\ n \in 0 .. i - 1
        OBVIOUS
      <4>2. D[n] = Divide({}, FALSE)
        BY <1>2, <3>2, <4>1
      <4> QED
        BY <4>1, <4>2, DivideKernel
    <3> HIDE DEF E
    <3> QED
      BY <3>1, <3>2 DEF StepAlike
  <2>2. i - 1 \in 0 .. i - 1 /\ i - 1 \in Int /\ 0 \in Int
    OBVIOUS
  <2>3. D[i - 1] = E[i - 1]
    <3> HIDE DEF E
    <3> DEFINE last == i - 1
    <3>1. 0 \in Int /\ last \in Int /\ 0 <= last /\ StepAlike(D, E, 0, last)
      BY <2>1, <2>2
    <3> HIDE DEF last
    <3>2. D[last] = E[last]
      BY <3>1, LastAlike
    <3> QED
      BY <3>2, Zenon DEF last
  <2> QED
    BY <2>2, <2>3
<1>4. D[i] = POLYNOMIAL
  <2>1. D[i] = Divide({}, TRUE)
    BY <1>2, <1>3
  <2> QED
    BY <2>1, DivideKernel
<1>5. D[j] # {}
  <2>1. CASE i = j
    <3>1. 0 \in POLYNOMIAL
      BY DEF POLYNOMIAL
    <3> QED
      BY <1>4, <2>1, <3>1
  <2>2. CASE i < j
    <3> DEFINE E == [n \in i .. j - 1 |-> r[n - i]]
    <3>1. StepAlike(D, E, i, j - 1)
      <4>1. D[i] = E[i]
        <5>1. i \in i .. j - 1 /\ i - i = 0
          BY <2>2
        <5> QED
          BY <1>1, <1>4, <5>1
      <4>2. ASSUME NEW n \in i + 1 .. j - 1, D[n - 1] = E[n - 1] PROVE D[n] = E[n]
        <5>1. /\ n \in 1 .. M /\ n \notin {i, j} /\ n - 1 \in i .. j - 1 /\ n \in i .. j - 1
              /\ (n - 1) - i = (n - i) - 1 /\ n - i \in 1 .. M
          OBVIOUS
        <5>2. D[n] = Divide(D[n - 1], FALSE)
          BY <1>2, <5>1
        <5>3. E[n - 1] = r[(n - i) - 1] /\ E[n] = r[n - i]
          BY <5>1
        <5>4. r[n - i] = Divide(r[(n - i) - 1], FALSE)
          BY <1>1, <5>1
        <5> QED
          BY <4>2, <5>2, <5>3, <5>4
      <4> HIDE DEF E
      <4> QED
        BY <4>1, <4>2 DEF StepAlike
    <3>2. /\ j - 1 \in i .. j - 1 /\ j - 1 \in Int /\ i \in Int
          /\ (j - 1) - i = (j - i) - 1 /\ j - i \in 1 .. M /\ (j - i) - 1 \in 0 .. M
      BY <2>2
    <3>3. D[j - 1] = E[j - 1]
      <4> HIDE DEF E
      <4> DEFINE last == j - 1
      <4>1. i \in Int /\ last \in Int /\ i <= last /\ StepAlike(D, E, i, last)
        BY <3>1, <3>2
      <4> HIDE DEF last
      <4>2. D[last] = E[last]
        BY <4>1, LastAlike
      <4> QED
        BY <4>2, Zenon DEF last
    <3>4. D[j - 1] = r[(j - i) - 1]
      BY <3>2, <3>3
    <3>5. D[j] = Divide(r[(j - i) - 1], TRUE)
      <4>1. j \in 1 .. M /\ d[j] = TRUE
        BY <1>2
      <4>2. D[j] = Divide(D[j - 1], d[j])
        BY <4>1
      <4> QED
        BY <3>4, <4>1, <4>2, Zenon
    <3>6. r[(j - i) - 1] \in U32 /\ r[j - i] = Divide(r[(j - i) - 1], FALSE)
      BY <1>1, <3>2, Zenon
    <3>7. D[j] = Xor(r[j - i], POLYNOMIAL)
      <4> DEFINE x == r[(j - i) - 1]
                 y == r[j - i]
      <4>1. x \in U32 /\ y = Divide(x, FALSE) /\ D[j] = Divide(x, TRUE)
        BY <3>5, <3>6, Zenon
      <4> HIDE DEF x, y
      <4>2. D[j] = Xor(y, POLYNOMIAL)
        BY <4>1, DivideKernel
      <4> QED
        BY <4>2, Zenon DEF y
    <3>8. r[j - i] # POLYNOMIAL
      BY <2>2 DEF r
    <3> QED
      BY <3>7, <3>8 DEF Xor
  <2> QED
    BY <2>1, <2>2
<1> DEFINE G == [n \in j .. M |-> IF D[n] = {} THEN 0 ELSE 1]
           H == [n \in j .. M |-> 1]
<1>6. StepAlike(G, H, j, M)
  <2>1. G[j] = H[j]
    BY <1>5
  <2>2. ASSUME NEW n \in j + 1 .. M, G[n - 1] = H[n - 1] PROVE G[n] = H[n]
    <3>1. n \in 1 .. M /\ n \notin {i, j} /\ n - 1 \in j .. M /\ n \in j .. M /\ n - 1 \in 0 .. M
      OBVIOUS
    <3>2. D[n - 1] # {} /\ D[n - 1] \in U32
      BY <2>2, <3>1
    <3>3. D[n] = Divide(D[n - 1], FALSE)
      BY <1>2, <3>1
    <3> QED
      BY <3>1, <3>2, <3>3, DivideKernel
  <2> HIDE DEF G, H
  <2> QED
    BY <2>1, <2>2 DEF StepAlike
<1>7. M \in j .. M /\ j \in Int /\ M \in Int
  OBVIOUS
<1>8. G[M] = H[M]
  <2> HIDE DEF G, H
  <2>1. j <= M
    OBVIOUS
  <2> QED
    BY <1>6, <1>7, <2>1, LastAlike
<1> QED
  BY <1>7, <1>8

(* Two messages of one length that differ in one bit, or in two whose      *)
(* distance is less than the period of the polynomial, have different      *)
(* checksums.                                                              *)
THEOREM TwoFlipsAreDetected ==
  ASSUME NEW a \in Seq(Byte), NEW b \in Seq(Byte), Len(a) = Len(b),
         NEW i \in 1 .. 8 * Len(a), NEW j \in i .. 8 * Len(a),
         \A n \in 1 .. 8 * Len(a) : (BitOf(a, n) # BitOf(b, n)) <=> n \in {i, j},
         i < j => Orbit(8 * Len(a))[j - i] # POLYNOMIAL
  PROVE  Reference(a) # Reference(b)
<1> DEFINE M == 8 * Len(a)
           d == [n \in 1 .. M |-> BitOf(a, n) # BitOf(b, n)]
<1>1. M \in Nat /\ M = 8 * Len(b)
  OBVIOUS
<1>2. PICK g : /\ IsDivision(g, a)
               /\ Reference(a) = {31 - k : k \in MAX \ g[M]}
  BY ReferenceDivides
<1>3. PICK h : /\ IsDivision(h, b)
               /\ Reference(b) = {31 - k : k \in MAX \ h[M]}
  BY <1>1, ReferenceDivides
<1> DEFINE D == [n \in 0 .. M |-> Xor(g[n], h[n])]
<1>4. ASSUME NEW n \in 0 .. M PROVE g[n] \in U32 /\ h[n] \in U32
  BY <1>1, <1>2, <1>3 DEF IsDivision
<1>5. D \in [0 .. M -> U32]
  <2>1. ASSUME NEW n \in 0 .. M PROVE Xor(g[n], h[n]) \in U32
    BY <1>4, XorType DEF U32
  <2> HIDE DEF M
  <2> QED
    BY <2>1
<1>6. D[0] = {}
  <2>1. g[0] = MAX /\ h[0] = MAX /\ 0 \in 0 .. M
    BY <1>1, <1>2, <1>3 DEF IsDivision
  <2> HIDE DEF M
  <2> QED
    BY <2>1 DEF Xor
<1>7. ASSUME NEW n \in 1 .. M PROVE D[n] = Divide(D[n - 1], d[n])
  <2>1. n - 1 \in 0 .. M /\ n \in 0 .. M
    BY <1>1
  <2>2. g[n] = Divide(g[n - 1], BitOf(a, n)) /\ h[n] = Divide(h[n - 1], BitOf(b, n))
    BY <1>1, <1>2, <1>3 DEF IsDivision
  <2>3. BitOf(a, n) \in BOOLEAN /\ BitOf(b, n) \in BOOLEAN
    BY DEF BitOf
  <2> HIDE DEF M
  <2>4. g[n - 1] \in U32 /\ h[n - 1] \in U32
    BY <1>4, <2>1
  <2>5. Xor(g[n], h[n]) = Divide(Xor(g[n - 1], h[n - 1]), BitOf(a, n) # BitOf(b, n))
    BY <2>2, <2>3, <2>4, DivideLinear
  <2> QED
    BY <2>1, <2>5
<1>8. /\ d \in [1 .. M -> BOOLEAN]
      /\ \A n \in 1 .. M : d[n] <=> n \in {i, j}
  OBVIOUS
<1>9. i \in 1 .. M /\ j \in i .. M /\ (i < j => Orbit(M)[j - i] # POLYNOMIAL)
  OBVIOUS
<1> HIDE DEF D, d, M
<1>10. D[M] # {}
  BY <1>1, <1>5, <1>6, <1>7, <1>8, <1>9, DifferenceStays
<1>11. M \in 0 .. M
  BY <1>1
<1>12. g[M] # h[M] /\ g[M] \in U32 /\ h[M] \in U32
  BY <1>4, <1>10, <1>11 DEF D, Xor
<1>13. Reflected(MAX \ g[M]) # Reflected(MAX \ h[M])
  <2>1. MAX \ g[M] \in U32 /\ MAX \ h[M] \in U32 /\ MAX \ g[M] # MAX \ h[M]
    BY <1>12 DEF U32, MAX
  <2>2. PICK k \in Bit : (k \in MAX \ g[M]) # (k \in MAX \ h[M])
    BY <2>1 DEF U32
  <2>3. 31 - k \in Int /\ 31 - (31 - k) = k
    BY DEF Bit
  <2>4. 31 - k \in Reflected(MAX \ g[M]) <=> k \in MAX \ g[M]
    BY <2>1, <2>3, ReflectedBits
  <2>5. 31 - k \in Reflected(MAX \ h[M]) <=> k \in MAX \ h[M]
    BY <2>1, <2>3, ReflectedBits
  <2> QED
    BY <2>2, <2>4, <2>5
<1> QED
  BY <1>2, <1>3, <1>13 DEF Reflected

-----------------------------------------------------------------------------
(* The accumulator.                                                        *)

(* A damaged byte sequence is a byte sequence of the same length.          *)
LEMMA FlipType ==
  ASSUME NEW data \in Seq(Byte), NEW k \in 0 .. 8 * Len(data) - 1
  PROVE  /\ Flip(data, k) \in Seq(Byte) /\ Len(Flip(data, k)) = Len(data)
         /\ (k \div 8) + 1 \in 1 .. Len(data) /\ k % 8 \in 0 .. 7
         /\ \A n \in 1 .. Len(data) :
              Flip(data, k)[n] = IF n = (k \div 8) + 1 THEN Xor(data[n], {k % 8}) ELSE data[n]
<1> DEFINE p == (k \div 8) + 1
           b == k % 8
           N == Len(data)
<1>1. N \in Nat /\ k \in Nat /\ k < 8 * N
  OBVIOUS
<1>2. p \in 1 .. N /\ b \in 0 .. 7
  <2>1. k \div 8 \in Nat /\ 8 * (k \div 8) <= k
    BY <1>1
  <2> HIDE DEF N
  <2>2. k \div 8 < N
    BY <1>1, <2>1
  <2>3. b \in 0 .. 7
    BY <1>1
  <2> QED
    BY <1>1, <2>1, <2>2, <2>3
<1> HIDE DEF p, b
<1>3. Xor(data[p], {b}) \in Byte
  <2>1. data[p] \in SUBSET (0 .. 7) /\ {b} \in SUBSET (0 .. 7)
    BY <1>2 DEF Byte
  <2>2. Xor(data[p], {b}) \in SUBSET (0 .. 7)
    BY <2>1 DEF Xor
  <2> QED
    BY <2>2 DEF Byte
<1>4. Flip(data, k) = [data EXCEPT ![p] = Xor(data[p], {b})]
  BY <1>2 DEF Flip, p, b
<1>5. Flip(data, k) \in Seq(Byte) /\ Len(Flip(data, k)) = N
  BY <1>2, <1>3, <1>4
<1>6. \A n \in 1 .. N : Flip(data, k)[n] = IF n = p THEN Xor(data[n], {b}) ELSE data[n]
  BY <1>2, <1>4
<1> QED
  BY <1>2, <1>5, <1>6 DEF p, b

(* n zeros are n bytes.                                                    *)
LEMMA ZerosType ==
  ASSUME NEW n \in Nat
  PROVE  Zeros(n) \in Seq(Byte) /\ Len(Zeros(n)) = n
BY DEF Zeros, Byte

(* Every message is a byte sequence.                                       *)
LEMMA MessagesAreBytes == Messages \subseteq Seq(Byte)
<1>1. CheckMessage \in Seq(Byte)
  <2>1. \A i \in 1 .. 9 : CheckMessage[i] \in Byte
    BY DEF CheckMessage, Byte
  <2> QED
    BY <2>1 DEF CheckMessage
<1>2. ASSUME NEW n \in Lengths, NEW m \in OfLength(n) PROVE m \in Seq(Byte)
  <2>1. n \in Nat
    BY LengthsAssumption
  <2>2. Zeros(n) \in Seq(Byte) /\ Len(Zeros(n)) = n
    BY <2>1, ZerosType
  <2>3. \A k \in 0 .. 8 * n - 1 : Flip(Zeros(n), k) \in Seq(Byte)
    BY <2>2, FlipType
  <2> QED
    BY <2>2, <2>3 DEF OfLength
<1>3. ASSUME NEW m \in Messages, m # CheckMessage PROVE \E n \in Lengths : m \in OfLength(n)
  BY <1>3 DEF Messages
<1> QED
  BY <1>1, <1>2, <1>3

(* The bits of a message with at most one bit set.                         *)
LEMMA BitsOfMessages ==
  ASSUME NEW len \in Nat, NEW n \in 1 .. 8 * len
  PROVE  /\ BitOf(Zeros(len), n) = FALSE
         /\ \A k \in 0 .. 8 * len - 1 : BitOf(Flip(Zeros(len), k), n) <=> n = k + 1
<1> DEFINE p == ((n - 1) \div 8) + 1
           b == (n - 1) % 8
           z == Zeros(len)
<1>1. p \in 1 .. len /\ b \in 0 .. 7 /\ n - 1 = 8 * (p - 1) + b
  OBVIOUS
<1>2. z \in Seq(Byte) /\ Len(z) = len /\ \A q \in 1 .. len : z[q] = {}
  BY ZerosType DEF Zeros
<1> HIDE DEF z
<1>3. BitOf(z, n) = FALSE
  <2>1. z[p] = {}
    BY <1>1, <1>2
  <2> HIDE DEF p, b
  <2>2. b \notin z[p]
    BY <2>1
  <2>3. (b \in z[p]) = FALSE
    BY <2>2
  <2> QED
    BY <2>3, Zenon DEF BitOf, p, b
<1>4. ASSUME NEW k \in 0 .. 8 * len - 1 PROVE BitOf(Flip(z, k), n) <=> n = k + 1
  <2> DEFINE q == (k \div 8) + 1
             c == k % 8
             f == Flip(z, k)
  <2>1. c \in 0 .. 7 /\ k = 8 * (q - 1) + c /\ q \in Int
    <3>1. k \in Int
      OBVIOUS
    <3> QED
      BY <3>1, SMTT(30)
  <2>2. f[p] = IF p = q THEN Xor(z[p], {c}) ELSE z[p]
    <3>1. k \in 0 .. 8 * Len(z) - 1
      BY <1>2
    <3>2. \A j \in 1 .. Len(z) : f[j] = IF j = q THEN Xor(z[j], {c}) ELSE z[j]
      BY <1>2, <3>1, FlipType, Zenon
    <3>3. p \in 1 .. Len(z)
      BY <1>1, <1>2
    <3> HIDE DEF p, q, c, f
    <3> QED
      BY <3>2, <3>3, Zenon
  <2>3. BitOf(f, n) <=> b \in f[p]
    BY Zenon DEF BitOf
  <2>4. n = k + 1 <=> (p = q /\ b = c)
    <3>1. n - 1 = k <=> (p = q /\ b = c)
      <4> HIDE DEF p, b, q, c
      <4> QED
        BY <1>1, <2>1
    <3> QED
      BY <3>1
  <2> HIDE DEF p, b, q, c, f
  <2>5. z[p] = {} /\ Xor({}, {c}) = {c}
    BY <1>1, <1>2 DEF Xor
  <2> QED
    BY <2>2, <2>3, <2>4, <2>5 DEF f
<1> QED
  BY <1>3, <1>4 DEF z

(* Two different messages of one length, with one bit set at most, have    *)
(* different checksums.                                                    *)
LEMMA MessagesDiffer ==
  ASSUME NEW len \in Nat, \A n \in 1 .. 8 * len - 1 : Orbit(8 * len)[n] # POLYNOMIAL,
         NEW a \in OfLength(len), NEW b \in OfLength(len), a # b
  PROVE  Reference(a) # Reference(b)
<1> DEFINE z == Zeros(len)
           M == 8 * len
<1>1. z \in Seq(Byte) /\ Len(z) = len /\ M \in Nat
  BY ZerosType
<1>2. \A n \in 1 .. M : BitOf(z, n) = FALSE
  BY BitsOfMessages
<1>3. ASSUME NEW k \in 0 .. M - 1
      PROVE  /\ Flip(z, k) \in Seq(Byte) /\ Len(Flip(z, k)) = len
             /\ \A n \in 1 .. M : BitOf(Flip(z, k), n) <=> n = k + 1
  <2>1. Flip(z, k) \in Seq(Byte) /\ Len(Flip(z, k)) = len
    BY <1>1, FlipType
  <2> QED
    BY <2>1, BitsOfMessages
<1>4. \A x : x \in OfLength(len) => x = z \/ \E k \in 0 .. M - 1 : x = Flip(z, k)
  BY DEF OfLength
<1> HIDE DEF z
<1>5. \A x, n : BitOf(x, n) \in BOOLEAN
  BY DEF BitOf
<1>6. ASSUME NEW k \in 0 .. M - 1 PROVE Reference(z) # Reference(Flip(z, k))
  <2> DEFINE f == Flip(z, k)
             i == k + 1
  <2>1. f \in Seq(Byte) /\ Len(f) = len /\ \A n \in 1 .. M : BitOf(f, n) <=> n = i
    BY <1>3
  <2>2. i \in 1 .. M /\ i \in i .. M /\ ~ (i < i)
    BY <1>1
  <2> HIDE DEF f, i, M
  <2>3. ASSUME NEW n \in 1 .. M PROVE (BitOf(z, n) # BitOf(f, n)) <=> n \in {i, i}
    <3>1. BitOf(z, n) = FALSE /\ BitOf(f, n) \in BOOLEAN /\ (BitOf(f, n) <=> n = i)
      BY <1>2, <1>5, <2>1
    <3> QED
      BY <3>1, Zenon
  <2>4. M = 8 * Len(z) /\ Len(z) = Len(f)
    BY <1>1, <2>1 DEF M
  <2> QED
    BY <1>1, <2>1, <2>2, <2>3, <2>4, TwoFlipsAreDetected DEF f
<1>7. ASSUME NEW k \in 0 .. M - 1, NEW l \in 0 .. M - 1, k < l
      PROVE  Reference(Flip(z, k)) # Reference(Flip(z, l))
  <2> DEFINE f == Flip(z, k)
             g == Flip(z, l)
             i == k + 1
             j == l + 1
  <2>1. f \in Seq(Byte) /\ Len(f) = len /\ \A n \in 1 .. M : BitOf(f, n) <=> n = i
    BY <1>3
  <2>2. g \in Seq(Byte) /\ Len(g) = len /\ \A n \in 1 .. M : BitOf(g, n) <=> n = j
    BY <1>3
  <2>3. i \in 1 .. M /\ j \in i .. M /\ i # j /\ j - i \in 1 .. M - 1
    BY <1>1, <1>7
  <2>4. Orbit(M)[j - i] # POLYNOMIAL
    BY <2>3
  <2> HIDE DEF f, g, i, j, M
  <2>5. ASSUME NEW n \in 1 .. M PROVE (BitOf(f, n) # BitOf(g, n)) <=> n \in {i, j}
    <3>1. /\ BitOf(f, n) \in BOOLEAN /\ (BitOf(f, n) <=> n = i)
          /\ BitOf(g, n) \in BOOLEAN /\ (BitOf(g, n) <=> n = j)
      BY <1>5, <2>1, <2>2
    <3> QED
      BY <2>3, <3>1, Zenon
  <2>6. M = 8 * Len(f) /\ Len(f) = Len(g)
    BY <1>1, <2>1, <2>2 DEF M
  <2> QED
    BY <2>1, <2>2, <2>3, <2>4, <2>5, <2>6, TwoFlipsAreDetected DEF f, g
<1>8. ASSUME NEW k \in 0 .. M - 1, NEW l \in 0 .. M - 1, k # l
      PROVE  Reference(Flip(z, k)) # Reference(Flip(z, l))
  <2>1. k < l \/ l < k
    BY <1>8
  <2> HIDE DEF M
  <2> QED
    BY <1>7, <2>1
<1> HIDE DEF M
<1> QED
  BY <1>4, <1>6, <1>8

(* No message is longer than the period of the polynomial, which is 2^31-1 *)
(* bits: the registers that follow a single one do not repeat within it.   *)
(* A page has 2^23 bits at most.                                           *)
WithinPeriod ==
  \A len \in Lengths : \A n \in 1 .. 8 * len - 1 : Orbit(8 * len)[n] # POLYNOMIAL

(* The accumulator has the state of the bytes it was fed.                  *)
StreamInv ==
  /\ message \in Seq(Byte)
  /\ fed \in 0 .. Len(message)
  /\ finished \in BOOLEAN
  /\ ~ finished => state = process(MAX, SubSeq(message, 1, fed))
  /\ finished => state = Reference(message)

(* A new accumulator has seen nothing.                                     *)
LEMMA StreamInitially ==
  ASSUME message \in Seq(Byte), new_accumulator
  PROVE  StreamInv
<1>1. MAX \in U32
  BY DEF MAX, U32
<1>2. PICK f : IsRun(f, MAX, message)
  BY <1>1, RunExists
<1>3. process(f[0], SubSeq(message, 0 + 1, 0)) = f[0]
  BY <1>1, <1>2, ProcessAdvances
<1>4. f[0] = MAX /\ 0 + 1 = 1
  BY <1>2 DEF IsRun
<1>5. process(MAX, SubSeq(message, 1, 0)) = MAX
  BY <1>3, <1>4
<1>6. fed = 0 /\ state = MAX /\ finished = FALSE
  BY DEF new_accumulator
<1>7. state = process(MAX, SubSeq(message, 1, fed)) /\ fed \in 0 .. Len(message)
  BY <1>5, <1>6
<1> QED
  BY <1>6, <1>7 DEF StreamInv

(* Every call of update or finalize keeps the invariant.                   *)
LEMMA StreamStep ==
  ASSUME StreamInv, [Next]_vars
  PROVE  StreamInv'
<1>1. MAX \in U32
  BY DEF MAX, U32
<1>2. message \in Seq(Byte) /\ fed \in Nat /\ fed <= Len(message)
  BY DEF StreamInv
<1>3. PICK f : IsRun(f, MAX, message)
  BY <1>1, <1>2, RunExists
<1>4. ASSUME NEW j \in Nat, j <= Len(message)
      PROVE  process(MAX, SubSeq(message, 1, j)) = f[j]
  <2>1. process(f[0], SubSeq(message, 0 + 1, j)) = f[j]
    BY <1>1, <1>2, <1>3, <1>4, ProcessAdvances
  <2>2. f[0] = MAX /\ 0 + 1 = 1
    BY <1>3 DEF IsRun
  <2> QED
    BY <2>1, <2>2
<1>5. ASSUME NEW n \in 1 .. Len(message), update(n) PROVE StreamInv'
  <2>1. /\ ~ finished /\ fed + n <= Len(message) /\ fed' = fed + n
        /\ message' = message /\ finished' = finished
        /\ state' = process(state, SubSeq(message, fed + 1, fed + n))
    BY <1>5 DEF update
  <2>2. fed + n \in Nat /\ fed <= fed + n
    BY <1>2
  <2>3. state = f[fed]
    BY <1>2, <1>4, <2>1 DEF StreamInv
  <2>4. process(f[fed], SubSeq(message, fed + 1, fed + n)) = f[fed + n]
    BY <1>1, <1>2, <1>3, <2>1, <2>2, ProcessAdvances
  <2>5. process(MAX, SubSeq(message, 1, fed + n)) = f[fed + n]
    BY <1>4, <2>1, <2>2
  <2>6. state' = process(MAX, SubSeq(message', 1, fed'))
    BY <2>1, <2>3, <2>4, <2>5
  <2>7. fed' \in 0 .. Len(message') /\ message' \in Seq(Byte) /\ finished' = FALSE
    BY <1>2, <2>1, <2>2 DEF StreamInv
  <2> QED
    BY <2>6, <2>7 DEF StreamInv
<1>6. ASSUME finalize PROVE StreamInv'
  <2>1. /\ ~ finished /\ fed = Len(message) /\ fed' = fed
        /\ message' = message /\ finished' = TRUE
        /\ state' = Xor(state, MAX)
    BY <1>6 DEF finalize
  <2>2. state = f[Len(message)]
    BY <1>2, <1>4, <2>1 DEF StreamInv
  <2>3. state' = Reference(message')
    BY <1>2, <1>3, <2>1, <2>2, ReferenceFollowsRun
  <2> QED
    BY <1>2, <2>1, <2>3 DEF StreamInv
<1>7. ASSUME UNCHANGED vars PROVE StreamInv'
  <2>1. message' = message /\ fed' = fed /\ state' = state /\ finished' = finished
    BY <1>7 DEF vars
  <2> QED
    BY <2>1 DEF StreamInv
<1> QED
  BY <1>5, <1>6, <1>7 DEF Next

(* The invariant of the accumulator, for messages of every length.         *)
THEOREM StreamInvariant == Spec => []StreamInv
<1>1. Init => StreamInv
  BY MessagesAreBytes, StreamInitially DEF Init
<1>2. StreamInv /\ [Next]_vars => StreamInv'
  BY StreamStep
<1> QED
  BY <1>1, <1>2, PTL DEF Spec

(* However the bytes are divided among calls of update, finalize returns   *)
(* the CRC32C of all of them (checksum.rs:84-87).                          *)
THEOREM StreamsAreCrc32c == Spec => []StreamIsCrc32c
<1>1. StreamInv => StreamIsCrc32c
  BY DEF StreamInv, StreamIsCrc32c
<1> QED
  BY <1>1, StreamInvariant, PTL

(* The result for a message tells it from any other with one bit more or   *)
(* less.                                                                   *)
LEMMA ResultTellsFlips ==
  ASSUME WithinPeriod, StreamInv, finished => message \in Messages
  PROVE  FlipsAreDetected
<1> SUFFICES ASSUME finished, message # CheckMessage,
                    NEW m \in OfLength(Len(message)), m # message
             PROVE  OneShot[m] # state
  BY DEF FlipsAreDetected
<1>1. state = Reference(message)
  BY DEF StreamInv
<1>2. PICK len \in Lengths : message \in OfLength(len)
  BY DEF Messages
<1>3. len \in Nat /\ Zeros(len) \in Seq(Byte) /\ Len(Zeros(len)) = len
  BY LengthsAssumption, ZerosType
<1>4. Len(message) = len
  <2>1. \A k \in 0 .. 8 * len - 1 : Len(Flip(Zeros(len), k)) = len
    BY <1>3, FlipType
  <2>2. message = Zeros(len) \/ \E k \in 0 .. 8 * len - 1 : message = Flip(Zeros(len), k)
    BY <1>2 DEF OfLength
  <2> QED
    BY <1>3, <2>1, <2>2
<1>5. m \in OfLength(len) /\ m \in Messages
  BY <1>4 DEF Messages
<1>6. Reference(m) # Reference(message)
  <2>1. \A n \in 1 .. 8 * len - 1 : Orbit(8 * len)[n] # POLYNOMIAL
    BY DEF WithinPeriod
  <2> QED
    BY <1>2, <1>3, <1>5, <2>1, MessagesDiffer
<1>7. OneShot[m] = Reference(m)
  <2>1. OneShot[m] = Xor(process(MAX, m), MAX)
    BY <1>5 DEF OneShot
  <2>2. m \in Seq(Byte)
    BY <1>5, MessagesAreBytes
  <2> QED
    BY <2>1, <2>2, ChecksumIsCrc32c
<1> QED
  BY <1>1, <1>6, <1>7

(* One or two flipped bits anywhere in a message change what finalize      *)
(* returns, for messages of every length within the period.                *)
THEOREM FlipsAlwaysDetected == WithinPeriod => (Spec => []FlipsAreDetected)
<1> DEFINE Inv == StreamInv /\ message \in Messages
<1>1. Init => Inv
  BY MessagesAreBytes, StreamInitially DEF Init
<1>2. Inv /\ [Next]_vars => Inv'
  <2>1. [Next]_vars => message' = message
    BY DEF Next, update, finalize, vars
  <2> QED
    BY <2>1, StreamStep
<1>3. ASSUME WithinPeriod PROVE Spec => []FlipsAreDetected
  <2>1. Inv => FlipsAreDetected
    BY <1>3, ResultTellsFlips
  <2> HIDE DEF Inv
  <2> QED
    BY <1>1, <1>2, <2>1, PTL DEF Spec
<1> QED
  BY <1>3

=============================================================================
