-------------------------- MODULE PageFormatProofs ---------------------------
(***************************************************************************)
(* Proofs about the page format, for every page size and all ids, log      *)
(* sequence numbers and payloads: what is serialised parses to the same    *)
(* page, a flipped bit is always noticed, and the error names the damage.  *)
(***************************************************************************)
EXTENDS PageFormat, Crc32cProofs

-----------------------------------------------------------------------------
(* Fields.                                                                 *)

(* Writing a field changes these bytes only.                               *)
LEMMA WriteType ==
  ASSUME NEW b \in Seq(Byte), NEW off \in Int, NEW n \in Nat, NEW v
  PROVE  /\ Write(b, off, n, v) \in Seq(Byte)
         /\ Len(Write(b, off, n, v)) = Len(b)
         /\ \A i \in 1 .. Len(b) :
              Write(b, off, n, v)[i] = IF i \in off + 1 .. off + n
                                       THEN ByteOf(v, i - off - 1) ELSE b[i]
<1>1. DOMAIN b = 1 .. Len(b) /\ Len(b) \in Nat
  OBVIOUS
<1>2. \A k : ByteOf(v, k) \in Byte
  BY DEF ByteOf, Byte
<1>3. \A i \in 1 .. Len(b) : b[i] \in Byte
  OBVIOUS
<1> QED
  BY <1>1, <1>2, <1>3 DEF Write

(* Writing a field gives a block of the same length.                       *)
LEMMA WriteLength ==
  ASSUME NEW b \in Seq(Byte), NEW off \in Nat, NEW n \in Nat, NEW v
  PROVE  Write(b, off, n, v) \in Seq(Byte) /\ Len(Write(b, off, n, v)) = Len(b)
  BY WriteType

(* Two blocks have the same bytes in the field of n bytes at off.          *)
SameField(a, b, off, n) == \A i \in off + 1 .. off + n : a[i] = b[i]

(* A field reads what its bytes are.                                       *)
LEMMA ReadSame ==
  ASSUME NEW a, NEW b, NEW off \in Nat, NEW n \in Nat, SameField(a, b, off, n)
  PROVE  Read(a, off, n) = Read(b, off, n)
<1>1. \A k \in 1 .. n : a[off + k] = b[off + k]
  BY DEF SameField
<1>2. {{i + 8 * (k - 1) : i \in a[off + k]} : k \in 1 .. n}
        = {{i + 8 * (k - 1) : i \in b[off + k]} : k \in 1 .. n}
  BY <1>1
<1> QED
  BY <1>2 DEF Read

(* The bits of a field.                                                    *)
LEMMA ReadBits ==
  ASSUME NEW b \in Seq(Byte), NEW off \in Nat, NEW n \in Nat, off + n <= Len(b)
  PROVE  /\ Read(b, off, n) \in SUBSET (0 .. 8 * n - 1)
         /\ \A k \in 1 .. n : \A i \in 0 .. 7 :
              i + 8 * (k - 1) \in Read(b, off, n) <=> i \in b[off + k]
<1>1. \A k \in 1 .. n : b[off + k] \subseteq 0 .. 7
  BY DEF Byte
<1>2. \A x : x \in Read(b, off, n) <=> \E k \in 1 .. n : \E i \in b[off + k] : x = i + 8 * (k - 1)
  BY DEF Read
<1>3. ASSUME NEW x \in Read(b, off, n) PROVE x \in 0 .. 8 * n - 1
  <2>1. PICK k \in 1 .. n : \E i \in b[off + k] : x = i + 8 * (k - 1)
    BY <1>2
  <2>2. PICK i \in 0 .. 7 : x = i + 8 * (k - 1)
    BY <1>1, <2>1
  <2> QED
    BY <2>2
<1>4. ASSUME NEW k \in 1 .. n, NEW i \in 0 .. 7, i + 8 * (k - 1) \in Read(b, off, n)
      PROVE  i \in b[off + k]
  <2>1. PICK m \in 1 .. n : \E j \in b[off + m] : i + 8 * (k - 1) = j + 8 * (m - 1)
    BY <1>2, <1>4, Zenon
  <2>2. PICK j \in 0 .. 7 : j \in b[off + m] /\ i + 8 * (k - 1) = j + 8 * (m - 1)
    <3>1. b[off + m] \subseteq 0 .. 7
      BY <1>1
    <3> QED
      BY <2>1, <3>1, Zenon
  <2>3. j = i /\ m = k
    <3>1. k \in Int /\ m \in Int /\ i - j = 8 * (m - k)
      BY <2>2
    <3>2. m - k = 0
      BY <3>1
    <3> QED
      BY <3>1, <3>2
  <2> QED
    BY <2>2, <2>3
<1>5. ASSUME NEW k \in 1 .. n, NEW i \in 0 .. 7, i \in b[off + k]
      PROVE  i + 8 * (k - 1) \in Read(b, off, n)
  BY <1>2, <1>5
<1> QED
  BY <1>3, <1>4, <1>5

(* What was written is read.                                               *)
LEMMA ReadWritten ==
  ASSUME NEW b \in Seq(Byte), NEW off \in Nat, NEW n \in Nat, off + n <= Len(b),
         NEW v \in SUBSET (0 .. 8 * n - 1)
  PROVE  Read(Write(b, off, n, v), off, n) = v
<1> DEFINE w == Write(b, off, n, v)
<1>1. w \in Seq(Byte) /\ Len(w) = Len(b)
  BY WriteType
<1>2. ASSUME NEW k \in 1 .. n PROVE w[off + k] = ByteOf(v, k - 1)
  <2>1. off + k \in 1 .. Len(b) /\ off + k \in off + 1 .. off + n /\ (off + k) - off - 1 = k - 1
    OBVIOUS
  <2> QED
    BY <2>1, WriteType
<1> HIDE DEF w
<1>3. Read(w, off, n) \in SUBSET (0 .. 8 * n - 1)
  BY <1>1, ReadBits
<1>4. ASSUME NEW x \in 0 .. 8 * n - 1 PROVE x \in Read(w, off, n) <=> x \in v
  <2> DEFINE k == (x \div 8) + 1
             i == x % 8
  <2>1. x \div 8 \in Nat /\ x = 8 * (x \div 8) + i /\ i \in 0 .. 7
    OBVIOUS
  <2>2. k \in 1 .. n /\ x = i + 8 * (k - 1)
    BY <2>1
  <2> HIDE DEF k, i
  <2>3. x \in Read(w, off, n) <=> i \in w[off + k]
    BY <1>1, <2>1, <2>2, ReadBits
  <2>4. i \in ByteOf(v, k - 1) <=> x \in v
    BY <2>1, <2>2 DEF ByteOf
  <2> QED
    BY <1>2, <2>2, <2>3, <2>4
<1> QED
  BY <1>3, <1>4 DEF w

(* A field beside the one written is as it was.                            *)
LEMMA ReadBeside ==
  ASSUME NEW b \in Seq(Byte), NEW off \in Nat, NEW n \in Nat, NEW v,
         NEW o \in Nat, NEW m \in Nat, o + m <= Len(b),
         o + m <= off \/ off + n <= o
  PROVE  Read(Write(b, off, n, v), o, m) = Read(b, o, m)
<1>1. ASSUME NEW i \in o + 1 .. o + m PROVE Write(b, off, n, v)[i] = b[i]
  <2>1. i \in 1 .. Len(b) /\ i \notin off + 1 .. off + n
    OBVIOUS
  <2> QED
    BY <2>1, WriteType
<1> QED
  BY <1>1, ReadSame DEF SameField

-----------------------------------------------------------------------------
(* The header and the checksum.                                            *)

(* The layout of the header (page.rs:7-15).                                *)
LEMMA Layout ==
  /\ OFF_MAGIC = 0 /\ OFF_VERSION = 4 /\ OFF_PAGE_ID = 8 /\ OFF_LSN = 16
  /\ OFF_CRC = 24 /\ PAGE_HEADER_SIZE = 32
  /\ MAGIC \in SUBSET (0 .. 8 * 4 - 1) /\ FORMAT_VERSION \in SUBSET (0 .. 8 * 2 - 1)
BY DEF OFF_MAGIC, OFF_VERSION, OFF_PAGE_ID, OFF_LSN, OFF_CRC, PAGE_HEADER_SIZE, MAGIC, FORMAT_VERSION

(* A block with room for a header and a superblock; one with the header of *)
(* a page.                                                                 *)
IsBlock(b) == b \in Seq(Byte) /\ Len(b) >= 64

HasHeader(b) ==
  Read(b, OFF_MAGIC, 4) = MAGIC /\ Read(b, OFF_VERSION, 2) = FORMAT_VERSION

(* A piece of a byte sequence.                                             *)
LEMMA PieceType ==
  ASSUME NEW a \in Seq(Byte), NEW m \in Nat, NEW n \in Nat, 1 <= m, n <= Len(a)
  PROVE  SubSeq(a, m, n) \in Seq(Byte)
OBVIOUS

(* The checksum is a u32.                                                  *)
LEMMA ChecksumType ==
  ASSUME NEW b, IsBlock(b)
  PROVE  compute_checksum(b) \in SUBSET (0 .. 8 * 4 - 1)
<1> DEFINE s == SubSeq(b, 1, OFF_CRC)
           t == SubSeq(b, OFF_CRC + 5, Len(b))
<1>1. s \in Seq(Byte) /\ t \in Seq(Byte)
  <2>1. /\ b \in Seq(Byte) /\ Len(b) \in Nat /\ Len(b) <= Len(b) /\ 24 <= Len(b)
        /\ 24 \in Nat /\ 29 \in Nat /\ 1 \in Nat /\ 1 <= 1 /\ 1 <= 29
    BY DEF IsBlock
  <2>2. OFF_CRC = 24 /\ OFF_CRC + 5 = 29
    BY DEF OFF_CRC
  <2>3. SubSeq(b, 1, 24) \in Seq(Byte) /\ SubSeq(b, 29, Len(b)) \in Seq(Byte)
    BY <2>1, PieceType
  <2> QED
    BY <2>2, <2>3
<1>2. MAX \in U32
  BY DEF MAX, U32
<1> HIDE DEF s, t
<1>3. process(process(MAX, s), t) \in U32
  BY <1>1, <1>2, ProcessType
<1>4. Xor(process(process(MAX, s), t), MAX) \in U32
  BY <1>2, <1>3, XorType DEF U32
<1>5. U32 = SUBSET (0 .. 8 * 4 - 1)
  BY DEF U32, Bit
<1> QED
  BY <1>4, <1>5 DEF compute_checksum, s, t

(* Pieces of equal bytes are equal.                                        *)
LEMMA SameBytes ==
  ASSUME NEW a \in Seq(Byte), NEW b \in Seq(Byte), NEW m \in Nat, NEW n \in Nat,
         1 <= m, n <= Len(a), n <= Len(b), \A i \in m .. n : a[i] = b[i]
  PROVE  SubSeq(a, m, n) = SubSeq(b, m, n)
BY SMTT(30)

(* It does not depend on its own field.                                    *)
LEMMA ChecksumSkipsItself ==
  ASSUME NEW a, NEW b, IsBlock(a), IsBlock(b), Len(a) = Len(b),
         \A i \in 1 .. Len(a) : i \notin 25 .. 28 => a[i] = b[i]
  PROVE  compute_checksum(a) = compute_checksum(b)
<1> DEFINE N == Len(a)
<1>1. a \in Seq(Byte) /\ b \in Seq(Byte) /\ N = Len(b) /\ N \in Nat /\ N >= 64
  BY DEF IsBlock
<1> HIDE DEF N
<1>2. SubSeq(a, 1, 24) = SubSeq(b, 1, 24) /\ SubSeq(a, 29, N) = SubSeq(b, 29, N)
  <2>1. N = Len(a) /\ \A i \in 1 .. N : i \notin 25 .. 28 => a[i] = b[i]
    BY DEF N
  <2>2. ASSUME NEW i \in 1 .. 24 PROVE a[i] = b[i]
    <3>1. i \in 1 .. N /\ i \notin 25 .. 28
      BY <1>1
    <3> QED
      BY <2>1, <3>1
  <2>3. ASSUME NEW i \in 29 .. N PROVE a[i] = b[i]
    <3>1. i \in 1 .. N /\ i \notin 25 .. 28
      BY <1>1
    <3> QED
      BY <2>1, <3>1
  <2>4. 24 <= Len(a) /\ 24 <= Len(b) /\ N <= Len(a) /\ N <= Len(b)
    BY <1>1, <2>1
  <2>5. SubSeq(a, 1, 24) = SubSeq(b, 1, 24)
    BY <1>1, <2>2, <2>4, SameBytes
  <2>6. SubSeq(a, 29, N) = SubSeq(b, 29, N)
    BY <1>1, <2>3, <2>4, SameBytes
  <2> QED
    BY <2>5, <2>6
<1>3. OFF_CRC = 24 /\ OFF_CRC + 5 = 29
  BY Layout
<1> QED
  BY <1>1, <1>2, <1>3 DEF compute_checksum, N

(* A sealed block is the block with the right checksum.                    *)
LEMMA SealedBlock ==
  ASSUME NEW b, IsBlock(b)
  PROVE  /\ IsBlock(Sealed(b)) /\ Len(Sealed(b)) = Len(b)
         /\ \A i \in 1 .. Len(b) : i \notin 25 .. 28 => Sealed(b)[i] = b[i]
         /\ Read(Sealed(b), OFF_CRC, 4) = compute_checksum(Sealed(b))
         /\ \A o, m \in Nat : o + m <= Len(b) /\ (o + m <= 24 \/ 28 <= o)
                                => Read(Sealed(b), o, m) = Read(b, o, m)
<1> DEFINE c == compute_checksum(b)
           s == Write(b, 24, 4, c)
<1>1. Sealed(b) = s
  BY Layout DEF Sealed
<1>2. b \in Seq(Byte) /\ Len(b) >= 64 /\ Len(b) \in Nat
  BY DEF IsBlock
<1>3. c \in SUBSET (0 .. 8 * 4 - 1)
  BY ChecksumType
<1> HIDE DEF c
<1>4. s \in Seq(Byte) /\ Len(s) = Len(b)
  BY <1>2, WriteType
<1>5. ASSUME NEW i \in 1 .. Len(b), i \notin 25 .. 28 PROVE s[i] = b[i]
  <2>1. i \notin 24 + 1 .. 24 + 4
    BY <1>5
  <2> QED
    BY <1>2, <2>1, WriteType
<1>6. Read(s, 24, 4) = c
  <2>1. 24 \in Nat /\ 4 \in Nat /\ 24 + 4 <= Len(b)
    BY <1>2
  <2> QED
    BY <1>2, <1>3, <2>1, ReadWritten, Zenon
<1>7. compute_checksum(s) = c
  <2> HIDE DEF s
  <2>1. IsBlock(s)
    BY <1>2, <1>4 DEF IsBlock
  <2>2. compute_checksum(s) = compute_checksum(b)
    BY <1>4, <1>5, <2>1, ChecksumSkipsItself
  <2> QED
    BY <2>2 DEF c
<1>8. \A o, m \in Nat : o + m <= Len(b) /\ (o + m <= 24 \/ 24 + 4 <= o)
                          => Read(s, o, m) = Read(b, o, m)
  BY <1>2, ReadBeside
<1>9. 24 + 4 = 28
  OBVIOUS
<1> HIDE DEF s
<1> QED
  BY <1>1, <1>2, <1>4, <1>5, <1>6, <1>7, <1>8, <1>9, Layout DEF IsBlock

(* A sealed block with a good header passes, and is the same page.         *)
LEMMA SealedVerifies ==
  ASSUME NEW b, IsBlock(b), HasHeader(b), NEW e, e \in {AnyId, id(b)}
  PROVE  /\ verify(Sealed(b), e) = "Ok" /\ HasHeader(Sealed(b))
         /\ id(Sealed(b)) = id(b) /\ lsn(Sealed(b)) = lsn(b)
         /\ payload(Sealed(b)) = payload(b)
<1> DEFINE s == Sealed(b)
<1>1. /\ IsBlock(s) /\ Len(s) = Len(b)
      /\ \A i \in 1 .. Len(b) : i \notin 25 .. 28 => s[i] = b[i]
      /\ Read(s, OFF_CRC, 4) = compute_checksum(s)
  BY SealedBlock
<1>2. \A o, m \in Nat : o + m <= Len(b) /\ (o + m <= 24 \/ 28 <= o)
                          => Read(s, o, m) = Read(b, o, m)
  BY SealedBlock
<1>3. Len(b) \in Nat /\ Len(b) >= 64
  BY DEF IsBlock
<1> HIDE DEF s
<1>4. /\ Read(s, 0, 4) = Read(b, 0, 4) /\ Read(s, 4, 2) = Read(b, 4, 2)
      /\ Read(s, 8, 8) = Read(b, 8, 8) /\ Read(s, 16, 8) = Read(b, 16, 8)
  BY <1>2, <1>3
<1>5. HasHeader(s) /\ id(s) = id(b) /\ lsn(s) = lsn(b)
  BY <1>4, Layout DEF HasHeader, id, lsn
<1>6. payload(s) = payload(b)
  <2>1. SubSeq(s, 33, Len(s)) = SubSeq(b, 33, Len(b))
    BY <1>1, <1>3 DEF IsBlock
  <2>2. PAGE_HEADER_SIZE + 1 = 33
    BY Layout
  <2> QED
    BY <2>1, <2>2 DEF payload
<1>7. verify(s, e) = "Ok"
  BY <1>1, <1>5 DEF verify, HasHeader
<1> QED
  BY <1>5, <1>6, <1>7 DEF s

(* Page::new, reset and stamp put the header there, and touch nothing else. *)
LEMMA HeaderWritten ==
  ASSUME NEW b, IsBlock(b)
  PROVE  /\ IsBlock(WithHeader(b)) /\ Len(WithHeader(b)) = Len(b)
         /\ HasHeader(WithHeader(b))
         /\ \A o, m \in Nat : o + m <= Len(b) /\ 6 <= o
                                => Read(WithHeader(b), o, m) = Read(b, o, m)
<1> DEFINE x == Write(b, 0, 4, MAGIC)
           w == Write(x, 4, 2, FORMAT_VERSION)
<1>1. WithHeader(b) = w
  BY Layout DEF WithHeader
<1>2. b \in Seq(Byte) /\ Len(b) \in Nat /\ Len(b) >= 64
  BY DEF IsBlock
<1>3. x \in Seq(Byte) /\ Len(x) = Len(b)
  BY <1>2, WriteType
<1>4. Read(x, 0, 4) = MAGIC
  <2>1. 0 \in Nat /\ 4 \in Nat /\ 0 + 4 <= Len(b)
    BY <1>2
  <2> QED
    BY <1>2, <2>1, Layout, ReadWritten, Zenon
<1>5. \A o, m \in Nat : o + m <= Len(b) /\ 6 <= o => Read(x, o, m) = Read(b, o, m)
  <2>1. \A o \in Nat : 6 <= o => 0 + 4 <= o
    OBVIOUS
  <2> QED
    BY <1>2, <2>1, ReadBeside
<1> HIDE DEF x
<1>6. w \in Seq(Byte) /\ Len(w) = Len(b)
  BY <1>3, WriteType
<1>7. Read(w, 4, 2) = FORMAT_VERSION
  <2>1. 4 \in Nat /\ 2 \in Nat /\ 4 + 2 <= Len(x)
    BY <1>2, <1>3
  <2> QED
    BY <1>3, <2>1, Layout, ReadWritten, Zenon
<1>8. Read(w, 0, 4) = Read(x, 0, 4)
  <2>1. 4 \in Nat /\ 2 \in Nat /\ 0 \in Nat /\ 0 + 4 <= Len(x) /\ 0 + 4 <= 4
    BY <1>2, <1>3
  <2> QED
    BY <1>3, <2>1, ReadBeside
<1>9. \A o, m \in Nat : o + m <= Len(b) /\ 6 <= o => Read(w, o, m) = Read(x, o, m)
  <2>1. \A o \in Nat : 6 <= o => 4 + 2 <= o
    OBVIOUS
  <2> QED
    BY <1>3, <2>1, ReadBeside
<1> HIDE DEF w
<1>10. HasHeader(w)
  BY <1>4, <1>7, <1>8, Layout DEF HasHeader
<1> QED
  BY <1>1, <1>2, <1>5, <1>6, <1>9, <1>10 DEF IsBlock

(* A field other than the header's magic and version leaves the header.    *)
LEMMA HeaderKept ==
  ASSUME NEW b, IsBlock(b), HasHeader(b), NEW off \in Nat, NEW n \in Nat, 6 <= off, NEW v
  PROVE  LET w == Write(b, off, n, v)
         IN  IsBlock(w) /\ Len(w) = Len(b) /\ HasHeader(w)
<1> DEFINE w == Write(b, off, n, v)
<1>1. b \in Seq(Byte) /\ Len(b) \in Nat /\ Len(b) >= 64
  BY DEF IsBlock
<1>2. w \in Seq(Byte) /\ Len(w) = Len(b)
  BY <1>1, WriteType
<1>3. Read(w, 0, 4) = Read(b, 0, 4)
  <2>1. 0 + 4 <= Len(b) /\ 0 + 4 <= off
    BY <1>1
  <2> QED
    BY <1>1, <2>1, ReadBeside
<1>4. Read(w, 4, 2) = Read(b, 4, 2)
  <2>1. 4 + 2 <= Len(b) /\ 4 + 2 <= off
    BY <1>1
  <2> QED
    BY <1>1, <2>1, ReadBeside
<1> HIDE DEF w
<1>5. IsBlock(w) /\ Len(w) = Len(b) /\ HasHeader(w)
  BY <1>1, <1>2, <1>3, <1>4, Layout DEF IsBlock, HasHeader
<1> QED
  BY <1>5 DEF w

(* A stamped block passes at its slot, with its payload.                   *)
LEMMA StampVerifies ==
  ASSUME NEW b, IsBlock(b), NEW i \in SUBSET (0 .. 63)
  PROVE  LET s == stamp(b, i)
         IN  /\ IsBlock(s) /\ Len(s) = Len(b) /\ HasHeader(s) /\ id(s) = i
             /\ Read(s, OFF_CRC, 4) = compute_checksum(s)
             /\ verify(s, i) = "Ok"
             /\ \A o, m \in Nat : o + m <= Len(b) /\ 28 <= o => Read(s, o, m) = Read(b, o, m)
<1> DEFINE h == WithHeader(b)
           w == Write(h, 8, 8, i)
           s == Sealed(w)
<1>1. stamp(b, i) = s
  BY Layout DEF stamp
<1>2. IsBlock(h) /\ Len(h) = Len(b) /\ HasHeader(h) /\ Len(b) \in Nat /\ Len(b) >= 64
  BY HeaderWritten DEF IsBlock
<1>3. \A o, m \in Nat : o + m <= Len(b) /\ 28 <= o => Read(h, o, m) = Read(b, o, m)
  <2>1. \A o \in Nat : 28 <= o => 6 <= o
    OBVIOUS
  <2> QED
    BY <2>1, HeaderWritten
<1> HIDE DEF h
<1>4. IsBlock(w) /\ Len(w) = Len(b) /\ HasHeader(w)
  BY <1>2, HeaderKept
<1>5. id(w) = i
  <2>1. h \in Seq(Byte) /\ 8 \in Nat /\ 8 + 8 <= Len(h) /\ i \in SUBSET (0 .. 8 * 8 - 1)
    BY <1>2 DEF IsBlock
  <2>2. Read(w, 8, 8) = i
    BY <2>1, ReadWritten, Zenon
  <2> QED
    BY <2>2, Layout DEF id
<1>6. \A o, m \in Nat : o + m <= Len(b) /\ 28 <= o => Read(w, o, m) = Read(h, o, m)
  <2>1. \A o \in Nat : 28 <= o => 8 + 8 <= o
    OBVIOUS
  <2> QED
    BY <1>2, <2>1, ReadBeside DEF IsBlock
<1> HIDE DEF w
<1>7. verify(s, i) = "Ok" /\ HasHeader(s) /\ id(s) = i
  BY <1>4, <1>5, SealedVerifies
<1>8. IsBlock(s) /\ Len(s) = Len(b) /\ Read(s, OFF_CRC, 4) = compute_checksum(s)
  BY <1>4, SealedBlock
<1>9. \A o, m \in Nat : o + m <= Len(b) /\ 28 <= o => Read(s, o, m) = Read(w, o, m)
  BY <1>4, SealedBlock
<1> HIDE DEF s
<1>10. \A o, m \in Nat : o + m <= Len(b) /\ 28 <= o => Read(s, o, m) = Read(b, o, m)
  BY <1>3, <1>6, <1>9
<1> QED
  BY <1>1, <1>7, <1>8, <1>10

(* A new page is a block with a header.                                    *)
LEMMA NewPage ==
  ASSUME NEW size \in Nat, size >= 64
  PROVE  IsBlock(new(size)) /\ Len(new(size)) = size /\ HasHeader(new(size))
<1>1. IsBlock(Zeros(size)) /\ Len(Zeros(size)) = size
  BY ZerosType DEF IsBlock
<1> QED
  BY <1>1, HeaderWritten DEF new, new_zeroed

(* A superblock that was stamped is read as it was written: its fields lie *)
(* side by side (alloc.rs).                                                *)
LEMMA SuperblockParses ==
  ASSUME NEW size \in Nat, size >= 64,
         NEW h \in SUBSET (0 .. 63), NEW n \in SUBSET (0 .. 63), NEW c \in SUBSET (0 .. 63),
         n # {}
  PROVE  Parsed(stamp(superblock(size, h, n, c), {})) = <<h, n, c>>
<1> DEFINE w0 == new(size)
           w1 == Write(w0, 32, 4, SB_MAGIC)
           w2 == Write(w1, 36, 2, SB_VERSION)
           w3 == Write(w2, 40, 8, h)
           w4 == Write(w3, 48, 8, n)
           w5 == Write(w4, 56, 8, c)
           s  == stamp(w5, {})
<1>1. superblock(size, h, n, c) = w5
  <2>1. /\ PAGE_HEADER_SIZE + SB_MAGIC_OFF = 32 /\ PAGE_HEADER_SIZE + SB_VERSION_OFF = 36
        /\ PAGE_HEADER_SIZE + SB_HEAD_OFF = 40 /\ PAGE_HEADER_SIZE + SB_NEXT_OFF = 48
        /\ PAGE_HEADER_SIZE + SB_FREECOUNT_OFF = 56
    BY DEF PAGE_HEADER_SIZE, SB_MAGIC_OFF, SB_VERSION_OFF, SB_HEAD_OFF, SB_NEXT_OFF, SB_FREECOUNT_OFF
  <2> QED
    BY <2>1 DEF superblock, put
<1>2. /\ \A m \in Nat : field(s, SB_MAGIC_OFF, m) = Read(s, 32, m)
      /\ \A m \in Nat : field(s, SB_VERSION_OFF, m) = Read(s, 36, m)
      /\ \A m \in Nat : field(s, SB_HEAD_OFF, m) = Read(s, 40, m)
      /\ \A m \in Nat : field(s, SB_NEXT_OFF, m) = Read(s, 48, m)
      /\ \A m \in Nat : field(s, SB_FREECOUNT_OFF, m) = Read(s, 56, m)
  <2> HIDE DEF s
  <2> QED
    BY DEF field, PAGE_HEADER_SIZE, SB_MAGIC_OFF, SB_VERSION_OFF, SB_HEAD_OFF, SB_NEXT_OFF, SB_FREECOUNT_OFF
<1>3. SB_MAGIC \in SUBSET (0 .. 8 * 4 - 1) /\ SB_VERSION \in SUBSET (0 .. 8 * 2 - 1)
  BY DEF SB_MAGIC, SB_VERSION
<1>4. \A v \in SUBSET (0 .. 63) : v \in SUBSET (0 .. 8 * 8 - 1)
  OBVIOUS
<1>5. w0 \in Seq(Byte) /\ Len(w0) = size
  BY NewPage DEF IsBlock
<1> HIDE DEF w0
<1>6. w1 \in Seq(Byte) /\ Len(w1) = size /\ Read(w1, 32, 4) = SB_MAGIC
  <2>1. 32 + 4 <= Len(w0)
    BY <1>5
  <2>2. w1 \in Seq(Byte) /\ Len(w1) = size
    BY <1>5, WriteType
  <2>3. Read(w1, 32, 4) = SB_MAGIC
    <3>1. /\ w0 \in Seq(Byte) /\ 32 \in Nat /\ 4 \in Nat /\ 32 + 4 <= Len(w0)
          /\ SB_MAGIC \in SUBSET (0 .. 8 * 4 - 1)
      BY <1>3, <1>5, <2>1
    <3> QED
      BY <3>1, ReadWritten, Zenon
  <2> QED
    BY <2>2, <2>3
<1> HIDE DEF w1
<1>7. /\ w2 \in Seq(Byte) /\ Len(w2) = size /\ Read(w2, 36, 2) = SB_VERSION
      /\ Read(w2, 32, 4) = SB_MAGIC
  <2>1. 36 + 2 <= Len(w1) /\ 32 + 4 <= 36 /\ 32 + 4 <= Len(w1)
    BY <1>6
  <2>2. w2 \in Seq(Byte) /\ Len(w2) = size
    <3>1. w1 \in Seq(Byte) /\ 36 \in Nat /\ 2 \in Nat /\ Len(w1) = size
      BY <1>6
    <3>2. w2 \in Seq(Byte) /\ Len(w2) = Len(w1)
      BY <3>1, WriteLength
    <3> QED
      BY <3>1, <3>2, Zenon
  <2>3. Read(w2, 36, 2) = SB_VERSION
    <3>1. /\ w1 \in Seq(Byte) /\ 36 \in Nat /\ 2 \in Nat /\ 36 + 2 <= Len(w1)
          /\ SB_VERSION \in SUBSET (0 .. 8 * 2 - 1)
      BY <1>3, <1>6, <2>1
    <3> QED
      BY <3>1, ReadWritten, Zenon
  <2>4. Read(w2, 32, 4) = Read(w1, 32, 4)
    BY <1>6, <2>1, ReadBeside
  <2> QED
    BY <1>6, <2>2, <2>3, <2>4
<1> HIDE DEF w2
<1>8. /\ w3 \in Seq(Byte) /\ Len(w3) = size /\ Read(w3, 40, 8) = h
      /\ Read(w3, 32, 4) = SB_MAGIC /\ Read(w3, 36, 2) = SB_VERSION
  <2>1. /\ 40 + 8 <= Len(w2) /\ 32 + 4 <= 40 /\ 32 + 4 <= Len(w2)
        /\ 36 + 2 <= 40 /\ 36 + 2 <= Len(w2)
    BY <1>7
  <2>2. w3 \in Seq(Byte) /\ Len(w3) = size
    <3>1. w2 \in Seq(Byte) /\ 40 \in Nat /\ 8 \in Nat /\ Len(w2) = size
      BY <1>7
    <3>2. w3 \in Seq(Byte) /\ Len(w3) = Len(w2)
      BY <3>1, WriteLength
    <3> QED
      BY <3>1, <3>2, Zenon
  <2>3. Read(w3, 40, 8) = h
    <3>1. /\ w2 \in Seq(Byte) /\ 40 \in Nat /\ 8 \in Nat /\ 40 + 8 <= Len(w2)
          /\ h \in SUBSET (0 .. 8 * 8 - 1)
      BY <1>4, <1>7, <2>1
    <3> QED
      BY <3>1, ReadWritten, Zenon
  <2>4. Read(w3, 32, 4) = Read(w2, 32, 4) /\ Read(w3, 36, 2) = Read(w2, 36, 2)
    BY <1>7, <2>1, ReadBeside
  <2> QED
    BY <1>7, <2>2, <2>3, <2>4
<1> HIDE DEF w3
<1>9. /\ w4 \in Seq(Byte) /\ Len(w4) = size /\ Read(w4, 48, 8) = n /\ Read(w4, 40, 8) = h
      /\ Read(w4, 32, 4) = SB_MAGIC /\ Read(w4, 36, 2) = SB_VERSION
  <2>1. /\ 48 + 8 <= Len(w3) /\ 32 + 4 <= 48 /\ 32 + 4 <= Len(w3)
        /\ 36 + 2 <= 48 /\ 36 + 2 <= Len(w3) /\ 40 + 8 <= 48 /\ 40 + 8 <= Len(w3)
    BY <1>8
  <2>2. w4 \in Seq(Byte) /\ Len(w4) = size
    <3>1. w3 \in Seq(Byte) /\ 48 \in Nat /\ 8 \in Nat /\ Len(w3) = size
      BY <1>8
    <3>2. w4 \in Seq(Byte) /\ Len(w4) = Len(w3)
      BY <3>1, WriteLength
    <3> QED
      BY <3>1, <3>2, Zenon
  <2>3. Read(w4, 48, 8) = n
    <3>1. /\ w3 \in Seq(Byte) /\ 48 \in Nat /\ 8 \in Nat /\ 48 + 8 <= Len(w3)
          /\ n \in SUBSET (0 .. 8 * 8 - 1)
      BY <1>4, <1>8, <2>1
    <3> QED
      BY <3>1, ReadWritten, Zenon
  <2>4. /\ Read(w4, 32, 4) = Read(w3, 32, 4) /\ Read(w4, 36, 2) = Read(w3, 36, 2)
        /\ Read(w4, 40, 8) = Read(w3, 40, 8)
    BY <1>8, <2>1, ReadBeside
  <2> QED
    BY <1>8, <2>2, <2>3, <2>4
<1> HIDE DEF w4
<1>10. /\ w5 \in Seq(Byte) /\ Len(w5) = size /\ Read(w5, 56, 8) = c
       /\ Read(w5, 48, 8) = n /\ Read(w5, 40, 8) = h
       /\ Read(w5, 32, 4) = SB_MAGIC /\ Read(w5, 36, 2) = SB_VERSION
  <2>1. /\ 56 + 8 <= Len(w4) /\ 32 + 4 <= 56 /\ 32 + 4 <= Len(w4)
        /\ 36 + 2 <= 56 /\ 36 + 2 <= Len(w4) /\ 40 + 8 <= 56 /\ 40 + 8 <= Len(w4)
        /\ 48 + 8 <= 56 /\ 48 + 8 <= Len(w4)
    BY <1>9
  <2>2. w5 \in Seq(Byte) /\ Len(w5) = size
    <3>1. w4 \in Seq(Byte) /\ 56 \in Nat /\ 8 \in Nat /\ Len(w4) = size
      BY <1>9
    <3>2. w5 \in Seq(Byte) /\ Len(w5) = Len(w4)
      BY <3>1, WriteLength
    <3> QED
      BY <3>1, <3>2, Zenon
  <2>3. Read(w5, 56, 8) = c
    <3>1. /\ w4 \in Seq(Byte) /\ 56 \in Nat /\ 8 \in Nat /\ 56 + 8 <= Len(w4)
          /\ c \in SUBSET (0 .. 8 * 8 - 1)
      BY <1>4, <1>9, <2>1
    <3> QED
      BY <3>1, ReadWritten, Zenon
  <2>4. /\ Read(w5, 32, 4) = Read(w4, 32, 4) /\ Read(w5, 36, 2) = Read(w4, 36, 2)
        /\ Read(w5, 40, 8) = Read(w4, 40, 8) /\ Read(w5, 48, 8) = Read(w4, 48, 8)
    BY <1>9, <2>1, ReadBeside
  <2> QED
    BY <1>9, <2>2, <2>3, <2>4
<1> HIDE DEF w5
<1>11. IsBlock(w5) /\ {} \in SUBSET (0 .. 63)
  BY <1>10 DEF IsBlock
<1>12. \A o, m \in Nat : o + m <= size /\ 28 <= o => Read(s, o, m) = Read(w5, o, m)
  BY <1>10, <1>11, StampVerifies
<1>13. /\ Read(s, 32, 4) = SB_MAGIC /\ Read(s, 36, 2) = SB_VERSION
       /\ Read(s, 40, 8) = h /\ Read(s, 48, 8) = n /\ Read(s, 56, 8) = c
  BY <1>10, <1>12
<1> HIDE DEF s
<1>14. Parsed(s) = <<h, n, c>>
  BY <1>2, <1>13 DEF Parsed
<1> QED
  BY <1>1, <1>14 DEF s

(* Everything RoundTrips says of a page holds of any block with a header.  *)
LEMMA BlockRoundTrips ==
  ASSUME IsBlock(page), HasHeader(page)
  PROVE  RoundTrips
<1> DEFINE b == to_checksummed_bytes(page)
<1>1. /\ verify(b, AnyId) = "Ok"
      /\ id(b) = id(page) /\ lsn(b) = lsn(page) /\ payload(b) = payload(page)
  BY SealedVerifies DEF to_checksummed_bytes
<1>2. Len(b) = Len(page)
  BY SealedBlock DEF to_checksummed_bytes
<1> HIDE DEF b
<1>3. from_bytes(Len(page), b) = "Ok"
  BY <1>1, <1>2 DEF from_bytes
<1>4. ASSUME NEW i \in Ids PROVE verify(stamp(page, i), i) = "Ok"
  BY FormatAssumption, StampVerifies
<1>5. ASSUME NEW h \in Ids, NEW c \in Ids, NEW n \in Lsns \ {{}}
      PROVE  Parsed(stamp(superblock(Len(page), h, n, c), {})) = <<h, n, c>>
  <2>1. /\ h \in SUBSET (0 .. 63) /\ c \in SUBSET (0 .. 63) /\ n \in SUBSET (0 .. 63) /\ n # {}
        /\ Len(page) \in Nat /\ Len(page) >= 64
    BY FormatAssumption DEF IsBlock
  <2> QED
    BY <2>1, SuperblockParses
<1> QED
  BY <1>1, <1>3, <1>4, <1>5 DEF RoundTrips, b

-----------------------------------------------------------------------------
(* Damage.                                                                 *)

(* Damage to one byte of a message of four bytes or more is noticed.       *)
LEMMA OneByteIsDetected ==
  ASSUME NEW c \in U32, NEW a \in Seq(Byte), NEW b \in Seq(Byte),
         Len(a) = Len(b), Len(a) >= 4, NEW p \in 1 .. Len(a), a[p] # b[p],
         \A n \in 1 .. Len(a) : n # p => a[n] = b[n]
  PROVE  process(c, a) # process(c, b)
<1> DEFINE N == Len(a)
           i == IF p <= N - 3 THEN p - 1 ELSE N - 4
<1>1. N \in Nat /\ N >= 4
  OBVIOUS
<1>2. i \in Nat /\ i + 4 <= N /\ p \in i + 1 .. i + 4
  BY <1>1
<1> HIDE DEF i
<1>3. a # b
  OBVIOUS
<1>4. \A n \in 1 .. Len(a) : n \notin i + 1 .. i + 4 => a[n] = b[n]
  BY <1>2
<1> QED
  BY <1>2, <1>3, <1>4, BurstsAreDetected

(* A flipped bit changes the field it is in, and no other.                 *)
LEMMA FlippedField ==
  ASSUME NEW b \in Seq(Byte), NEW k \in 0 .. 8 * Len(b) - 1,
         NEW off \in Nat, NEW n \in Nat, off + n <= Len(b)
  PROVE  (Read(Flip(b, k), off, n) = Read(b, off, n)) <=> (k \div 8) + 1 \notin off + 1 .. off + n
<1> DEFINE p == (k \div 8) + 1
           i == k % 8
           f == Flip(b, k)
<1>1. /\ f \in Seq(Byte) /\ Len(f) = Len(b) /\ p \in 1 .. Len(b) /\ i \in 0 .. 7
      /\ \A j \in 1 .. Len(b) : f[j] = IF j = p THEN Xor(b[j], {i}) ELSE b[j]
  BY FlipType
<1> HIDE DEF p, i, f
<1>2. ASSUME p \notin off + 1 .. off + n PROVE Read(f, off, n) = Read(b, off, n)
  <2>1. ASSUME NEW j \in off + 1 .. off + n PROVE f[j] = b[j]
    <3>1. j \in 1 .. Len(b) /\ j # p
      BY <1>2
    <3> QED
      BY <1>1, <3>1
  <2>2. SameField(f, b, off, n)
    BY <2>1, Zenon DEF SameField
  <2> QED
    BY <2>2, ReadSame
<1>3. ASSUME p \in off + 1 .. off + n PROVE Read(f, off, n) # Read(b, off, n)
  <2> DEFINE q == p - off
  <2>1. q \in 1 .. n /\ off + q = p
    BY <1>1, <1>3
  <2> HIDE DEF q
  <2>2. i + 8 * (q - 1) \in Read(f, off, n) <=> i \in f[off + q]
    BY <1>1, <2>1, ReadBits
  <2>3. i + 8 * (q - 1) \in Read(b, off, n) <=> i \in b[off + q]
    BY <1>1, <2>1, ReadBits
  <2>4. f[p] = Xor(b[p], {i})
    BY <1>1
  <2>5. i \in f[p] <=> i \notin b[p]
    BY <2>4 DEF Xor
  <2> QED
    BY <2>1, <2>2, <2>3, <2>5
<1> QED
  BY <1>2, <1>3 DEF p, f

(* A flipped bit outside the checksum changes the checksum.                *)
LEMMA FlippedChecksum ==
  ASSUME NEW b, IsBlock(b), NEW k \in 0 .. 8 * Len(b) - 1
  PROVE  compute_checksum(Flip(b, k)) = compute_checksum(b) <=> (k \div 8) + 1 \in 25 .. 28
<1> DEFINE p == (k \div 8) + 1
           f == Flip(b, k)
           N == Len(b)
           x(d) == process(MAX, SubSeq(d, 1, 24))
           y(d) == process(x(d), SubSeq(d, 29, N))
<1>1. b \in Seq(Byte) /\ N \in Nat /\ N >= 64
  BY DEF IsBlock
<1>2. /\ f \in Seq(Byte) /\ Len(f) = N /\ p \in 1 .. N
      /\ \A j \in 1 .. N : f[j] = IF j = p THEN Xor(b[j], {k % 8}) ELSE b[j]
  BY <1>1, FlipType
<1>3. f[p] # b[p]
  BY <1>2 DEF Xor
<1>4. \A j \in 1 .. N : j # p => f[j] = b[j]
  BY <1>2
<1>5. compute_checksum(b) = Xor(y(b), MAX) /\ compute_checksum(f) = Xor(y(f), MAX)
  <2>1. OFF_CRC = 24 /\ OFF_CRC + 5 = 29
    BY Layout
  <2> HIDE DEF f
  <2> QED
    BY <1>2, <2>1 DEF compute_checksum
<1>6. MAX \in U32
  BY DEF MAX, U32
<1> HIDE DEF f, p, N
<1>7. ASSUME p \in 25 .. 28 PROVE compute_checksum(f) = compute_checksum(b)
  <2>1. IsBlock(f)
    BY <1>1, <1>2 DEF IsBlock, N
  <2>2. \A i \in 1 .. Len(f) : i \notin 25 .. 28 => f[i] = b[i]
    BY <1>2, <1>4, <1>7
  <2> QED
    BY <1>2, <2>1, <2>2, ChecksumSkipsItself DEF N
<1>8. ASSUME NEW d \in Seq(Byte), Len(d) = N
      PROVE  /\ SubSeq(d, 1, 24) \in Seq(Byte) /\ Len(SubSeq(d, 1, 24)) = 24
             /\ \A j \in 1 .. 24 : SubSeq(d, 1, 24)[j] = d[j]
             /\ SubSeq(d, 29, N) \in Seq(Byte) /\ Len(SubSeq(d, 29, N)) = N - 28
             /\ \A j \in 1 .. N - 28 : SubSeq(d, 29, N)[j] = d[j + 28]
  <2>1. 24 \in Nat /\ 29 \in Nat /\ 1 \in Nat /\ 1 <= 1 /\ 1 <= 29 /\ 24 <= Len(d) /\ N <= Len(d)
    BY <1>1, <1>8
  <2>2. SubSeq(d, 1, 24) \in Seq(Byte) /\ SubSeq(d, 29, N) \in Seq(Byte)
    BY <1>1, <2>1, PieceType, Zenon
  <2>3. Len(SubSeq(d, 1, 24)) = 24 /\ Len(SubSeq(d, 29, N)) = N - 28
    BY <1>1, <1>8
  <2>4. \A j \in 1 .. 24 : SubSeq(d, 1, 24)[j] = d[j]
    BY <1>1, <1>8
  <2>5. \A j \in 1 .. N - 28 : SubSeq(d, 29, N)[j] = d[j + 28]
    BY <1>1, <1>8
  <2> QED
    BY <2>2, <2>3, <2>4, <2>5
<1>9. x(f) \in U32 /\ x(b) \in U32
  BY <1>1, <1>2, <1>6, <1>8, ProcessType DEF N
<1>10. ASSUME p \in 1 .. 24 PROVE y(f) # y(b)
  <2>1. x(f) # x(b)
    <3> DEFINE u == SubSeq(f, 1, 24)
               v == SubSeq(b, 1, 24)
    <3>1. /\ u \in Seq(Byte) /\ v \in Seq(Byte) /\ Len(u) = 24 /\ Len(v) = 24
          /\ \A j \in 1 .. 24 : u[j] = f[j] /\ v[j] = b[j]
      BY <1>1, <1>2, <1>8 DEF N
    <3> HIDE DEF u, v
    <3>2. u[p] # v[p]
      BY <1>3, <1>10, <3>1
    <3>3. \A j \in 1 .. 24 : j # p => u[j] = v[j]
      <4>1. \A j \in 1 .. 24 : j \in 1 .. N
        BY <1>1
      <4> QED
        BY <1>4, <3>1, <4>1
    <3>4. process(MAX, u) # process(MAX, v)
      <4>1. 24 = Len(u) /\ Len(u) = Len(v) /\ Len(u) >= 4 /\ p \in 1 .. Len(u)
        BY <1>10, <3>1
      <4>2. \A j \in 1 .. Len(u) : j # p => u[j] = v[j]
        BY <3>3, <4>1
      <4> QED
        BY <1>6, <3>1, <3>2, <4>1, <4>2, OneByteIsDetected, Zenon
    <3> QED
      BY <3>4, Zenon DEF u, v
  <2>2. SubSeq(f, 29, N) = SubSeq(b, 29, N)
    <3>1. ASSUME NEW j \in 29 .. N PROVE f[j] = b[j]
      <4>1. j \in 1 .. N /\ j # p
        BY <1>1, <1>10
      <4> QED
        BY <1>4, <4>1
    <3>2. 29 \in Nat /\ 1 <= 29 /\ N <= Len(f) /\ N <= Len(b)
      BY <1>1, <1>2 DEF N
    <3> QED
      BY <1>1, <1>2, <3>1, <3>2, SameBytes
  <2>3. SubSeq(b, 29, N) \in Seq(Byte)
    BY <1>1, <1>8 DEF N
  <2> DEFINE r == SubSeq(b, 29, N)
             xf == x(f)
             xb == x(b)
  <2>4. r \in Seq(Byte) /\ xf \in U32 /\ xb \in U32 /\ xf # xb
    BY <1>9, <2>1, <2>3
  <2>5. y(f) = process(xf, r) /\ y(b) = process(xb, r)
    BY <2>2
  <2> HIDE DEF r, xf, xb, y
  <2>6. process(xf, r) # process(xb, r)
    BY <2>4, ProcessInjective, Zenon
  <2> QED
    BY <2>5, <2>6, Zenon
<1>11. ASSUME p \in 29 .. N PROVE y(f) # y(b)
  <2>1. x(f) = x(b)
    <3>1. \A j \in 1 .. 24 : f[j] = b[j]
      BY <1>1, <1>4, <1>11
    <3>2. SubSeq(f, 1, 24) = SubSeq(b, 1, 24)
      <4>1. 1 \in Nat /\ 24 \in Nat /\ 1 <= 1 /\ 24 <= Len(f) /\ 24 <= Len(b)
        BY <1>1, <1>2 DEF N
      <4> QED
        BY <1>1, <1>2, <3>1, <4>1, SameBytes, Zenon
    <3> QED
      BY <3>2
  <2> DEFINE u == SubSeq(f, 29, N)
             v == SubSeq(b, 29, N)
  <2>2. /\ u \in Seq(Byte) /\ v \in Seq(Byte) /\ Len(u) = N - 28 /\ Len(v) = N - 28
        /\ \A j \in 1 .. N - 28 : u[j] = f[j + 28] /\ v[j] = b[j + 28]
    <3>1. f \in Seq(Byte) /\ Len(f) = N /\ b \in Seq(Byte) /\ Len(b) = N
      BY <1>1, <1>2 DEF N
    <3>2. u \in Seq(Byte) /\ Len(u) = N - 28 /\ \A j \in 1 .. N - 28 : u[j] = f[j + 28]
      BY <1>8, <3>1, Zenon
    <3>3. v \in Seq(Byte) /\ Len(v) = N - 28 /\ \A j \in 1 .. N - 28 : v[j] = b[j + 28]
      BY <1>8, <3>1, Zenon
    <3> QED
      BY <3>2, <3>3, Zenon
  <2> HIDE DEF u, v
  <2>3. p - 28 \in 1 .. Len(u) /\ (p - 28) + 28 = p /\ Len(u) >= 4 /\ Len(u) = Len(v)
    BY <1>1, <1>11, <2>2
  <2>4. u[p - 28] # v[p - 28]
    BY <1>3, <2>2, <2>3
  <2>5. ASSUME NEW j \in 1 .. Len(u), j # p - 28 PROVE u[j] = v[j]
    <3>1. j + 28 \in 1 .. N /\ j + 28 # p /\ j \in 1 .. N - 28
      BY <1>1, <1>11, <2>2, <2>5
    <3> QED
      BY <1>4, <2>2, <3>1
  <2>6. process(x(b), u) # process(x(b), v)
    BY <1>9, <2>2, <2>3, <2>4, <2>5, OneByteIsDetected
  <2> QED
    BY <2>1, <2>6 DEF u, v
<1>12. p \notin 25 .. 28 => y(f) # y(b)
  BY <1>1, <1>2, <1>10, <1>11
<1>13. p \notin 25 .. 28 => compute_checksum(f) # compute_checksum(b)
  BY <1>5, <1>12, XorCancels
<1> QED
  BY <1>7, <1>13 DEF p, f

(* A block as it was written: a good header and its own checksum.          *)
Intact(b) == IsBlock(b) /\ HasHeader(b) /\ Read(b, OFF_CRC, 4) = compute_checksum(b)

(* One flipped bit anywhere in a page is an error, and the error names the *)
(* damage: the magic, the version, or else the checksum, whatever id was   *)
(* expected (page.rs:351-386).                                             *)
LEMMA DamageIsNamed ==
  ASSUME NEW b, Intact(b), NEW k \in 0 .. 8 * Len(b) - 1, NEW e
  PROVE  /\ k \in Bits(OFF_MAGIC, 4) => verify(Flip(b, k), e) = "BadMagic"
         /\ k \in Bits(OFF_VERSION, 2) => verify(Flip(b, k), e) = "UnsupportedVersion"
         /\ k \notin Bits(OFF_MAGIC, 6) => verify(Flip(b, k), e) = "ChecksumMismatch"
<1> DEFINE p == (k \div 8) + 1
           f == Flip(b, k)
<1>1. b \in Seq(Byte) /\ Len(b) \in Nat /\ Len(b) >= 64 /\ HasHeader(b) /\ IsBlock(b)
  BY DEF Intact, IsBlock
<1>2. /\ k \in Bits(OFF_MAGIC, 4) <=> p \in 1 .. 4
      /\ k \in Bits(OFF_VERSION, 2) <=> p \in 5 .. 6
      /\ k \in Bits(OFF_MAGIC, 6) <=> p \in 1 .. 6
  <2>1. k \in Int /\ OFF_MAGIC = 0 /\ OFF_VERSION = 4
    BY Layout
  <2> QED
    BY <2>1 DEF Bits
<1>3. (Read(f, 0, 4) = Read(b, 0, 4)) <=> p \notin 1 .. 4
  <2>1. 0 \in Nat /\ 4 \in Nat /\ 0 + 4 <= Len(b) /\ 0 + 1 = 1 /\ 0 + 4 = 4
    BY <1>1
  <2>2. (Read(f, 0, 4) = Read(b, 0, 4)) <=> p \notin 0 + 1 .. 0 + 4
    BY <1>1, <2>1, FlippedField
  <2> QED
    BY <2>1, <2>2
<1>4. (Read(f, 4, 2) = Read(b, 4, 2)) <=> p \notin 5 .. 6
  <2>1. 4 \in Nat /\ 2 \in Nat /\ 4 + 2 <= Len(b) /\ 4 + 1 = 5 /\ 4 + 2 = 6
    BY <1>1
  <2>2. (Read(f, 4, 2) = Read(b, 4, 2)) <=> p \notin 4 + 1 .. 4 + 2
    BY <1>1, <2>1, FlippedField
  <2> QED
    BY <2>1, <2>2
<1>5. (Read(f, 24, 4) = Read(b, 24, 4)) <=> p \notin 25 .. 28
  <2>1. 24 \in Nat /\ 4 \in Nat /\ 24 + 4 <= Len(b) /\ 24 + 1 = 25 /\ 24 + 4 = 28
    BY <1>1
  <2>2. (Read(f, 24, 4) = Read(b, 24, 4)) <=> p \notin 24 + 1 .. 24 + 4
    BY <1>1, <2>1, FlippedField
  <2> QED
    BY <2>1, <2>2
<1>6. compute_checksum(f) = compute_checksum(b) <=> p \in 25 .. 28
  BY <1>1, FlippedChecksum
<1>7. /\ Read(b, 0, 4) = MAGIC /\ Read(b, 4, 2) = FORMAT_VERSION
      /\ Read(b, 24, 4) = compute_checksum(b)
  BY Layout DEF Intact, HasHeader
<1>8. p \in Int
  OBVIOUS
<1> HIDE DEF p, f
<1>9. Read(f, 24, 4) # compute_checksum(f)
  BY <1>5, <1>6, <1>7
<1>10. /\ verify(f, e) = "BadMagic" <=> p \in 1 .. 4
       /\ verify(f, e) = "UnsupportedVersion" <=> p \notin 1 .. 4 /\ p \in 5 .. 6
       /\ p \notin 1 .. 4 /\ p \notin 5 .. 6 => verify(f, e) = "ChecksumMismatch"
  BY <1>3, <1>4, <1>7, <1>9, Layout DEF verify
<1>11. /\ p \in 5 .. 6 => p \notin 1 .. 4
       /\ p \notin 1 .. 6 => p \notin 1 .. 4 /\ p \notin 5 .. 6
  BY <1>8
<1> QED
  BY <1>2, <1>10, <1>11 DEF f

(* What verify may return, and what it has tested when it returns Ok.      *)
LEMMA VerifyResult ==
  ASSUME NEW b, NEW e
  PROVE  /\ verify(b, e) \in PageError \cup {"Ok"}
         /\ verify(b, e) # "InvalidPageSize"
         /\ verify(b, e) = "Ok" => HasHeader(b) /\ e \in {AnyId, id(b)}
                                   /\ Read(b, OFF_CRC, 4) = compute_checksum(b)
BY DEF verify, PageError, HasHeader

(* Damage of any kind within four adjacent bytes of a page, before its     *)
(* checksum or after it, is noticed: the page does not pass, whatever its  *)
(* size (page.rs:17-19).                                                   *)
THEOREM BurstsDoNotPass ==
  ASSUME NEW b, Intact(b), NEW c \in Seq(Byte), Len(c) = Len(b), c # b, NEW e,
         NEW i \in Nat, i + 4 <= Len(b), i + 4 <= 24 \/ 28 <= i,
         \A n \in 1 .. Len(b) : n \notin i + 1 .. i + 4 => c[n] = b[n]
  PROVE  verify(c, e) # "Ok"
<1> DEFINE N == Len(b)
           x(d) == process(MAX, SubSeq(d, 1, 24))
           y(d) == process(x(d), SubSeq(d, 29, N))
<1>1. b \in Seq(Byte) /\ N \in Nat /\ N >= 64 /\ IsBlock(b) /\ IsBlock(c)
  BY DEF Intact, IsBlock
<1>2. compute_checksum(b) = Xor(y(b), MAX) /\ compute_checksum(c) = Xor(y(c), MAX)
  <2>1. OFF_CRC = 24 /\ OFF_CRC + 5 = 29
    BY Layout
  <2> QED
    BY <2>1 DEF compute_checksum
<1>3. MAX \in U32
  BY DEF MAX, U32
<1>4. N = Len(b) /\ N = Len(c)
  OBVIOUS
<1> HIDE DEF N
<1>5. ASSUME NEW d \in Seq(Byte), Len(d) = N
      PROVE  /\ SubSeq(d, 1, 24) \in Seq(Byte) /\ SubSeq(d, 29, N) \in Seq(Byte)
             /\ Len(SubSeq(d, 1, 24)) = 24 /\ Len(SubSeq(d, 29, N)) = N - 28
             /\ \A j \in 1 .. 24 : SubSeq(d, 1, 24)[j] = d[j]
             /\ \A j \in 1 .. N - 28 : SubSeq(d, 29, N)[j] = d[j + 28]
  <2>1. 24 \in Nat /\ 29 \in Nat /\ 1 \in Nat /\ 1 <= 1 /\ 1 <= 29 /\ 24 <= Len(d) /\ N <= Len(d)
    BY <1>1, <1>5
  <2>2. SubSeq(d, 1, 24) \in Seq(Byte) /\ SubSeq(d, 29, N) \in Seq(Byte)
    BY <1>1, <2>1, PieceType, Zenon
  <2>3. Len(SubSeq(d, 1, 24)) = 24 /\ Len(SubSeq(d, 29, N)) = N - 28
    BY <1>1, <1>5
  <2>4. \A j \in 1 .. 24 : SubSeq(d, 1, 24)[j] = d[j]
    BY <1>1, <1>5
  <2>5. \A j \in 1 .. N - 28 : SubSeq(d, 29, N)[j] = d[j + 28]
    BY <1>1, <1>5
  <2> QED
    BY <2>2, <2>3, <2>4, <2>5
<1>6. PICK p \in 1 .. N : c[p] # b[p]
  BY <1>1, <1>4
<1>7. p \in i + 1 .. i + 4 /\ \A n \in 1 .. N : n \notin i + 1 .. i + 4 => c[n] = b[n]
  BY <1>4, <1>6
<1> DEFINE ub == SubSeq(b, 1, 24)
           uc == SubSeq(c, 1, 24)
           vb == SubSeq(b, 29, N)
           vc == SubSeq(c, 29, N)
<1>8. /\ ub \in Seq(Byte) /\ uc \in Seq(Byte) /\ Len(ub) = 24 /\ Len(uc) = 24
      /\ \A j \in 1 .. 24 : ub[j] = b[j] /\ uc[j] = c[j]
  BY <1>1, <1>4, <1>5
<1>9. /\ vb \in Seq(Byte) /\ vc \in Seq(Byte) /\ Len(vb) = N - 28 /\ Len(vc) = N - 28
      /\ \A j \in 1 .. N - 28 : vb[j] = b[j + 28] /\ vc[j] = c[j + 28]
  BY <1>1, <1>4, <1>5
<1>10. y(b) = process(process(MAX, ub), vb) /\ y(c) = process(process(MAX, uc), vc)
  OBVIOUS
<1> HIDE DEF ub, uc, vb, vc, x, y
<1>11. process(MAX, ub) \in U32 /\ process(MAX, uc) \in U32
  BY <1>3, <1>8, ProcessType
<1>12. ASSUME i + 4 <= 24 PROVE y(b) # y(c)
  <2>1. p \in 1 .. 24 /\ ub[p] # uc[p]
    <3>1. p \in 1 .. 24
      BY <1>6, <1>7, <1>12
    <3> QED
      BY <1>6, <1>8, <3>1
  <2>2. \A n \in 1 .. 24 : n \notin i + 1 .. i + 4 => ub[n] = uc[n]
    <3>1. \A n \in 1 .. 24 : n \in 1 .. N
      BY <1>1
    <3> QED
      BY <1>7, <1>8, <3>1
  <2>3. process(MAX, ub) # process(MAX, uc)
    <3>1. ub # uc /\ Len(ub) = Len(uc) /\ i + 4 <= Len(ub)
      BY <1>8, <1>12, <2>1
    <3>2. \A n \in 1 .. Len(ub) : n \notin i + 1 .. i + 4 => ub[n] = uc[n]
      BY <1>8, <2>2
    <3> QED
      BY <1>3, <1>8, <3>1, <3>2, BurstsAreDetected
  <2>4. vb = vc
    <3>1. ASSUME NEW j \in 1 .. N - 28 PROVE vb[j] = vc[j]
      <4>1. j + 28 \in 1 .. N /\ j + 28 \notin i + 1 .. i + 4
        BY <1>1, <1>12
      <4> QED
        BY <1>7, <1>9, <4>1
    <3> QED
      BY <1>1, <1>9, <3>1
  <2> QED
    BY <1>9, <1>10, <1>11, <2>3, <2>4, ProcessInjective
<1>13. ASSUME 28 <= i PROVE y(b) # y(c)
  <2>1. ub = uc
    <3>1. ASSUME NEW j \in 1 .. 24 PROVE b[j] = c[j]
      <4>1. j \in 1 .. N /\ j \notin i + 1 .. i + 4
        BY <1>1, <1>13
      <4> QED
        BY <1>7, <4>1
    <3>2. 24 \in Nat /\ 1 \in Nat /\ 1 <= 1 /\ 24 <= Len(b) /\ 24 <= Len(c)
      BY <1>1, <1>4
    <3> QED
      BY <1>1, <3>1, <3>2, SameBytes DEF ub, uc
  <2> DEFINE k == i - 28
  <2>2. k \in Nat /\ k + 4 <= Len(vb) /\ p - 28 \in 1 .. N - 28 /\ (p - 28) + 28 = p
    BY <1>1, <1>4, <1>6, <1>7, <1>9, <1>13
  <2>3. vb[p - 28] # vc[p - 28]
    BY <1>6, <1>9, <2>2
  <2>4. ASSUME NEW n \in 1 .. Len(vb), n \notin k + 1 .. k + 4 PROVE vb[n] = vc[n]
    <3>1. n \in 1 .. N - 28 /\ n + 28 \in 1 .. N /\ n + 28 \notin i + 1 .. i + 4
      <4>1. n \in 1 .. N - 28
        BY <1>9
      <4>2. n + 28 \in 1 .. N
        BY <1>1, <4>1
      <4>3. n \notin (i - 28) + 1 .. (i - 28) + 4 /\ n \in Int
        BY <2>4, <4>1
      <4> QED
        BY <1>1, <4>1, <4>2, <4>3
    <3> QED
      BY <1>7, <1>9, <3>1
  <2> HIDE DEF k
  <2>5. vb # vc /\ Len(vb) = Len(vc)
    BY <1>9, <2>3
  <2>6. process(process(MAX, ub), vb) # process(process(MAX, ub), vc)
    BY <1>9, <1>11, <2>2, <2>4, <2>5, BurstsAreDetected
  <2> QED
    BY <1>10, <2>1, <2>6
<1>14. compute_checksum(c) # compute_checksum(b)
  BY <1>2, <1>12, <1>13, XorCancels
<1>15. Read(c, 24, 4) = Read(b, 24, 4)
  <2>1. ASSUME NEW n \in 24 + 1 .. 24 + 4 PROVE c[n] = b[n]
    <3>1. n \in 1 .. N /\ n \notin i + 1 .. i + 4
      BY <1>1
    <3> QED
      BY <1>7, <3>1
  <2>2. SameField(c, b, 24, 4)
    BY <2>1, Zenon DEF SameField
  <2> QED
    BY <2>2, ReadSame
<1>16. Read(c, OFF_CRC, 4) # compute_checksum(c)
  BY <1>14, <1>15, Layout DEF Intact
<1> QED
  BY <1>16, VerifyResult

-----------------------------------------------------------------------------
(* The blocks of the specification.                                        *)

(* Every page that was written is intact, and has the size asked for.      *)
LEMMA PagesAreIntact ==
  ASSUME NEW o \in Pages
  PROVE  Intact(o) /\ Len(o) = Stored /\ o # NoPage
<1>1. PICK i \in Ids, l \in Lsns, v \in Values :
        o = stamp(Write(Write(new(Stored), OFF_LSN, 8, l), Stored - 1, 1, v), i)
  BY DEF Pages
<1> DEFINE n == new(Stored)
           x == Write(n, 16, 8, l)
           y == Write(x, Stored - 1, 1, v)
<1>2. Stored \in Nat /\ Stored >= 64 /\ i \in SUBSET (0 .. 63)
  BY FormatAssumption
<1>3. IsBlock(n) /\ Len(n) = Stored /\ HasHeader(n)
  BY <1>2, NewPage
<1> HIDE DEF n
<1>4. IsBlock(x) /\ Len(x) = Stored /\ HasHeader(x)
  BY <1>3, HeaderKept
<1> HIDE DEF x
<1>5. IsBlock(y) /\ Len(y) = Stored
  <2>1. Stored - 1 \in Nat /\ 6 <= Stored - 1 /\ 1 \in Nat
    BY <1>2
  <2> QED
    BY <1>4, <2>1, HeaderKept
<1>6. o = stamp(y, i)
  BY <1>1, Layout DEF x, n
<1> HIDE DEF y
<1>7. Intact(o) /\ Len(o) = Stored
  BY <1>2, <1>5, <1>6, StampVerifies DEF Intact
<1>8. o # NoPage
  BY <1>2, <1>7 DEF NoPage
<1> QED
  BY <1>7, <1>8

(* A block cut or padded to a page size.                                   *)
LEMMA FitType ==
  ASSUME NEW m \in Seq(Byte), NEW size \in Nat
  PROVE  /\ Fit(m, size) \in Seq(Byte) /\ Len(Fit(m, size)) = size
         /\ \A i \in 1 .. size : Fit(m, size)[i] = IF i <= Len(m) THEN m[i] ELSE {}
         /\ Len(m) = size => Fit(m, size) = m
<1>1. \A i \in 1 .. Len(m) : m[i] \in Byte
  OBVIOUS
<1>2. {} \in Byte /\ Len(m) \in Nat
  BY DEF Byte
<1>3. ASSUME NEW i \in 1 .. size PROVE (IF i <= Len(m) THEN m[i] ELSE {}) \in Byte
  BY <1>1, <1>2
<1>4. Fit(m, size) \in [1 .. size -> Byte]
  BY <1>3 DEF Fit
<1>5. Fit(m, size) \in Seq(Byte) /\ Len(Fit(m, size)) = size
  BY <1>4
<1>6. \A i \in 1 .. size : Fit(m, size)[i] = IF i <= Len(m) THEN m[i] ELSE {}
  BY DEF Fit
<1>7. ASSUME Len(m) = size PROVE Fit(m, size) = m
  <2>1. \A i \in 1 .. size : Fit(m, size)[i] = m[i]
    BY <1>6, <1>7
  <2> QED
    BY <1>5, <1>7, <2>1
<1> QED
  BY <1>5, <1>6, <1>7

(* No message of Crc32c has the first byte of a page: 'P'.                 *)
LEMMA MessagesHaveNoMagic ==
  ASSUME NEW m \in Messages, NEW size \in Nat, size >= 64
  PROVE  Read(Fit(m, size), OFF_MAGIC, 4) # MAGIC
<1> DEFINE b == Fit(m, size)
<1>1. m \in Seq(Byte)
  BY MessagesAreBytes
<1>2. /\ b \in Seq(Byte) /\ Len(b) = size
      /\ \A i \in 1 .. size : b[i] = IF i <= Len(m) THEN m[i] ELSE {}
  BY <1>1, FitType
<1> HIDE DEF b
<1>3. b[1] = IF 1 <= Len(m) THEN m[1] ELSE {}
  BY <1>2
<1>4. ASSUME NEW i \in 0 .. 7 PROVE i \in Read(b, 0, 4) <=> i \in b[1]
  <2>1. 0 \in Nat /\ 4 \in Nat /\ 0 + 4 <= Len(b) /\ 1 \in 1 .. 4
    BY <1>2
  <2>2. \A k \in 1 .. 4 : \A j \in 0 .. 7 : j + 8 * (k - 1) \in Read(b, 0, 4) <=> j \in b[0 + k]
    BY <1>2, <2>1, ReadBits
  <2>3. i + 8 * (1 - 1) \in Read(b, 0, 4) <=> i \in b[0 + 1]
    BY <2>1, <2>2
  <2>4. i + 8 * (1 - 1) = i /\ 0 + 1 = 1
    OBVIOUS
  <2> QED
    BY <2>3, <2>4
<1>5. ASSUME Read(b, 0, 4) = MAGIC PROVE 4 \in b[1] /\ 6 \in b[1] /\ 5 \notin b[1]
  <2>1. 4 \in MAGIC /\ 6 \in MAGIC /\ 5 \notin MAGIC /\ {4, 5, 6} \subseteq 0 .. 7
    BY DEF MAGIC
  <2> QED
    BY <1>4, <1>5, <2>1
<1>6. CASE m = CheckMessage
  <2>1. Len(m) = 9 /\ 5 \in m[1]
    BY <1>6 DEF CheckMessage
  <2>2. 5 \in b[1]
    BY <1>3, <2>1
  <2> QED
    BY <1>5, <2>2, Layout DEF b
<1>7. CASE \E n \in Lengths : m \in OfLength(n)
  <2>1. PICK n \in Nat : m \in OfLength(n)
    BY <1>7, LengthsAssumption
  <2>2. Zeros(n) \in Seq(Byte) /\ Len(Zeros(n)) = n
    BY <2>1, ZerosType
  <2>3. \A j \in 1 .. n : Zeros(n)[j] = {}
    BY DEF Zeros
  <2>4. ASSUME NEW k \in 0 .. 8 * n - 1, m = Flip(Zeros(n), k), 1 <= Len(m), 4 \in m[1], 6 \in m[1]
        PROVE  FALSE
    <3>1. /\ Len(m) = n /\ 1 \in 1 .. n
          /\ m[1] = IF 1 = (k \div 8) + 1 THEN Xor(Zeros(n)[1], {k % 8}) ELSE Zeros(n)[1]
      <4>1. k \in 0 .. 8 * Len(Zeros(n)) - 1 /\ n \in Nat
        BY <2>1, <2>2
      <4>2. Len(m) = n
        BY <2>2, <2>4, <4>1, FlipType
      <4>3. 1 \in 1 .. n
        BY <2>4, <4>1, <4>2
      <4> QED
        BY <2>2, <2>4, <4>1, <4>2, <4>3, FlipType
    <3>2. m[1] \subseteq {k % 8}
      BY <2>3, <3>1 DEF Xor
    <3> QED
      BY <2>4, <3>2
  <2>5. ASSUME m = Zeros(n), 1 <= Len(m), 4 \in m[1] PROVE FALSE
    BY <2>1, <2>2, <2>3, <2>5
  <2>6. m = Zeros(n) \/ \E k \in 0 .. 8 * n - 1 : m = Flip(Zeros(n), k)
    BY <2>1 DEF OfLength
  <2>7. ~ (4 \in b[1] /\ 6 \in b[1])
    BY <1>3, <2>4, <2>5, <2>6
  <2> QED
    BY <1>5, <2>7, Layout DEF b
<1> QED
  BY <1>6, <1>7 DEF Messages

-----------------------------------------------------------------------------
(* The invariant of the specification.                                     *)

(* The block is a message, or a page that was written, with at most one    *)
(* bit flipped.                                                            *)
BlockInv ==
  \/ origin = NoPage /\ flips = {} /\ message \in Messages
  \/ origin \in Pages /\ flips = {} /\ message = origin
  \/ origin \in Pages /\ \E k \in 0 .. 8 * Stored - 1 : flips = {k} /\ message = Flip(origin, k)

(* A verdict other than on the page size is that of verify on the block.   *)
JudgedInv ==
  /\ verdict \in PageError \cup {"none", "Ok"}
  /\ verdict \notin {"none", "InvalidPageSize"} =>
       /\ asked[1] \in Sizes /\ PageSize(asked[1]) /\ asked[2] \in Ids \cup {AnyId}
       /\ asked[1] = Len(message) => verdict = verify(message, asked[2])
       /\ verdict = "Ok" => verify(Fit(message, asked[1]), asked[2]) = "Ok"

(* A page in use is a whole one with a good header.                        *)
PageInv == page # NoPage => IsBlock(page) /\ HasHeader(page)

(* Only messages are summed piece by piece.                                *)
SummedInv == finished => origin = NoPage

FormatInv == StreamInv /\ BlockInv /\ JudgedInv /\ PageInv /\ SummedInv

(* The block is a byte sequence, as long as the page it was.               *)
LEMMA BlockType ==
  ASSUME BlockInv
  PROVE  message \in Seq(Byte) /\ (origin # NoPage => Len(message) = Stored)
<1>1. ASSUME origin \in Pages
      PROVE  origin \in Seq(Byte) /\ Len(origin) = Stored /\ origin # NoPage
  BY <1>1, PagesAreIntact DEF Intact, IsBlock
<1>2. CASE origin = NoPage /\ flips = {} /\ message \in Messages
  BY <1>2, MessagesAreBytes
<1>3. CASE origin \in Pages /\ flips = {} /\ message = origin
  BY <1>1, <1>3
<1>4. ASSUME NEW k \in 0 .. 8 * Stored - 1, origin \in Pages, message = Flip(origin, k)
      PROVE  message \in Seq(Byte) /\ Len(message) = Stored
  BY <1>1, <1>4, FlipType
<1> QED
  BY <1>2, <1>3, <1>4 DEF BlockInv

(* Initially.                                                              *)
LEMMA FormatInitially == FormatInit => FormatInv
<1> SUFFICES ASSUME FormatInit PROVE FormatInv
  OBVIOUS
<1>1. BlockInv
  BY DEF FormatInit, BlockInv
<1>2. StreamInv
  BY <1>1, BlockType, StreamInitially DEF FormatInit
<1>3. verdict = "none" /\ page = NoPage
  BY DEF FormatInit
<1>4. JudgedInv /\ PageInv /\ SummedInv
  BY <1>3 DEF JudgedInv, PageInv, SummedInv, FormatInit, new_accumulator
<1> QED
  BY <1>1, <1>2, <1>4 DEF FormatInv

(* A parse or a read keeps the invariant if its result is that of verify.  *)
LEMMA JudgeStep ==
  ASSUME FormatInv, NEW size \in Sizes, NEW e \in Ids \cup {AnyId}, NEW bytes, NEW result,
         Judge(size, e, bytes, result), result \in PageError \cup {"Ok"},
         result # "InvalidPageSize" => PageSize(size),
         result # "InvalidPageSize" /\ size = Len(message) => result = verify(message, e),
         result = "Ok" => bytes = Fit(message, size) /\ verify(bytes, e) = "Ok"
  PROVE  FormatInv'
<1>1. /\ verdict' = result /\ asked' = <<size, e>>
      /\ page' = IF result = "Ok" THEN bytes ELSE NoPage
      /\ message' = message /\ fed' = fed /\ state' = state /\ finished' = finished
      /\ origin' = origin /\ flips' = flips
  BY DEF Judge, vars
<1>2. StreamInv' /\ BlockInv' /\ SummedInv'
  BY <1>1 DEF FormatInv, StreamInv, BlockInv, SummedInv
<1>3. asked'[1] = size /\ asked'[2] = e
  BY <1>1
<1>4. JudgedInv'
  <2>1. verdict' \in PageError \cup {"none", "Ok"}
    BY <1>1
  <2>2. ASSUME verdict' \notin {"none", "InvalidPageSize"}
        PROVE  /\ asked'[1] \in Sizes /\ PageSize(asked'[1]) /\ asked'[2] \in Ids \cup {AnyId}
               /\ asked'[1] = Len(message') => verdict' = verify(message', asked'[2])
               /\ verdict' = "Ok" => verify(Fit(message', asked'[1]), asked'[2]) = "Ok"
    BY <1>1, <1>3, <2>2
  <2> QED
    BY <2>1, <2>2 DEF JudgedInv
<1>5. PageInv'
  <2>1. ASSUME page' # NoPage PROVE IsBlock(page') /\ HasHeader(page')
    <3>1. result = "Ok" /\ page' = Fit(message, size) /\ verify(page', e) = "Ok"
      BY <1>1, <2>1
    <3>2. size \in Nat /\ size >= 64
      <4>1. PageSize(size)
        BY <3>1
      <4> QED
        BY <4>1, FormatAssumption DEF PageSize
    <3>3. message \in Seq(Byte)
      BY DEF FormatInv, StreamInv
    <3>4. IsBlock(page')
      BY <3>1, <3>2, <3>3, FitType DEF IsBlock
    <3> QED
      BY <3>1, <3>4, VerifyResult
  <2> QED
    BY <2>1 DEF PageInv
<1> QED
  BY <1>2, <1>4, <1>5 DEF FormatInv

(* The owner's change keeps the invariant if it leaves a page a page.      *)
LEMMA ChangeStep ==
  ASSUME FormatInv, NEW bytes, Change(bytes), IsBlock(bytes), HasHeader(bytes)
  PROVE  FormatInv'
<1>1. /\ page' = bytes /\ verdict' = verdict /\ asked' = asked
      /\ message' = message /\ fed' = fed /\ state' = state /\ finished' = finished
      /\ origin' = origin /\ flips' = flips
  BY DEF Change, vars
<1> QED
  BY <1>1 DEF FormatInv, StreamInv, BlockInv, JudgedInv, PageInv, SummedInv

(* Every step keeps the invariant.                                         *)
LEMMA FormatStep ==
  ASSUME FormatInv, [FormatNext]_allVars
  PROVE  FormatInv'
<1> USE DEF FormatInv
<1>1. message \in Seq(Byte) /\ AnyId \in Ids \cup {AnyId}
  BY DEF StreamInv
<1>2. CASE Checksum
  <2>1. [Next]_vars /\ UNCHANGED formatVars /\ origin = NoPage
    BY <1>2 DEF Checksum
  <2>2. StreamInv'
    BY <2>1, StreamStep
  <2>3. message' = message
    BY <2>1 DEF Next, update, finalize, vars
  <2>4. BlockInv' /\ JudgedInv' /\ PageInv' /\ SummedInv'
    BY <2>1, <2>3 DEF formatVars, BlockInv, JudgedInv, PageInv, SummedInv
  <2> QED
    BY <2>2, <2>4
<1>3. ASSUME NEW size \in Sizes, BadSize(size) PROVE FormatInv'
  <2>1. Judge(size, AnyId, <<>>, "InvalidPageSize") /\ "InvalidPageSize" \in PageError
    BY <1>3 DEF BadSize, PageError
  <2> QED
    BY <1>1, <2>1, JudgeStep
<1>4. ASSUME NEW size \in Sizes, drive(size) PROVE FormatInv'
  <2> DEFINE b == Fit(message, size)
  <2>1. PageSize(size) /\ Judge(size, AnyId, b, from_bytes(size, b))
    BY <1>4 DEF drive
  <2>2. Len(b) = size /\ (size = Len(message) => b = message)
    BY <1>1, FormatAssumption, FitType
  <2> HIDE DEF b
  <2>3. from_bytes(size, b) = verify(b, AnyId)
    BY <2>2 DEF from_bytes
  <2>4. verify(b, AnyId) \in PageError \cup {"Ok"}
    BY VerifyResult
  <2>5. verify(b, AnyId) = "Ok" => b = Fit(message, size)
    BY DEF b
  <2> QED
    BY <1>1, <2>1, <2>2, <2>3, <2>4, <2>5, JudgeStep
<1>5. ASSUME NEW size \in Sizes, FromBytes(size) PROVE FormatInv'
  <2> DEFINE r == from_bytes(size, message)
  <2>1. PageSize(size) /\ Judge(size, AnyId, message, r)
    BY <1>5 DEF FromBytes
  <2>2. r = IF Len(message) # size THEN "ShortRead" ELSE verify(message, AnyId)
    BY DEF from_bytes
  <2> HIDE DEF r
  <2>3. r \in PageError \cup {"Ok"}
    BY <2>2, VerifyResult DEF PageError
  <2>4. size = Len(message) => r = verify(message, AnyId)
    BY <2>2
  <2>5. ASSUME r = "Ok" PROVE message = Fit(message, size) /\ verify(message, AnyId) = "Ok"
    <3>1. Len(message) = size /\ size \in Nat
      BY <2>2, <2>5, FormatAssumption
    <3> QED
      BY <1>1, <2>2, <2>5, <3>1, FitType
  <2> QED
    BY <1>1, <2>1, <2>3, <2>4, <2>5, JudgeStep
<1>6. ASSUME NEW size \in Sizes, NEW own \in Sizes, NEW i \in Ids, ReadInto(size, own, i)
      PROVE  FormatInv'
  <2> DEFINE b == Fit(message, size)
             r == IF own # size THEN "InvalidPageSize"
                  ELSE IF Len(message) < size THEN "ShortRead" ELSE verify(b, i)
  <2>1. PageSize(size) /\ Judge(size, i, b, r)
    BY <1>6 DEF ReadInto
  <2>2. size = Len(message) => b = message
    BY <1>1, FormatAssumption, FitType
  <2> HIDE DEF b
  <2>3. r \in PageError \cup {"Ok"}
    BY VerifyResult DEF PageError
  <2>4. r # "InvalidPageSize" /\ size = Len(message) => r = verify(message, i)
    <3>1. size = Len(message) => ~ (Len(message) < size)
      BY FormatAssumption
    <3> QED
      BY <2>2, <3>1
  <2>5. r = "Ok" => b = Fit(message, size) /\ verify(b, i) = "Ok"
    BY DEF b
  <2> HIDE DEF r
  <2> QED
    BY <2>1, <2>3, <2>4, <2>5, JudgeStep
<1>7. ASSUME NEW bytes, Change(bytes)
      PROVE  page # NoPage /\ IsBlock(page) /\ HasHeader(page) /\ Len(page) \in Nat /\ Len(page) >= 64
  BY <1>7 DEF Change, PageInv, IsBlock
<1>8. ASSUME NEW size \in Sizes, NEW i \in Ids, write_page(size, i) PROVE FormatInv'
  <2>1. Change(stamp(page, i)) /\ i \in SUBSET (0 .. 63)
    BY <1>8, FormatAssumption DEF write_page
  <2>2. IsBlock(stamp(page, i)) /\ HasHeader(stamp(page, i))
    BY <1>7, <2>1, StampVerifies
  <2> QED
    BY <2>1, <2>2, ChangeStep
<1>9. CASE reset
  <2>1. Change(new(Len(page)))
    BY <1>9 DEF reset
  <2>2. IsBlock(new(Len(page))) /\ HasHeader(new(Len(page)))
    BY <1>7, <2>1, NewPage
  <2> QED
    BY <2>1, <2>2, ChangeStep
<1>10. ASSUME NEW l \in Lsns, set_lsn(l) PROVE FormatInv'
  <2>1. Change(Write(page, 16, 8, l))
    BY <1>10, Layout DEF set_lsn
  <2>2. IsBlock(Write(page, 16, 8, l)) /\ HasHeader(Write(page, 16, 8, l))
    BY <1>7, <2>1, HeaderKept
  <2> QED
    BY <2>1, <2>2, ChangeStep
<1>11. ASSUME NEW v \in Values, payload_mut(v) PROVE FormatInv'
  <2>1. Change(Write(page, 32, 1, v))
    BY <1>11, Layout DEF payload_mut
  <2>2. IsBlock(Write(page, 32, 1, v)) /\ HasHeader(Write(page, 32, 1, v))
    BY <1>7, <2>1, HeaderKept
  <2> QED
    BY <2>1, <2>2, ChangeStep
<1>12. CASE UNCHANGED allVars
  <2>1. UNCHANGED vars /\ UNCHANGED formatVars
    BY <1>12 DEF allVars
  <2> QED
    BY <2>1 DEF vars, formatVars, StreamInv, BlockInv, JudgedInv, PageInv, SummedInv
<1> QED
  BY <1>2, <1>3, <1>4, <1>5, <1>6, <1>8, <1>9, <1>10, <1>11, <1>12 DEF FormatNext

(* The invariant, for every page size and all ids and payloads.            *)
THEOREM FormatInvariant == FormatSpec => []FormatInv
<1>1. FormatInv /\ [FormatNext]_allVars => FormatInv'
  BY FormatStep
<1> QED
  BY <1>1, FormatInitially, PTL DEF FormatSpec

(* Beside the parsing of pages, checksums are computed as in Crc32c.       *)
THEOREM FormatChecksums == FormatSpec => []StreamIsCrc32c
<1>1. FormatInv => StreamIsCrc32c
  BY DEF FormatInv, StreamInv, StreamIsCrc32c
<1> QED
  BY <1>1, FormatInvariant, PTL

(* One or two flipped bits in a message change the result.                 *)
THEOREM FormatFlipsDetected == WithinPeriod => (FormatSpec => []FlipsAreDetected)
<1>1. FormatInv => (finished => message \in Messages)
  <2>1. origin \in Pages => origin # NoPage
    BY PagesAreIntact
  <2> QED
    BY <2>1 DEF FormatInv, SummedInv, BlockInv
<1>2. ASSUME WithinPeriod PROVE FormatSpec => []FlipsAreDetected
  <2>1. FormatInv => FlipsAreDetected
    BY <1>1, <1>2, ResultTellsFlips DEF FormatInv
  <2> QED
    BY <2>1, FormatInvariant, PTL
<1> QED
  BY <1>2

(* Whatever its owner has done to a page, its serialised form parses to    *)
(* the same page (fuzz_targets/page_parse.rs:2-3), and it can be read from *)
(* any slot it is written to; a superblock of that size reads as written.  *)
THEOREM PagesRoundTrip == FormatSpec => []RoundTrips
<1>1. FormatInv => RoundTrips
  <2>1. CASE page = NoPage
    BY <2>1 DEF RoundTrips
  <2>2. FormatInv /\ page # NoPage => IsBlock(page) /\ HasHeader(page)
    BY DEF FormatInv, PageInv
  <2> QED
    BY <2>1, <2>2, BlockRoundTrips
<1> QED
  BY <1>1, FormatInvariant, PTL

(* A page of the right size with a flipped bit is reported for what was    *)
(* damaged, never as a misdirected page (error.rs:58-94).                  *)
THEOREM ErrorsNameTheDamage == FormatSpec => []ErrorNamesTheDamage
<1>1. FormatInv => ErrorNamesTheDamage
  <2> SUFFICES ASSUME FormatInv, origin # NoPage, verdict \notin {"none", "InvalidPageSize"},
                      asked[1] = Len(origin)
               PROVE  CASE flips \cap Bits(OFF_MAGIC, 4) # {}   -> verdict = "BadMagic"
                        [] flips \cap Bits(OFF_VERSION, 2) # {} -> verdict = "UnsupportedVersion"
                        [] flips \ Bits(OFF_MAGIC, 6) # {}      -> verdict = "ChecksumMismatch"
                        [] flips = {}                           -> verdict \in {"Ok", "MisdirectedPage"}
    BY DEF ErrorNamesTheDamage
  <2>1. origin \in Pages
    BY DEF FormatInv, BlockInv
  <2>2. Intact(origin) /\ Len(origin) = Stored /\ Stored \in Nat
    BY <2>1, PagesAreIntact, FormatAssumption
  <2>3. Len(message) = Stored
    BY BlockType DEF FormatInv
  <2>4. verdict = verify(message, asked[2])
    BY <2>2, <2>3 DEF FormatInv, JudgedInv
  <2>5. CASE flips = {} /\ message = origin
    <3>1. verdict \in {"Ok", "MisdirectedPage"}
      BY <2>2, <2>4, <2>5 DEF Intact, HasHeader, verify
    <3> QED
      BY <2>5, <3>1
  <2>6. ASSUME NEW k \in 0 .. 8 * Stored - 1, flips = {k}, message = Flip(origin, k)
        PROVE  CASE flips \cap Bits(OFF_MAGIC, 4) # {}   -> verdict = "BadMagic"
                 [] flips \cap Bits(OFF_VERSION, 2) # {} -> verdict = "UnsupportedVersion"
                 [] flips \ Bits(OFF_MAGIC, 6) # {}      -> verdict = "ChecksumMismatch"
                 [] flips = {}                           -> verdict \in {"Ok", "MisdirectedPage"}
    <3>1. /\ k \in Bits(OFF_MAGIC, 4) => verdict = "BadMagic"
          /\ k \in Bits(OFF_VERSION, 2) => verdict = "UnsupportedVersion"
          /\ k \notin Bits(OFF_MAGIC, 6) => verdict = "ChecksumMismatch"
      BY <2>2, <2>4, <2>6, DamageIsNamed
    <3>2. k \in Bits(OFF_MAGIC, 6) => k \in Bits(OFF_MAGIC, 4) \/ k \in Bits(OFF_VERSION, 2)
      BY Layout DEF Bits
    <3> QED
      BY <2>6, <3>1, <3>2
  <2> QED
    BY <2>1, <2>5, <2>6, PagesAreIntact DEF FormatInv, BlockInv
<1> QED
  BY <1>1, FormatInvariant, PTL

(* No page that was written, whole or with a bit flipped, has the checksum *)
(* of a page of another size by chance.  A 32-bit checksum cannot promise  *)
(* this of all pages.                                                      *)
NoChanceMatch ==
  \A o \in Pages : \A size \in Sizes :
    PageSize(size) /\ size # Stored =>
      \A m \in {o} \cup {Flip(o, k) : k \in 0 .. 8 * Stored - 1} :
        Read(Fit(m, size), OFF_CRC, 4) # compute_checksum(Fit(m, size))

(* Only a whole, undamaged page of the right size, at its own slot, is     *)
(* accepted (page.rs:17-19, file.rs:173-175).  Of a page read at its own   *)
(* size nothing is left to chance; of one cut or padded to another size    *)
(* only that its checksum does not match by accident.                      *)
THEOREM IntactPagesPass == NoChanceMatch => (FormatSpec => []OnlyIntactPagesPass)
<1>1. ASSUME NoChanceMatch, FormatInv PROVE OnlyIntactPagesPass
  <2> SUFFICES ASSUME verdict = "Ok"
               PROVE  /\ origin # NoPage /\ flips = {} /\ asked[1] = Len(origin)
                      /\ asked[2] \in {AnyId, id(origin)}
    BY <1>1 DEF FormatInv, JudgedInv, OnlyIntactPagesPass
  <2> DEFINE size == asked[1]
             b    == Fit(message, size)
  <2>1. /\ size \in Sizes /\ PageSize(size) /\ size \in Nat /\ size >= 64
        /\ verify(b, asked[2]) = "Ok"
        /\ size = Len(message) => verify(message, asked[2]) = "Ok"
    BY <1>1, FormatAssumption DEF FormatInv, JudgedInv, PageSize
  <2>2. HasHeader(b) /\ Read(b, OFF_CRC, 4) = compute_checksum(b)
    BY <2>1, VerifyResult
  <2>3. origin \in Pages
    BY <1>1, <2>1, <2>2, MessagesHaveNoMagic DEF FormatInv, BlockInv, HasHeader
  <2>4. Intact(origin) /\ Len(origin) = Stored /\ origin # NoPage /\ Stored \in Nat
    BY <2>3, PagesAreIntact, FormatAssumption
  <2>5. message \in {origin} \cup {Flip(origin, k) : k \in 0 .. 8 * Stored - 1}
    BY <1>1, <2>4 DEF FormatInv, BlockInv
  <2>6. size = Stored
    BY <1>1, <2>1, <2>2, <2>3, <2>5 DEF NoChanceMatch
  <2>7. Len(message) = Stored
    BY <1>1, <2>4, BlockType DEF FormatInv
  <2>8. verify(message, asked[2]) = "Ok"
    BY <2>1, <2>6, <2>7
  <2> HIDE DEF size, b
  <2>9. ASSUME NEW k \in 0 .. 8 * Stored - 1, message = Flip(origin, k) PROVE FALSE
    <3>1. /\ k \in Bits(OFF_MAGIC, 4) => verify(message, asked[2]) = "BadMagic"
          /\ k \in Bits(OFF_VERSION, 2) => verify(message, asked[2]) = "UnsupportedVersion"
          /\ k \notin Bits(OFF_MAGIC, 6) => verify(message, asked[2]) = "ChecksumMismatch"
      BY <2>4, <2>9, DamageIsNamed
    <3>2. k \in Bits(OFF_MAGIC, 6) => k \in Bits(OFF_MAGIC, 4) \/ k \in Bits(OFF_VERSION, 2)
      BY Layout DEF Bits
    <3> QED
      BY <2>8, <3>1, <3>2
  <2>10. flips = {} /\ message = origin
    BY <1>1, <2>4, <2>9 DEF FormatInv, BlockInv
  <2>11. asked[2] \in {AnyId, id(origin)}
    BY <2>8, <2>10, VerifyResult
  <2> QED
    BY <2>4, <2>6, <2>10, <2>11 DEF size
<1>2. NoChanceMatch => (FormatInv => OnlyIntactPagesPass)
  BY <1>1
<1>3. ASSUME NoChanceMatch PROVE FormatSpec => []OnlyIntactPagesPass
  <2>1. FormatInv => OnlyIntactPagesPass
    BY <1>2, <1>3
  <2> QED
    BY <2>1, FormatInvariant, PTL
<1> QED
  BY <1>3

=============================================================================
