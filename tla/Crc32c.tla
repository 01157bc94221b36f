------------------------------- MODULE Crc32c --------------------------------
(***************************************************************************)
(* The checksum of src/src/checksum.rs: CRC32C by slices of eight bytes,   *)
(* fed in pieces, against the textbook division by the polynomial.  A word *)
(* or a byte is the set of its one bits, so that ^ is symmetric difference *)
(* and >> a shift of the elements.                                         *)
(*                                                                         *)
(* Both ways of computing are affine in the bits of the message: if they   *)
(* agree on the message of zeros and on every message with a single one,   *)
(* they agree on all messages of that length.                              *)
(***************************************************************************)
EXTENDS Integers, Sequences

CONSTANT Lengths       \* of the messages, in bytes

ASSUME LengthsAssumption == Lengths \subseteq Nat

Bit  == 0 .. 31
MAX  == Bit
Byte == SUBSET (0 .. 7)

Xor(x, y)    == (x \ y) \cup (y \ x)
Shr(x, n)    == {i - n : i \in {j \in x : j >= n}}
ByteOf(x, k) == {i \in 0 .. 7 : i + 8 * k \in x}

(* 0x82F63B78.                                                             *)
POLY == {3, 4, 5, 6, 8, 9, 11, 12, 13, 17, 18, 20, 21, 22, 23, 25, 31}

-----------------------------------------------------------------------------
(* The code.                                                               *)

(* generate_tables.  Table 0: eight shifts of a byte.                      *)
ShiftOne(crc) == IF 0 \in crc THEN Xor(Shr(crc, 1), POLY) ELSE Shr(crc, 1)

Shifted(byte) ==
  LET crc[bit \in 0 .. 8] == IF bit = 0 THEN byte ELSE ShiftOne(crc[bit - 1])
  IN  crc[8]

Table0 == [b \in Byte |-> Shifted(b)]

(* The state moves on by one byte.                                         *)
OneByte(crc, byte) == Xor(Shr(crc, 8), Table0[Xor(ByteOf(crc, 0), byte)])

(* Each further table puts the byte one position before the previous one.  *)
Extended(table) == [b \in Byte |-> OneByte(table[b], {})]

Table1 == Extended(Table0)
Table2 == Extended(Table1)
Table3 == Extended(Table2)
Table4 == Extended(Table3)
Table5 == Extended(Table4)
Table6 == Extended(Table5)
Table7 == Extended(Table6)
TABLES == <<Table0, Table1, Table2, Table3, Table4, Table5, Table6, Table7>>

(* Four bytes, little end first.                                           *)
Word(b) == UNION {{i + 8 * (k - 1) : i \in b[k]} : k \in 1 .. 4}

(* One chunk: the first four bytes meet the state; the first byte is the   *)
(* farthest from the end, in table 7.  Mutant: the tables the other way    *)
(* round.                                                                  *)
SliceReversed(crc, chunk) ==
  LET x == Xor(crc, Word(chunk))
      sum[k \in 1 .. 9] ==
        IF k = 9 THEN {}
        ELSE Xor(TABLES[k][IF k <= 4 THEN ByteOf(x, k - 1) ELSE chunk[k]],
                 sum[k + 1])
  IN  sum[1]

Slice(crc, chunk) ==
  LET x == Xor(crc, Word(chunk))
      sum[k \in 1 .. 9] ==
        IF k = 9 THEN {}
        ELSE Xor(TABLES[9 - k][IF k <= 4 THEN ByteOf(x, k - 1) ELSE chunk[k]],
                 sum[k + 1])
  IN  sum[1]

(* process: whole chunks, then the remainder byte by byte.  Mutant: the    *)
(* remainder is left out.                                                  *)
Chunks(crc, data) ==
  LET after[n \in 0 .. Len(data) \div 8] ==
        IF n = 0 THEN crc
        ELSE Slice(after[n - 1], SubSeq(data, 8 * n - 7, 8 * n))
  IN  after[Len(data) \div 8]

processNoRemainder(crc, data) == Chunks(crc, data)

process(crc, data) ==
  LET whole == 8 * (Len(data) \div 8)
      after[n \in whole .. Len(data)] ==
        IF n = whole THEN Chunks(crc, data) ELSE OneByte(after[n - 1], data[n])
  IN  after[Len(data)]

-----------------------------------------------------------------------------
(* The reference: the remainder of a division by 0x1EDC6F41.  The register *)
(* holds the highest coefficient in bit 31; the bits of a byte come lowest *)
(* first; register and result are complemented, the result is reflected.   *)

POLYNOMIAL == {0, 6, 8, 9, 10, 11, 13, 14, 18, 19, 20, 22, 23, 25, 26, 27, 28}

Divide(register, one) ==
  LET shifted == {i + 1 : i \in register \ {31}}
  IN  IF (31 \in register) # one THEN Xor(shifted, POLYNOMIAL) ELSE shifted

Reference(data) ==
  LET register[n \in 0 .. 8 * Len(data)] ==
        IF n = 0 THEN MAX
        ELSE Divide(register[n - 1], (n - 1) % 8 \in data[((n - 1) \div 8) + 1])
  IN  {31 - i : i \in MAX \ register[8 * Len(data)]}

-----------------------------------------------------------------------------
(* The messages, and a Crc32c that is fed one of them.                     *)

Flip(data, k) ==
  [data EXCEPT ![(k \div 8) + 1] = Xor(@, {k % 8})]

Zeros(n) == [i \in 1 .. n |-> {}]

OfLength(n) == {Zeros(n)} \cup {Flip(Zeros(n), k) : k \in 0 .. 8 * n - 1}

(* "123456789".                                                            *)
CheckMessage == [i \in 1 .. 9 |-> {4, 5} \cup {b \in 0 .. 3 : (i \div 2 ^ b) % 2 = 1}]
CheckValue   == {0, 1, 7, 9, 12, 15, 17, 18, 24, 25, 29, 30, 31}

(* The reference is the standard one: it gives the standard value          *)
(* (checksum.rs:136-137).                                                  *)
ASSUME ReferenceIsStandard == Reference(CheckMessage) = CheckValue

Messages == (UNION {OfLength(n) : n \in Lengths}) \cup {CheckMessage}

VARIABLES
  message,    \* the bytes to be checksummed
  fed,        \* how many of them the accumulator has seen
  state,      \* Crc32c.state
  finished    \* finalize has consumed the accumulator

vars == <<message, fed, state, finished>>

(* Crc32c::new.                                                            *)
new_accumulator == fed = 0 /\ state = MAX /\ finished = FALSE

Init == message \in Messages /\ new_accumulator

(* update with the next n bytes.                                           *)
update(n) ==
  /\ ~ finished /\ fed + n <= Len(message)
  /\ state' = process(state, SubSeq(message, fed + 1, fed + n))
  /\ fed' = fed + n
  /\ UNCHANGED <<message, finished>>

(* The result is left in state.                                            *)
finalize ==
  /\ ~ finished /\ fed = Len(message)
  /\ state' = Xor(state, MAX)
  /\ finished' = TRUE
  /\ UNCHANGED <<message, fed>>

Next == finalize \/ \E n \in 1 .. Len(message) : update(n)

Spec == Init /\ [][Next]_vars

-----------------------------------------------------------------------------
(* Properties.                                                             *)

(* However the bytes are divided among calls of update, wherever chunks    *)
(* and remainders fall, the result is the CRC32C of all of them            *)
(* (checksum.rs:3-5, 84-87).                                               *)
StreamIsCrc32c == finished => state = Reference(message)

(* The checksums of the messages, each computed in one piece.              *)
OneShot == [m \in Messages |-> Xor(process(MAX, m), MAX)]

(* One or two flipped bits change the checksum, in every position relative *)
(* to the chunks: messages of one length with at most one bit set differ   *)
(* from one another in one or two.                                         *)
FlipsAreDetected ==
  finished /\ message # CheckMessage =>
    \A m \in OfLength(Len(message)) : m # message => OneShot[m] # state

=============================================================================
