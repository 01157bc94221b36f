----------------------------- MODULE PageFormat ------------------------------
(***************************************************************************)
(* The page of src/src/page.rs, byte by byte, with its real header and the *)
(* real checksum: what the fuzz target page_parse drives.  A block of      *)
(* bytes, perhaps a stamped page with a bit flipped, perhaps cut off or of *)
(* another page size, is checksummed, then parsed or read into a buffer;   *)
(* a page that passes is changed by its owner and serialised again.        *)
(*                                                                         *)
(* Bytes and numbers are sets of one bits, as in Crc32c.  Pages are small: *)
(* only the bounds of the page size differ from the code's.                *)
(***************************************************************************)
EXTENDS Crc32c

CONSTANTS
  MIN_PAGE_SIZE, MAX_PAGE_SIZE,
  Sizes,        \* the page sizes asked for
  Stored,       \* the size of the pages that were written
  Ids, Lsns, Values,   \* page ids, log sequence numbers, payload bytes
  MaxChanges    \* how often the owner of a page changes it

ASSUME FormatAssumption ==
  /\ Sizes \cup {Stored} \subseteq Nat
  /\ MIN_PAGE_SIZE \in Nat /\ MIN_PAGE_SIZE >= 64 /\ MAX_PAGE_SIZE \in Nat
  /\ Stored >= MIN_PAGE_SIZE
  /\ Ids \subseteq SUBSET (0 .. 63) /\ Lsns \subseteq SUBSET (0 .. 63)
  /\ Values \subseteq Byte
  /\ MaxChanges \in Nat

VARIABLES
  origin, flips,   \* the page the block once was, and the bits damaged since
  verdict,         \* what the last parse or read returned
  asked,           \* its page size, and the id expected, if any
  page, changes    \* the Page it returned, and how often that was changed

formatVars == <<origin, flips, verdict, asked, page, changes>>
allVars    == <<vars, formatVars>>

NoPage == <<>>
AnyId  == {64}   \* no u64: bit 64 is set

-----------------------------------------------------------------------------
(* PageSize, and the fields of a page.                                     *)

PageSize(size) ==
  /\ size >= MIN_PAGE_SIZE /\ size <= MAX_PAGE_SIZE
  /\ \E k \in 0 .. 20 : size = 2 ^ k

PAGE_HEADER_SIZE == 32
MAGIC          == {4, 6, 8, 9, 10, 14, 18, 22, 25, 30}   \* b"PGDB"
FORMAT_VERSION == {0}
OFF_MAGIC   == 0
OFF_VERSION == 4
OFF_PAGE_ID == 8
OFF_LSN     == 16
OFF_CRC     == 24

(* read_u16, read_u32, read_u64, and the same for writing: n bytes at off, *)
(* the lowest first.                                                       *)
Read(bytes, off, n) == UNION {{i + 8 * (k - 1) : i \in bytes[off + k]} : k \in 1 .. n}

Write(bytes, off, n, value) ==
  [i \in DOMAIN bytes |->
     IF i \in off + 1 .. off + n THEN ByteOf(value, i - off - 1) ELSE bytes[i]]

id(bytes)      == Read(bytes, OFF_PAGE_ID, 8)
lsn(bytes)     == Read(bytes, OFF_LSN, 8)
payload(bytes) == SubSeq(bytes, PAGE_HEADER_SIZE + 1, Len(bytes))

(* The checksum skips its own four bytes.  Mutant: the whole rest of the   *)
(* header as well.                                                         *)
ChecksumOfPayload(bytes) ==
  Xor(process(process(MAX, SubSeq(bytes, 1, OFF_CRC)), payload(bytes)), MAX)

compute_checksum(bytes) ==
  Xor(process(process(MAX, SubSeq(bytes, 1, OFF_CRC)),
              SubSeq(bytes, OFF_CRC + 5, Len(bytes))), MAX)

(* AlignedBuffer::new_zeroed; Page::new, which is also what reset leaves.  *)
new_zeroed(size) == Zeros(size)

WithHeader(bytes) ==
  Write(Write(bytes, OFF_MAGIC, 4, MAGIC), OFF_VERSION, 2, FORMAT_VERSION)

new(size) == WithHeader(new_zeroed(size))

(* A fresh checksum.                                                       *)
Sealed(bytes) == Write(bytes, OFF_CRC, 4, compute_checksum(bytes))

stamp(bytes, slot) == Sealed(Write(WithHeader(bytes), OFF_PAGE_ID, 8, slot))

(* Mutant: the checksum in the buffer is taken for the current one.        *)
BytesAsTheyAre(bytes) == bytes
to_checksummed_bytes(bytes) == Sealed(bytes)

(* The superblock of alloc.rs in a payload: fields read and written at     *)
(* their offsets, and what new() makes of them.                            *)
SB_MAGIC == {4, 6, 8, 9, 10, 14, 16, 17, 20, 22, 25, 30}   \* b"PGSB"
SB_VERSION == {0}
SB_MAGIC_OFF     == 0
SB_VERSION_OFF   == 4
SB_HEAD_OFF      == 8
SB_NEXT_OFF      == 16
SB_FREECOUNT_OFF == 24

field(bytes, off, n)      == Read(bytes, PAGE_HEADER_SIZE + off, n)
put(bytes, off, n, value) == Write(bytes, PAGE_HEADER_SIZE + off, n, value)

superblock(size, head, next_new, free_count) ==
  LET magic == put(put(new(size), SB_MAGIC_OFF, 4, SB_MAGIC), SB_VERSION_OFF, 2, SB_VERSION)
  IN  put(put(put(magic, SB_HEAD_OFF, 8, head), SB_NEXT_OFF, 8, next_new),
          SB_FREECOUNT_OFF, 8, free_count)

Parsed(bytes) ==
  IF \/ field(bytes, SB_MAGIC_OFF, 4) # SB_MAGIC
     \/ field(bytes, SB_VERSION_OFF, 2) # SB_VERSION
     \/ field(bytes, SB_NEXT_OFF, 8) = {}
    THEN "InvalidSuperblock"
    ELSE <<field(bytes, SB_HEAD_OFF, 8), field(bytes, SB_NEXT_OFF, 8),
           field(bytes, SB_FREECOUNT_OFF, 8)>>

PageError ==
  {"Io", "InvalidPageSize", "BadMagic", "UnsupportedVersion", "ChecksumMismatch",
   "MisdirectedPage", "ShortRead", "BufferPoolExhausted", "InvalidPageId",
   "InvalidSuperblock"}

(* The first test that fails names the error.  Mutant: the id comes before *)
(* the checksum.                                                           *)
verifyIdFirst(bytes, expected) ==
  IF Read(bytes, OFF_MAGIC, 4) # MAGIC THEN "BadMagic"
  ELSE IF Read(bytes, OFF_VERSION, 2) # FORMAT_VERSION THEN "UnsupportedVersion"
  ELSE IF expected \notin {AnyId, id(bytes)} THEN "MisdirectedPage"
  ELSE IF Read(bytes, OFF_CRC, 4) # compute_checksum(bytes) THEN "ChecksumMismatch"
  ELSE "Ok"

verify(bytes, expected) ==
  IF Read(bytes, OFF_MAGIC, 4) # MAGIC THEN "BadMagic"
  ELSE IF Read(bytes, OFF_VERSION, 2) # FORMAT_VERSION THEN "UnsupportedVersion"
  ELSE IF Read(bytes, OFF_CRC, 4) # compute_checksum(bytes) THEN "ChecksumMismatch"
  ELSE IF expected \notin {AnyId, id(bytes)} THEN "MisdirectedPage"
  ELSE "Ok"

from_bytes(size, bytes) ==
  IF Len(bytes) # size THEN "ShortRead" ELSE verify(bytes, AnyId)

-----------------------------------------------------------------------------
(* The blocks: the messages of Crc32c, and stored pages with no or one bit *)
(* flipped.                                                                *)

Pages ==
  {stamp(Write(Write(new(Stored), OFF_LSN, 8, l), Stored - 1, 1, v), i)
     : i \in Ids, l \in Lsns, v \in Values}

FormatInit ==
  /\ \/ message \in Messages /\ origin = NoPage /\ flips = {}
     \/ /\ origin \in Pages
        /\ \/ flips = {} /\ message = origin
           \/ \E k \in 0 .. 8 * Stored - 1 : flips = {k} /\ message = Flip(origin, k)
  /\ new_accumulator
  /\ verdict = "none" /\ asked = <<>> /\ page = NoPage /\ changes = 0

(* crc32c(data), in every division.  For pages it is left out: each parse   *)
(* computes their checksum.                                                *)
Checksum == origin = NoPage /\ Next /\ UNCHANGED formatVars

(* The verdict on the bytes; the Page, if it is good.                      *)
Judge(size, expected, bytes, result) ==
  /\ finished \/ origin # NoPage
  /\ verdict = "none"
  /\ verdict' = result /\ asked' = <<size, expected>>
  /\ page' = IF result = "Ok" THEN bytes ELSE NoPage
  /\ UNCHANGED <<vars, origin, flips, changes>>

BadSize(size) ==
  ~ PageSize(size) /\ Judge(size, AnyId, <<>>, "InvalidPageSize")

(* drive: cut or padded to the page size.                                  *)
Fit(bytes, size) == [i \in 1 .. size |-> IF i <= Len(bytes) THEN bytes[i] ELSE {}]

drive(size) ==
  PageSize(size) /\ LET b == Fit(message, size)
                    IN  Judge(size, AnyId, b, from_bytes(size, b))

FromBytes(size) ==
  PageSize(size) /\ Judge(size, AnyId, message, from_bytes(size, message))

(* read_into from a file of these bytes into a page of size own.           *)
ReadInto(size, own, slot) ==
  /\ PageSize(size) /\ PageSize(own)
  /\ LET b == Fit(message, size)
     IN  Judge(size, slot, b, IF own # size THEN "InvalidPageSize"
                              ELSE IF Len(message) < size THEN "ShortRead"
                              ELSE verify(b, slot))

(* The owner changes the page; none of the setters touches the checksum.   *)
Change(bytes) ==
  /\ page # NoPage /\ changes < MaxChanges
  /\ page' = bytes /\ changes' = changes + 1
  /\ UNCHANGED <<vars, origin, flips, verdict, asked>>

set_lsn(l)     == Change(Write(page, OFF_LSN, 8, l))
payload_mut(v) == Change(Write(page, PAGE_HEADER_SIZE, 1, v))
reset          == Change(new(Len(page)))

write_page(size, i) == Len(page) = size /\ Change(stamp(page, i))

FormatNext ==
  \/ Checksum
  \/ \E size \in Sizes :
       \/ BadSize(size) \/ drive(size) \/ FromBytes(size)
       \/ \E i \in Ids :
            write_page(size, i) \/ \E own \in Sizes : ReadInto(size, own, i)
  \/ reset
  \/ \E l \in Lsns : set_lsn(l)
  \/ \E v \in Values : payload_mut(v)

FormatSpec == FormatInit /\ [][FormatNext]_allVars

-----------------------------------------------------------------------------
(* Properties.                                                             *)

(* Whatever its owner has done to a page that was parsed, it serialises to *)
(* a block that parses to the same id, lsn and payload                     *)
(* (fuzz_targets/page_parse.rs:2-3, page.rs:298-301), and can be read back *)
(* from any slot it is written to.  The same of a superblock in a page of  *)
(* that size: its fields do not overlap.                                   *)
RoundTrips ==
  page # NoPage =>
    LET b == to_checksummed_bytes(page)
    IN  /\ from_bytes(Len(page), b) = "Ok"
        /\ <<id(b), lsn(b), payload(b)>> = <<id(page), lsn(page), payload(page)>>
        /\ \A i \in Ids : verify(stamp(page, i), i) = "Ok"
        /\ \A h, c \in Ids, n \in Lsns \ {{}} :
             Parsed(stamp(superblock(Len(page), h, n, c), {})) = <<h, n, c>>

(* Only a whole, undamaged page of the right size, at the slot it was      *)
(* written to, is accepted (page.rs:17-19, file.rs:173-175).               *)
OnlyIntactPagesPass ==
  verdict \notin PageError \cup {"none"} =>
    /\ origin # NoPage /\ flips = {} /\ asked[1] = Len(origin)
    /\ asked[2] \in {AnyId, id(origin)}

(* The bit positions of n bytes at off.                                    *)
Bits(off, n) == 8 * off .. 8 * (off + n) - 1

(* The error tells damage from a page in the wrong place: a flipped bit is *)
(* never reported as a misdirected page, not even in the id, and only the  *)
(* magic and the version are reported as such (error.rs:58-94).            *)
ErrorNamesTheDamage ==
  /\ origin # NoPage /\ verdict \notin {"none", "InvalidPageSize"}
  /\ asked[1] = Len(origin)
  =>
    CASE flips \cap Bits(OFF_MAGIC, 4) # {}   -> verdict = "BadMagic"
      [] flips \cap Bits(OFF_VERSION, 2) # {} -> verdict = "UnsupportedVersion"
      [] flips \ Bits(OFF_MAGIC, 6) # {}      -> verdict = "ChecksumMismatch"
      [] flips = {}                           -> verdict \in {"Ok", "MisdirectedPage"}

=============================================================================
