--------------------------- MODULE PageFileProofs ----------------------------
(***************************************************************************)
(* Proofs about PageFile, for every number of threads, size of a page and  *)
(* range of offsets: reads are whole, and a page written alone to its slot *)
(* stays there, and through crashes once it is synced.                     *)
(***************************************************************************)
EXTENDS PageFile, LeastNumber

Page == UNION {Data[id] : id \in PageId}

(* A cell of the file is a hole or comes from stamp: a header is only ever *)
(* written together with the checksum of a page for its id.                *)
PageCell ==
  {Nothing} \cup UNION {{Stamped(i, d)[k] : d \in Data[i], k \in Cell} : i \in PageId}

(* What a thread in write_page or read_into has at hand.                   *)
Writing ==
  {w \in [do : {"write"}, id : PageId, data : Page, k : 0 .. page_size] :
     w.data \in Data[w.id]}
Reading == [do : {"read"}, id : PageId, buf : [Cell -> PageCell], k : 0 .. page_size]

(* Files, buffers and pages.                                               *)
FileTypes ==
  /\ file \in [Offset -> PageCell] /\ disk \in [Offset -> PageCell]
  /\ op \in [Thread -> {Idle} \cup Writing \cup Reading]
  /\ settled \in [PageId -> Page \cup {NoData}]
  /\ synced \in [PageId -> Page \cup {NoData}]
  /\ \A id \in PageId : {settled[id], synced[id]} \subseteq Data[id] \cup {NoData}

(* The slot of id on a medium holds the first n cells of page d.           *)
SlotHolds(medium, id, d, n) ==
  \A k \in 1 .. n : medium[byte_offset(id) + k - 1] = Stamped(id, d)[k]

(* A settled page is whole, and nobody is writing to its slot.             *)
SettledInv ==
  \A id \in PageId : settled[id] # NoData =>
    /\ \A t \in Thread : ~ Writes(t, id)
    /\ SlotHolds(file, id, settled[id], page_size)

(* A write that none has overlapped is the only one to its slot, and what  *)
(* it has written is there.                                                *)
AloneInv ==
  \A t \in Thread \ overlap : op[t].do = "write" =>
    /\ \A u \in Thread \ {t} : ~ Writes(u, op[t].id)
    /\ SlotHolds(file, op[t].id, op[t].data, op[t].k)

(* A synced page is settled still, and whole on the disk.                  *)
SyncedInv ==
  \A id \in PageId : synced[id] # NoData =>
    /\ synced[id] = settled[id]
    /\ SlotHolds(disk, id, synced[id], page_size)

FileInv == FileTypes /\ SettledInv /\ AloneInv /\ SyncedInv

-----------------------------------------------------------------------------
(* Slots.                                                                  *)

(* Division with remainder.                                                *)
LEMMA Quotient ==
  ASSUME NEW x \in Nat, NEW y \in Nat \ {0}
  PROVE  /\ x \div y \in Nat /\ x % y \in 0 .. y - 1
         /\ x = (y * (x \div y)) + (x % y)
OBVIOUS

(* Multiples of y that differ, differ by y at least.                       *)
LEMMA Multiples ==
  ASSUME NEW y \in Nat \ {0}, NEW a \in Nat, NEW b \in Nat, y * a < y * b
  PROVE  y * a + y <= y * b
<1>1. a < b
  <2>1. a >= b => y * a >= y * b
    OBVIOUS
  <2> QED
    BY <2>1
<1>2. a + 1 <= b
  BY <1>1
<1>3. y * (a + 1) <= y * b
  BY <1>2
<1>4. y * (a + 1) = y * a + y
  OBVIOUS
<1> QED
  BY <1>3, <1>4

(* A multiple of y that is not negative is a multiple by a natural number. *)
LEMMA Cofactor ==
  ASSUME NEW y \in Nat \ {0}, NEW r \in Int, y * r >= 0
  PROVE  r \in Nat
<1>1. ASSUME r < 0 PROVE FALSE
  <2> DEFINE s == 0 - r
  <2>1. s \in Nat \ {0}
    BY <1>1
  <2>2. y * r = 0 - (y * s)
    OBVIOUS
  <2> HIDE DEF s
  <2>3. y * s > 0
    BY <2>1
  <2>4. y * s \in Int
    BY <2>1
  <2> QED
    BY <2>2, <2>3, <2>4
<1> QED
  BY <1>1

(* A slot starts at a multiple of page_size and is within the range of     *)
(* offsets: the product wraps to the start of a slot, never inside one.    *)
LEMMA SlotStart ==
  ASSUME NEW id \in PageId
  PROVE  /\ byte_offset(id) \in Nat /\ byte_offset(id) + page_size <= OffsetSpace
         /\ \E m \in Nat : byte_offset(id) = page_size * m
<1> DEFINE ps == page_size
           x  == id * ps
           n  == OffsetSpace \div ps
           q  == x \div OffsetSpace
<1>1. ps \in Nat \ {0} /\ OffsetSpace \in Nat \ {0} /\ id \in Nat /\ x \in Nat
  BY FileAssumption
<1>2. n \in Nat /\ OffsetSpace = ps * n
  BY <1>1, FileAssumption, Quotient
<1>3. /\ q \in Nat /\ byte_offset(id) \in 0 .. OffsetSpace - 1
      /\ x = OffsetSpace * q + byte_offset(id)
  BY <1>1, Quotient DEF byte_offset
<1> HIDE DEF n, q
<1>4. OffsetSpace * q = ps * (n * q)
  BY <1>1, <1>2, <1>3
<1>5. byte_offset(id) = ps * (id - n * q)
  <2>1. byte_offset(id) = id * ps - ps * (n * q)
    BY <1>1, <1>3, <1>4
  <2> QED
    BY <1>1, <1>2, <1>3, <2>1
<1>6. id - n * q \in Nat
  <2>1. id - n * q \in Int
    BY <1>1, <1>2, <1>3
  <2> QED
    BY <1>1, <1>3, <1>5, <2>1, Cofactor
<1>7. byte_offset(id) + ps <= OffsetSpace
  <2>1. ps * (id - n * q) < ps * n
    BY <1>2, <1>3, <1>5
  <2> QED
    BY <1>1, <1>2, <1>5, <1>6, <2>1, Multiples
<1> QED
  BY <1>3, <1>5, <1>6, <1>7

(* Slots that start at different offsets have no offset in common.         *)
LEMMA SlotsDisjoint ==
  ASSUME NEW i \in PageId, NEW j \in PageId, NEW k \in Cell, NEW l \in Cell,
         byte_offset(i) + k = byte_offset(j) + l
  PROVE  byte_offset(i) = byte_offset(j) /\ k = l
<1>0. /\ page_size \in Nat \ {0} /\ k \in Int /\ l \in Int
      /\ k - l < page_size /\ l - k < page_size
  BY FileAssumption DEF Cell
<1>1. PICK m \in Nat : byte_offset(i) = page_size * m
  BY SlotStart
<1>2. PICK n \in Nat : byte_offset(j) = page_size * n
  BY SlotStart
<1>3. ~ (page_size * m < page_size * n)
  BY <1>0, <1>1, <1>2, Multiples
<1>4. ~ (page_size * n < page_size * m)
  BY <1>0, <1>1, <1>2, Multiples
<1>5. page_size * m \in Int /\ page_size * n \in Int
  BY <1>0
<1> QED
  BY <1>0, <1>1, <1>2, <1>3, <1>4, <1>5

(* The cells of a slot are in the file.                                    *)
LEMMA SlotOffsets ==
  ASSUME NEW id \in PageId, NEW k \in Cell
  PROVE  byte_offset(id) + k - 1 \in Offset
BY SlotStart, FileAssumption DEF Offset, Cell

(* A page has page_size words.                                             *)
LEMMA PageFacts ==
  /\ page_size \in Nat /\ page_size > 1
  /\ \A id \in PageId : \A d \in Data[id] :
       d \in Page /\ d = [k \in Cell |-> d[k]] /\ d # NoData
<1>1. page_size \in Nat /\ page_size > 1
  BY FileAssumption
<1>2. ASSUME NEW id \in PageId, NEW d \in Data[id]
      PROVE  d \in Page /\ d = [k \in Cell |-> d[k]] /\ d # NoData
  <2>1. d = [k \in Cell |-> d[k]]
    BY FileAssumption DEF Cell
  <2>2. DOMAIN d = Cell /\ 1 \in Cell
    BY <1>1, <2>1 DEF Cell
  <2>3. DOMAIN NoData = {}
    BY DEF NoData
  <2> QED
    BY <2>1, <2>2, <2>3 DEF Page
<1> QED
  BY <1>1, <1>2

(* What stamp makes: cells of the file, each of them something.            *)
LEMMA StampedCells ==
  ASSUME NEW id \in PageId, NEW d \in Data[id], NEW k \in Cell
  PROVE  /\ Stamped(id, d)[k] \in PageCell
         /\ Stamped(id, d)[k] # Nothing /\ Stamped(id, d)[k][1] = d[k]
         /\ Len(Stamped(id, d)[k]) = 3 <=> k = 1
         /\ k = 1 => Stamped(id, d)[k][2] = id /\ Stamped(id, d)[k][3] = Checksum(id, d)
<1>1. Stamped(id, d)[k] \in PageCell
  BY DEF PageCell
<1>2. Stamped(id, d)[k] = IF k = 1 THEN <<d[k], id, Checksum(id, d)>> ELSE <<d[k]>>
  BY DEF Stamped
<1> QED
  BY <1>1, <1>2 DEF Nothing

(* One pwrite puts cells of the page into its slot and nowhere else.       *)
LEMMA PwriteCells ==
  ASSUME NEW medium \in [Offset -> PageCell], NEW id \in PageId, NEW d \in Data[id],
         NEW k \in 0 .. page_size, NEW n \in Cell, k + n <= page_size,
         NEW m, m = pwrite(medium, Stamped(id, d), byte_offset(id), k, n)
  PROVE  /\ m \in [Offset -> PageCell]
         /\ \A j \in PageId, l \in Cell : byte_offset(j) # byte_offset(id) =>
              m[byte_offset(j) + l - 1] = medium[byte_offset(j) + l - 1]
         /\ \A l \in Cell : m[byte_offset(id) + l - 1] =
              IF l \in k + 1 .. k + n THEN Stamped(id, d)[l]
                                      ELSE medium[byte_offset(id) + l - 1]
<1>0. /\ byte_offset(id) \in Nat /\ page_size \in Nat /\ k \in Nat /\ n \in Nat
      /\ \A o \in Offset : o \in Nat
  BY SlotStart, PageFacts DEF Cell, Offset
<1>1. ASSUME NEW o \in Offset, o - byte_offset(id) \in k .. k + n - 1
      PROVE  o - byte_offset(id) + 1 \in Cell
  BY <1>0, <1>1 DEF Cell
<1>2. m \in [Offset -> PageCell]
  <2>1. ASSUME NEW o \in Offset
        PROVE  (IF o - byte_offset(id) \in k .. k + n - 1
                  THEN Stamped(id, d)[o - byte_offset(id) + 1] ELSE medium[o]) \in PageCell
    BY <1>1, StampedCells
  <2> QED
    BY <2>1 DEF pwrite
<1>3. ASSUME NEW j \in PageId, NEW l \in Cell, byte_offset(j) # byte_offset(id)
      PROVE  m[byte_offset(j) + l - 1] = medium[byte_offset(j) + l - 1]
  <2> DEFINE o == byte_offset(j) + l - 1
  <2>1. o \in Offset
    BY SlotOffsets
  <2>2. ASSUME o - byte_offset(id) \in k .. k + n - 1 PROVE FALSE
    <3>1. o - byte_offset(id) + 1 \in Cell
      BY <1>1, <2>1, <2>2
    <3>2. byte_offset(id) + (o - byte_offset(id) + 1) = byte_offset(j) + l
      BY <1>0, SlotStart DEF Cell
    <3> HIDE DEF o
    <3> QED
      BY <1>3, <3>1, <3>2, SlotsDisjoint
  <2> HIDE DEF o
  <2>3. m[o] = medium[o]
    BY <2>1, <2>2 DEF pwrite
  <2> QED
    BY <2>3 DEF o
<1>4. ASSUME NEW l \in Cell
      PROVE  m[byte_offset(id) + l - 1] =
               IF l \in k + 1 .. k + n THEN Stamped(id, d)[l]
                                       ELSE medium[byte_offset(id) + l - 1]
  <2> DEFINE o == byte_offset(id) + l - 1
  <2>1. o \in Offset /\ o - byte_offset(id) + 1 = l /\ o - byte_offset(id) = l - 1
    BY <1>0, SlotOffsets DEF Cell
  <2>2. l - 1 \in k .. k + n - 1 <=> l \in k + 1 .. k + n
    BY <1>0 DEF Cell
  <2> HIDE DEF o
  <2>3. m[o] = IF l \in k + 1 .. k + n THEN Stamped(id, d)[l] ELSE medium[o]
    BY <2>1, <2>2 DEF pwrite
  <2> QED
    BY <2>3 DEF o
<1> QED
  BY <1>2, <1>3, <1>4

-----------------------------------------------------------------------------
(* Types; a full buffer that verify accepts.                               *)

(* What a thread is doing.                                                 *)
LEMMA OpFacts ==
  ASSUME FileTypes, NEW t \in Thread
  PROVE  /\ op[t].do = "write" => op[t] \in Writing
         /\ op[t].do = "read" => op[t] \in Reading
         /\ op[t].do \in {"write", "read"} =>
              op[t].id \in PageId /\ op[t].k \in 0 .. page_size
         /\ op[t].do = "write" => op[t].data \in Data[op[t].id]
<1>1. op[t] \in {Idle} \cup Writing \cup Reading
  BY DEF FileTypes
<1>2. CASE op[t] = Idle
  BY <1>2 DEF Idle
<1>3. CASE op[t] \in Writing
  BY <1>3 DEF Writing
<1>4. CASE op[t] \in Reading
  BY <1>4 DEF Reading
<1> QED
  BY <1>1, <1>2, <1>3, <1>4

(* Nothing is written at first.                                            *)
LEMMA FileTypesInit == Init => FileTypes
BY DEF Init, FileTypes, PageCell, Nothing, NoData

(* Every step keeps the types.                                             *)
LEMMA FileTypesStep ==
  ASSUME FileTypes, [Next]_vars
  PROVE  FileTypes'
<1> USE DEF FileTypes
<1>1. CASE UNCHANGED vars
  BY <1>1 DEF vars, historyVars
<1>2. ASSUME NEW t \in Thread, NEW id \in PageId, ReadStart(t, id) PROVE FileTypes'
  <2>1. [do |-> "read", id |-> id, buf |-> [k \in Cell |-> Nothing], k |-> 0] \in Reading
    BY PageFacts DEF Reading, PageCell
  <2> QED
    BY <1>2, <2>1 DEF ReadStart, Start, historyVars
<1>3. ASSUME NEW t \in Thread, NEW id \in PageId, NEW d \in Data[id], WriteStart(t, id, d)
      PROVE  FileTypes'
  <2>1. [do |-> "write", id |-> id, data |-> d, k |-> 0] \in Writing
    BY PageFacts DEF Writing
  <2>2. op' \in [Thread -> {Idle} \cup Writing \cup Reading] /\ UNCHANGED <<file, disk>>
    BY <1>3, <2>1 DEF WriteStart, Start
  <2>3. \A i \in PageId :
          settled'[i] \in {settled[i], NoData} /\ synced'[i] \in {synced[i], NoData}
    BY <1>3 DEF WriteStart, Forget
  <2>4. settled' = [i \in PageId |-> settled'[i]] /\ synced' = [i \in PageId |-> synced'[i]]
    BY <1>3 DEF WriteStart, Forget
  <2> QED
    BY <2>2, <2>3, <2>4
<1>4. ASSUME NEW t \in Thread, NEW n \in Cell, WriteCells(t, n) PROVE FileTypes'
  <2>1. /\ op[t] \in Writing /\ op[t].id \in PageId /\ op[t].data \in Data[op[t].id]
        /\ op[t].k \in 0 .. page_size /\ op[t].k + n <= page_size
    BY <1>4, OpFacts DEF WriteCells
  <2>2. file' \in [Offset -> PageCell]
    BY <1>4, <2>1, PwriteCells DEF WriteCells
  <2>3. op[t].k + n \in 0 .. page_size
    BY <2>1, PageFacts DEF Cell
  <2>4. [op[t] EXCEPT !.k = op[t].k + n] \in Writing
    BY <2>1, <2>3 DEF Writing
  <2>5. op' = [op EXCEPT ![t] = [op[t] EXCEPT !.k = op[t].k + n]]
    BY <1>4 DEF WriteCells, Advance
  <2> QED
    BY <1>4, <2>2, <2>4, <2>5 DEF WriteCells, historyVars
<1>5. ASSUME NEW t \in Thread, NEW n \in Cell, ReadCells(t, n) PROVE FileTypes'
  <2> DEFINE b == pread(file, op[t].buf, byte_offset(op[t].id), op[t].k, n)
  <2>1. /\ op[t] \in Reading /\ op[t].id \in PageId
        /\ op[t].k \in 0 .. page_size /\ op[t].k + n <= page_size
    BY <1>5, OpFacts DEF ReadCells
  <2>2. b \in [Cell -> PageCell]
    BY <2>1, SlotOffsets DEF pread, Reading
  <2>3. op[t].k + n \in 0 .. page_size
    BY <2>1, PageFacts DEF Cell
  <2>5. op' = [op EXCEPT ![t] = [op[t] EXCEPT !.k = op[t].k + n, !.buf = b]]
    BY <1>5 DEF ReadCells
  <2> HIDE DEF b
  <2>4. [op[t] EXCEPT !.k = op[t].k + n, !.buf = b] \in Reading
    BY <2>1, <2>2, <2>3 DEF Reading
  <2> QED
    BY <1>5, <2>4, <2>5 DEF ReadCells, historyVars
<1>6. ASSUME NEW t \in Thread, WriteDone(t) PROVE FileTypes'
  <2>1. op[t].id \in PageId /\ op[t].data \in Data[op[t].id] /\ op[t].data \in Page
    BY <1>6, OpFacts, PageFacts DEF WriteDone
  <2> QED
    BY <1>6, <2>1 DEF WriteDone, Return
<1>7. ASSUME NEW t \in Thread, WriteError(t) \/ ReadDone(t) \/ ReadError(t) PROVE FileTypes'
  BY <1>7 DEF WriteError, ReadDone, ReadError, Return
<1>8. CASE Sync \/ Crash
  BY <1>8 DEF Sync, Crash, sync_data
<1>9. ASSUME NEW o \in Offset, WriteBack(o) PROVE FileTypes'
  BY <1>9 DEF WriteBack, historyVars
<1> QED
  BY <1>1, <1>2, <1>3, <1>4, <1>5, <1>6, <1>7, <1>8, <1>9 DEF Next

(* Every cell of the file, of the disk and of a buffer has its type.       *)
THEOREM FileTypesHold == Spec => []FileTypes
BY FileTypesInit, FileTypesStep, PTL DEF Spec

(* read_into returns Ok for a buffer only if some write_page for that id   *)
(* was given the page in it, whole: the header it reads came with the      *)
(* checksum of one page, and the words it reads have that checksum.        *)
THEOREM OkReadsAreWhole == Spec => []ReadsAreWhole
<1>1. FileTypes => ReadsAreWhole
  <2> SUFFICES ASSUME FileTypes, NEW t \in Thread, op[t].do = "read",
                      Verify(op[t].buf, op[t].id)
               PROVE  Words(op[t].buf) \in Data[op[t].id]
    BY DEF ReadsAreWhole
  <2> DEFINE h == op[t].buf[1]
  <2>1. h \in PageCell
    <3>1. op[t].buf \in [Cell -> PageCell]
      BY OpFacts DEF Reading
    <3>2. 1 \in Cell
      BY PageFacts DEF Cell
    <3> QED
      BY <3>1, <3>2
  <2>2. /\ Len(h) = 3 /\ h[3] = Checksum(h[2], Words(op[t].buf)) /\ h[2] = op[t].id
    BY DEF Verify, HasHeader
  <2> HIDE DEF h
  <2>3. h # Nothing
    <3>1. Len(Nothing) # 3
      BY DEF Nothing
    <3> QED
      BY <2>2, <3>1, Zenon
  <2>4. PICK i \in PageId : \E d \in Data[i], k \in Cell : h = Stamped(i, d)[k]
    BY <2>1, <2>3 DEF PageCell
  <2>5. PICK d \in Data[i], k \in Cell : h = Stamped(i, d)[k]
    BY <2>4
  <2>6. h[2] = i /\ h[3] = Checksum(i, d)
    BY <2>2, <2>5, StampedCells
  <2> QED
    BY <2>2, <2>6 DEF Checksum
<1> QED
  BY <1>1, FileTypesHold, PTL

-----------------------------------------------------------------------------
(* Settled pages.                                                          *)

(* Two ids share a slot, or no writer to one writes to the other's.        *)
LEMMA SharingFacts ==
  ASSUME NEW i \in PageId, NEW j \in PageId
  PROVE  /\ i \in Sharing(i) /\ (i \in Sharing(j) <=> j \in Sharing(i))
         /\ i \in Sharing(j) <=> byte_offset(i) = byte_offset(j)
BY DEF Sharing

(* Steps that write nothing and start no write.                            *)
LEMMA QuietStep ==
  ASSUME FileTypes, SettledInv, AloneInv, UNCHANGED <<file, settled>>,
         \A t \in Thread : op'[t].do = "write" =>
           op'[t] = op[t] /\ (t \in overlap => t \in overlap')
  PROVE  SettledInv' /\ AloneInv'
<1>1. \A t \in Thread, id \in PageId : Writes(t, id)' => Writes(t, id)
  BY DEF Writes, Sharing
<1>2. SettledInv'
  BY <1>1 DEF SettledInv, SlotHolds
<1>3. ASSUME NEW t \in Thread \ overlap', op'[t].do = "write"
      PROVE  /\ \A u \in Thread \ {t} : ~ Writes(u, op[t].id)'
             /\ SlotHolds(file', op'[t].id, op'[t].data, op'[t].k)
  <2>1. /\ t \notin overlap /\ op'[t] = op[t] /\ op[t].do = "write"
    BY <1>3
  <2>2. /\ \A u \in Thread \ {t} : ~ Writes(u, op[t].id)
        /\ SlotHolds(file, op[t].id, op[t].data, op[t].k)
    BY <2>1 DEF AloneInv
  <2>3. \A u \in Thread : Writes(u, op[t].id)' => Writes(u, op[t].id)
    BY <2>1 DEF Writes
  <2> QED
    BY <2>1, <2>2, <2>3
<1> QED
  BY <1>2, <1>3 DEF AloneInv, SlotHolds

(* write_page starts: whatever the slot held is settled no longer, and who *)
(* else writes to it is overlapped.                                        *)
LEMMA WriteStartStep ==
  ASSUME FileTypes, SettledInv, AloneInv, SyncedInv, NEW t \in Thread,
         NEW id \in PageId, NEW d \in Data[id], WriteStart(t, id, d)
  PROVE  SettledInv' /\ AloneInv' /\ SyncedInv'
<1> DEFINE w == [do |-> "write", id |-> id, data |-> d, k |-> 0]
<1>1. /\ op[t].do = "idle" /\ op' = [op EXCEPT ![t] = w] /\ UNCHANGED <<file, disk>>
      /\ settled' = Forget(settled, Sharing(id)) /\ synced' = Forget(synced, Sharing(id))
      /\ \A u \in Thread \ {t} : Writes(u, id) => u \in overlap' /\ t \in overlap'
      /\ overlap \subseteq overlap'
  BY DEF WriteStart, Start
<1>2. /\ op'[t].do = "write" /\ op'[t].id = id /\ op'[t].k = 0
      /\ \A u \in Thread \ {t} : op'[u] = op[u]
  BY <1>1 DEF FileTypes
<1> HIDE DEF w
<1>3. \A i \in PageId : settled'[i] # NoData =>
        i \notin Sharing(id) /\ settled'[i] = settled[i]
  BY <1>1 DEF Forget
<1>4. \A i \in PageId : synced'[i] # NoData =>
        i \notin Sharing(id) /\ synced'[i] = synced[i]
  BY <1>1 DEF Forget
<1>5. SettledInv'
  <2>1. ASSUME NEW i \in PageId, settled'[i] # NoData
        PROVE  /\ \A u \in Thread : ~ Writes(u, i)'
               /\ SlotHolds(file', i, settled'[i], page_size)
    <3>1. id \notin Sharing(i) /\ settled'[i] = settled[i] /\ settled[i] # NoData
      BY <1>3, <2>1, SharingFacts
    <3>2. /\ \A u \in Thread : ~ Writes(u, i)
          /\ SlotHolds(file, i, settled[i], page_size)
      BY <3>1 DEF SettledInv
    <3>3. \A u \in Thread : ~ Writes(u, i)'
      BY <1>2, <3>1, <3>2 DEF Writes
    <3> QED
      BY <1>1, <3>1, <3>2, <3>3
  <2> QED
    BY <2>1 DEF SettledInv, SlotHolds
<1>6. AloneInv'
  <2>1. ASSUME NEW u \in Thread \ overlap', op'[u].do = "write"
        PROVE  /\ \A v \in Thread \ {u} : ~ Writes(v, op[u].id)'
               /\ SlotHolds(file', op'[u].id, op'[u].data, op'[u].k)
    <3>1. CASE u = t
      <4>1. \A v \in Thread \ {t} : ~ Writes(v, id)
        BY <1>1, <2>1, <3>1
      <4>2. \A v \in Thread \ {t} : ~ Writes(v, op[t].id)'
        BY <1>2, <4>1 DEF Writes
      <4> QED
        BY <1>2, <3>1, <4>2 DEF SlotHolds
    <3>2. CASE u # t
      <4>1. /\ op'[u] = op[u] /\ u \notin overlap /\ ~ Writes(u, id)
        BY <1>1, <1>2, <2>1, <3>2
      <4>2. /\ \A v \in Thread \ {u} : ~ Writes(v, op[u].id)
            /\ SlotHolds(file, op[u].id, op[u].data, op[u].k)
        BY <2>1, <4>1 DEF AloneInv
      <4>3. op[u].id \in PageId /\ op[u].do = "write"
        BY <2>1, <4>1, OpFacts
      <4>4. id \notin Sharing(op[u].id)
        BY <4>1, <4>3, SharingFacts DEF Writes
      <4>5. \A v \in Thread \ {u} : ~ Writes(v, op[u].id)'
        BY <1>2, <4>1, <4>2, <4>4 DEF Writes
      <4> QED
        BY <1>1, <4>1, <4>2, <4>5
    <3> QED
      BY <3>1, <3>2
  <2> QED
    BY <2>1 DEF AloneInv, SlotHolds
<1>7. SyncedInv'
  <2>1. ASSUME NEW i \in PageId, synced'[i] # NoData
        PROVE  synced'[i] = settled'[i] /\ SlotHolds(disk', i, synced'[i], page_size)
    <3>1. i \notin Sharing(id) /\ synced'[i] = synced[i] /\ settled'[i] = settled[i]
      BY <1>1, <1>4, <2>1 DEF Forget
    <3> QED
      BY <1>1, <2>1, <3>1 DEF SyncedInv
  <2> QED
    BY <2>1 DEF SyncedInv, SlotHolds
<1> QED
  BY <1>5, <1>6, <1>7

(* pwrite changes one slot only, which is settled for nobody, and in it    *)
(* adds to what the same write has written.                                *)
LEMMA WriteCellsStep ==
  ASSUME FileTypes, SettledInv, AloneInv, SyncedInv, NEW t \in Thread, NEW n \in Cell,
         WriteCells(t, n)
  PROVE  SettledInv' /\ AloneInv' /\ SyncedInv'
<1> DEFINE id == op[t].id
           d  == op[t].data
           k  == op[t].k
<1>1. /\ op[t].do = "write" /\ k + n <= page_size
      /\ UNCHANGED <<disk, overlap, settled, synced>>
      /\ file' = pwrite(file, Stamped(id, d), byte_offset(id), k, n)
      /\ op' = [op EXCEPT ![t] = [op[t] EXCEPT !.k = k + n]]
  BY DEF WriteCells, Advance, historyVars
<1>2. id \in PageId /\ d \in Data[id] /\ k \in 0 .. page_size /\ op[t] \in Writing
  BY <1>1, OpFacts
<1>3. /\ op'[t].do = "write" /\ op'[t].id = id /\ op'[t].data = d /\ op'[t].k = k + n
      /\ \A u \in Thread \ {t} : op'[u] = op[u]
  BY <1>1, <1>2 DEF FileTypes, Writing
<1>4. \A u \in Thread, i \in PageId : Writes(u, i)' = Writes(u, i)
  BY <1>1, <1>3 DEF Writes
<1> HIDE DEF id, d, k
<1>5. /\ \A j \in PageId, l \in Cell : byte_offset(j) # byte_offset(id) =>
           file'[byte_offset(j) + l - 1] = file[byte_offset(j) + l - 1]
      /\ \A l \in Cell : file'[byte_offset(id) + l - 1] =
           IF l \in k + 1 .. k + n THEN Stamped(id, d)[l] ELSE file[byte_offset(id) + l - 1]
  BY <1>1, <1>2, PwriteCells DEF FileTypes
<1>6. ASSUME NEW i \in PageId, id \notin Sharing(i), NEW p, NEW m \in 0 .. page_size,
             SlotHolds(file, i, p, m)
      PROVE  SlotHolds(file', i, p, m)
  <2>1. byte_offset(i) # byte_offset(id)
    BY <1>2, <1>6, SharingFacts
  <2>2. \A l \in 1 .. m : l \in Cell
    BY PageFacts DEF Cell
  <2> QED
    BY <1>5, <1>6, <2>1, <2>2 DEF SlotHolds
<1>7. SettledInv'
  <2>1. ASSUME NEW i \in PageId, settled[i] # NoData
        PROVE  /\ \A u \in Thread : ~ Writes(u, i)'
               /\ SlotHolds(file', i, settled[i], page_size)
    <3>1. /\ \A u \in Thread : ~ Writes(u, i)
          /\ SlotHolds(file, i, settled[i], page_size)
      BY <2>1 DEF SettledInv
    <3>2. id \notin Sharing(i)
      BY <1>1, <3>1 DEF Writes, id
    <3>3. page_size \in 0 .. page_size
      BY PageFacts
    <3> QED
      BY <1>4, <1>6, <3>1, <3>2, <3>3
  <2> QED
    BY <1>1, <2>1 DEF SettledInv, SlotHolds
<1>8. AloneInv'
  <2>1. ASSUME NEW u \in Thread \ overlap, op'[u].do = "write"
        PROVE  /\ \A v \in Thread \ {u} : ~ Writes(v, op[u].id)'
               /\ SlotHolds(file', op'[u].id, op'[u].data, op'[u].k)
    <3>1. /\ op[u].do = "write" /\ op'[u].id = op[u].id /\ op'[u].data = op[u].data
      BY <1>1, <1>3, <2>1 DEF id, d
    <3>2. /\ \A v \in Thread \ {u} : ~ Writes(v, op[u].id)
          /\ SlotHolds(file, op[u].id, op[u].data, op[u].k)
      BY <2>1, <3>1 DEF AloneInv
    <3>3. op[u].id \in PageId /\ op[u].k \in 0 .. page_size
      BY <3>1, OpFacts
    <3>4. \A v \in Thread \ {u} : ~ Writes(v, op[u].id)'
      <4>1. \A v \in Thread \ {u} : op'[v].do = "write" =>
              op[v].do = "write" /\ op'[v].id = op[v].id
        BY <1>1, <1>3 DEF id
      <4> QED
        BY <3>1, <3>2, <4>1 DEF Writes, Sharing
    <3>5. SlotHolds(file', op'[u].id, op'[u].data, op'[u].k)
      <4>1. CASE u = t
        <5>1. ASSUME NEW l \in 1 .. k + n
              PROVE  file'[byte_offset(id) + l - 1] = Stamped(id, d)[l]
          <6>1. l \in Cell /\ (l \in k + 1 .. k + n \/ l \in 1 .. k)
            BY <1>1, <1>2, PageFacts DEF Cell
          <6>2. l \in 1 .. k => file[byte_offset(id) + l - 1] = Stamped(id, d)[l]
            BY <3>2, <4>1 DEF SlotHolds, id, d, k
          <6> QED
            BY <1>5, <6>1, <6>2
        <5> QED
          BY <1>3, <4>1, <5>1 DEF SlotHolds
      <4>2. CASE u # t
        <5>1. id \notin Sharing(op[u].id)
          BY <1>1, <3>2, <4>2 DEF Writes, id
        <5>2. SlotHolds(file', op[u].id, op[u].data, op[u].k)
          BY <1>6, <3>2, <3>3, <5>1
        <5> QED
          BY <1>3, <4>2, <5>2
      <4> QED
        BY <4>1, <4>2
    <3> QED
      BY <3>4, <3>5
  <2> QED
    BY <1>1, <2>1 DEF AloneInv, SlotHolds
<1>9. SyncedInv'
  BY <1>1 DEF SyncedInv, SlotHolds
<1> QED
  BY <1>7, <1>8, <1>9

(* write_page returns Ok: if none overlapped it, its page is settled.      *)
LEMMA WriteDoneStep ==
  ASSUME FileTypes, SettledInv, AloneInv, SyncedInv, NEW t \in Thread, WriteDone(t)
  PROVE  SettledInv' /\ AloneInv' /\ SyncedInv'
<1> DEFINE id == op[t].id
           d  == op[t].data
<1>1. /\ op[t].do = "write" /\ op[t].k = page_size /\ UNCHANGED <<file, disk, synced>>
      /\ settled' = IF t \in overlap THEN settled ELSE [settled EXCEPT ![id] = d]
      /\ op' = [op EXCEPT ![t] = Idle] /\ overlap' = overlap \ {t}
  BY DEF WriteDone, Return
<1>2. id \in PageId /\ d \in Data[id]
  BY <1>1, OpFacts
<1>3. /\ op'[t].do = "idle" /\ \A u \in Thread \ {t} : op'[u] = op[u]
  BY <1>1 DEF FileTypes, Idle
<1>4. \A u \in Thread, i \in PageId : Writes(u, i)' => Writes(u, i) /\ u # t
  BY <1>3 DEF Writes
<1>5. \A i \in Sharing(id) : settled[i] = NoData /\ synced[i] = NoData
  <2>1. ASSUME NEW i \in Sharing(id) PROVE settled[i] = NoData
    <3>1. i \in PageId /\ id \in Sharing(i)
      BY <1>2, <2>1 DEF Sharing
    <3>2. Writes(t, i)
      BY <1>1, <3>1 DEF Writes
    <3> QED
      BY <3>1, <3>2 DEF SettledInv
  <2> QED
    BY <2>1 DEF SyncedInv, Sharing
<1> HIDE DEF id, d
<1>6. \A i \in PageId \ {id} : settled'[i] = settled[i]
  BY <1>1 DEF FileTypes
<1>7. SettledInv'
  <2>1. ASSUME NEW i \in PageId, settled'[i] # NoData
        PROVE  /\ \A u \in Thread : ~ Writes(u, i)'
               /\ SlotHolds(file', i, settled'[i], page_size)
    <3>1. CASE settled'[i] = settled[i]
      BY <1>1, <1>4, <2>1, <3>1 DEF SettledInv
    <3>2. CASE settled'[i] # settled[i]
      <4>1. i = id /\ t \notin overlap /\ settled'[i] = d
        BY <1>1, <1>6, <3>2 DEF FileTypes
      <4>2. /\ \A u \in Thread \ {t} : ~ Writes(u, id)
            /\ SlotHolds(file, id, d, page_size)
        BY <1>1, <4>1 DEF AloneInv, id, d
      <4> QED
        BY <1>1, <1>4, <4>1, <4>2
    <3> QED
      BY <3>1, <3>2
  <2> QED
    BY <2>1 DEF SettledInv, SlotHolds
<1>8. AloneInv'
  <2>1. ASSUME NEW u \in Thread \ overlap', op'[u].do = "write"
        PROVE  /\ \A v \in Thread \ {u} : ~ Writes(v, op[u].id)'
               /\ SlotHolds(file', op'[u].id, op'[u].data, op'[u].k)
    <3>1. u # t /\ op'[u] = op[u] /\ u \notin overlap
      BY <1>1, <1>3, <2>1
    <3>2. /\ \A v \in Thread \ {u} : ~ Writes(v, op[u].id)
          /\ SlotHolds(file, op[u].id, op[u].data, op[u].k)
      BY <2>1, <3>1 DEF AloneInv
    <3>3. \A v \in Thread \ {u} : ~ Writes(v, op[u].id)'
      BY <1>3, <3>1, <3>2 DEF Writes
    <3> QED
      BY <1>1, <3>1, <3>2, <3>3
  <2> QED
    BY <2>1 DEF AloneInv, SlotHolds
<1>9. SyncedInv'
  <2>1. ASSUME NEW i \in PageId, synced[i] # NoData PROVE settled'[i] = settled[i]
    BY <1>2, <1>5, <1>6, <2>1, SharingFacts
  <2> QED
    BY <1>1, <2>1 DEF SyncedInv, SlotHolds
<1> QED
  BY <1>7, <1>8, <1>9

(* A crash leaves what was synced, and nobody writing.                     *)
LEMMA CrashStep ==
  ASSUME FileTypes, SettledInv, AloneInv, SyncedInv, Crash
  PROVE  SettledInv' /\ AloneInv' /\ SyncedInv'
<1>1. /\ file' = disk /\ UNCHANGED <<disk, synced>> /\ settled' = synced
      /\ \A t \in Thread : op'[t].do = "idle"
  BY DEF Crash, Idle
<1>2. \A t \in Thread, i \in PageId : ~ Writes(t, i)'
  BY <1>1 DEF Writes
<1>3. SettledInv'
  BY <1>1, <1>2 DEF SettledInv, SyncedInv, SlotHolds
<1>4. AloneInv'
  BY <1>1 DEF AloneInv
<1>5. SyncedInv'
  BY <1>1 DEF SyncedInv, SlotHolds
<1> QED
  BY <1>3, <1>4, <1>5

(* What is written back, by sync or otherwise, is what the file holds.     *)
LEMMA SyncedKept ==
  ASSUME FileTypes, SettledInv, SyncedInv, UNCHANGED <<file, settled>>,
         synced' = synced \/ (synced' = settled /\ disk' = file),
         \A o \in Offset : disk'[o] \in {disk[o], file[o]}
  PROVE  SyncedInv'
<1>1. ASSUME NEW i \in PageId, synced'[i] # NoData
      PROVE  synced'[i] = settled'[i] /\ SlotHolds(disk', i, synced'[i], page_size)
  <2>1. synced'[i] = settled[i] /\ settled[i] # NoData
    BY <1>1 DEF SyncedInv
  <2>2. SlotHolds(file, i, settled[i], page_size)
    BY <2>1 DEF SettledInv
  <2>3. CASE disk' = file
    BY <2>1, <2>2, <2>3
  <2>4. CASE synced' = synced
    <3>1. SlotHolds(disk, i, settled[i], page_size)
      BY <1>1, <2>1, <2>4 DEF SyncedInv
    <3>2. \A k \in 1 .. page_size : byte_offset(i) + k - 1 \in Offset
      BY SlotOffsets DEF Cell
    <3>3. SlotHolds(disk', i, settled[i], page_size)
      BY <2>2, <3>1, <3>2 DEF SlotHolds
    <3> QED
      BY <2>1, <3>3
  <2> QED
    BY <2>3, <2>4
<1> QED
  BY <1>1 DEF SyncedInv, SlotHolds

(* FileInv is inductive.                                                   *)
LEMMA FileInvStep == FileInv /\ [Next]_vars => FileInv'
<1> SUFFICES ASSUME FileTypes, SettledInv, AloneInv, SyncedInv, [Next]_vars
             PROVE  SettledInv' /\ AloneInv' /\ SyncedInv'
  BY FileTypesStep DEF FileInv
<1>0. /\ op \in [Thread -> {Idle} \cup Writing \cup Reading]
      /\ disk \in [Offset -> PageCell]
  BY DEF FileTypes
<1>1. CASE /\ UNCHANGED <<file, disk, settled, synced>>
           /\ \A t \in Thread : op'[t].do = "write" =>
                op'[t] = op[t] /\ (t \in overlap => t \in overlap')
  <2>1. SettledInv' /\ AloneInv'
    BY <1>1, QuietStep
  <2> QED
    BY <1>1, <2>1 DEF SyncedInv, SlotHolds
<1>2. CASE /\ UNCHANGED <<file, op, overlap, settled>>
           /\ synced' = synced \/ (synced' = settled /\ disk' = file)
           /\ \A o \in Offset : disk'[o] \in {disk[o], file[o]}
  <2>1. SettledInv' /\ AloneInv'
    BY <1>2, QuietStep
  <2> QED
    BY <1>2, <2>1, SyncedKept
<1>3. CASE UNCHANGED vars
  BY <1>1, <1>3 DEF vars, historyVars
<1>4. ASSUME NEW t \in Thread, NEW id \in PageId, ReadStart(t, id)
      PROVE  SettledInv' /\ AloneInv' /\ SyncedInv'
  <2>1. op'[t].do = "read" /\ \A u \in Thread \ {t} : op'[u] = op[u]
    BY <1>0, <1>4 DEF ReadStart, Start
  <2> QED
    BY <1>1, <1>4, <2>1 DEF ReadStart, historyVars
<1>5. ASSUME NEW t \in Thread, NEW n \in Cell, ReadCells(t, n)
      PROVE  SettledInv' /\ AloneInv' /\ SyncedInv'
  <2>1. op[t] \in Reading
    BY <1>5, OpFacts DEF ReadCells
  <2>2. PICK b : op' = [op EXCEPT ![t] = [op[t] EXCEPT !.k = @ + n, !.buf = b]]
    BY <1>5 DEF ReadCells
  <2>3. op'[t].do = "read" /\ \A u \in Thread \ {t} : op'[u] = op[u]
    BY <1>0, <2>1, <2>2 DEF Reading
  <2> QED
    BY <1>1, <1>5, <2>3 DEF ReadCells, historyVars
<1>6. ASSUME NEW t \in Thread, WriteError(t) \/ ReadDone(t) \/ ReadError(t)
      PROVE  SettledInv' /\ AloneInv' /\ SyncedInv'
  <2>1. /\ op'[t].do = "idle" /\ \A u \in Thread \ {t} : op'[u] = op[u]
        /\ overlap' = overlap \ {t} /\ UNCHANGED <<file, disk, settled, synced>>
    BY <1>0, <1>6 DEF WriteError, ReadDone, ReadError, Return, Idle
  <2> QED
    BY <1>1, <2>1
<1>7. CASE Sync
  BY <1>2, <1>7 DEF Sync, sync_data
<1>8. ASSUME NEW o \in Offset, WriteBack(o) PROVE SettledInv' /\ AloneInv' /\ SyncedInv'
  BY <1>0, <1>2, <1>8 DEF WriteBack, historyVars
<1> QED
  BY <1>3, <1>4, <1>5, <1>6, <1>7, <1>8, WriteStartStep, WriteCellsStep, WriteDoneStep,
     CrashStep DEF Next

(* What is settled, and what is synced, is in its slot whole; a write that *)
(* none overlaps has its slot to itself.                                   *)
THEOREM FileInvariant == Spec => []FileInv
<1>1. Init => FileInv
  <2> SUFFICES ASSUME Init PROVE SettledInv /\ AloneInv /\ SyncedInv
    BY FileTypesInit DEF FileInv
  <2> QED
    BY DEF Init, Idle, SettledInv, AloneInv, SyncedInv
<1> QED
  BY <1>1, FileInvStep, PTL DEF Spec

(* A slot that holds a whole page verifies, and holds the page's words.    *)
LEMMA WholeSlot ==
  ASSUME NEW medium, NEW id \in PageId, NEW d \in Data[id],
         SlotHolds(medium, id, d, page_size)
  PROVE  /\ Verify(SlotOn(medium, id), id) /\ Words(SlotOn(medium, id)) = d
<1> DEFINE s == SlotOn(medium, id)
<1>1. \A k \in Cell : s[k] = Stamped(id, d)[k]
  BY DEF SlotOn, SlotHolds, Cell
<1> HIDE DEF s
<1>2. 1 \in Cell
  BY PageFacts DEF Cell
<1>3. Words(s) = d
  <2>1. \A k \in Cell : (IF s[k] = Nothing THEN Nothing ELSE s[k][1]) = d[k]
    BY <1>1, StampedCells
  <2>2. Words(s) = [k \in Cell |-> d[k]]
    BY <2>1 DEF Words
  <2> QED
    BY <2>2, PageFacts
<1>4. Len(s[1]) = 3 /\ s[1][2] = id /\ s[1][3] = Checksum(id, d)
  BY <1>1, <1>2, StampedCells
<1> QED
  BY <1>3, <1>4 DEF Verify, HasHeader, s

(* The medium ends after every cell of it that is written.                 *)
LEMMA EndIsAfter ==
  ASSUME NEW medium, NEW o \in Offset, medium[o] # Nothing
  PROVE  EndOf(medium) \in Nat /\ o + 1 <= EndOf(medium)
<1> DEFINE used == {q \in Offset : medium[q] # Nothing}
           last == CHOOSE x \in used : \A q \in used : q <= x
<1>1. o \in used /\ OffsetSpace - 1 \in Nat /\ used \subseteq 0 .. OffsetSpace - 1
  BY FileAssumption DEF Offset
<1>2. EndOf(medium) = 1 + last
  BY <1>1 DEF EndOf
<1> HIDE DEF used
<1>3. \E x \in used : \A q \in used : q <= x
  BY <1>1, GreatestElement
<1>4. last \in used /\ \A q \in used : q <= last
  BY <1>3
<1> HIDE DEF last
<1>5. last \in Nat /\ o \in Nat /\ o <= last
  BY <1>1, <1>4
<1> QED
  BY <1>2, <1>5

(* A slot with a whole page is one of the page_count whole pages.          *)
LEMMA SlotIsCounted ==
  ASSUME NEW id \in PageId, NEW d \in Data[id], SlotHolds(file, id, d, page_size)
  PROVE  byte_offset(id) \div page_size < page_count
<1> DEFINE e == EndOf(file)
           n == e \div page_size
<1>1. page_size \in Nat \ {0} /\ page_size \in Cell /\ byte_offset(id) \in Nat
  BY PageFacts, SlotStart DEF Cell
<1>2. e \in Nat /\ byte_offset(id) + page_size <= e
  <2> DEFINE o == byte_offset(id) + page_size - 1
  <2>1. o \in Offset
    BY <1>1, SlotOffsets
  <2>2. file[o] # Nothing
    BY <1>1, StampedCells DEF SlotHolds, Cell
  <2>3. e \in Nat /\ o + 1 <= e
    BY <2>1, <2>2, EndIsAfter
  <2> QED
    BY <1>1, <2>3
<1> HIDE DEF e
<1>3. /\ n \in Nat /\ e = (page_size * n) + (e % page_size)
      /\ e % page_size \in 0 .. page_size - 1
  BY <1>1, <1>2, Quotient
<1>4. PICK m \in Nat : byte_offset(id) = page_size * m
  BY SlotStart
<1>5. byte_offset(id) \div page_size = m
  BY <1>1, <1>4
<1> HIDE DEF n
<1>6. page_size * m \in Nat /\ page_size * n \in Nat
  BY <1>1, <1>3, <1>4
<1>7. page_size * m < page_size * n
  BY <1>1, <1>2, <1>3, <1>4, <1>6
<1>8. m < n
  <2>1. m >= n => page_size * m >= page_size * n
    BY <1>1, <1>3
  <2> QED
    BY <1>3, <1>6, <1>7, <2>1
<1> QED
  BY <1>5, <1>8 DEF page_count, e, n

(* A page written alone to its slot is read back until the next write to   *)
(* the slot, through every other thread's calls, and is counted.           *)
THEOREM SettledPagesAreRead == Spec => []SettledPageIsRead
<1>1. FileInv => SettledPageIsRead
  <2> SUFFICES ASSUME FileInv, NEW id \in PageId, settled[id] # NoData
               PROVE  /\ Verify(SlotOn(file, id), id)
                      /\ Words(SlotOn(file, id)) = settled[id]
                      /\ byte_offset(id) \div page_size < page_count
    BY DEF SettledPageIsRead
  <2>1. settled[id] \in Data[id] /\ SlotHolds(file, id, settled[id], page_size)
    BY DEF FileInv, FileTypes, SettledInv
  <2> QED
    BY <2>1, WholeSlot, SlotIsCounted
<1> QED
  BY <1>1, FileInvariant, PTL

(* A page that was settled when sync returned, and not written since, is   *)
(* on stable storage whole, whatever the system wrote back or the crashes  *)
(* were.                                                                   *)
THEOREM SyncedPagesSurvive == Spec => []SyncedPageSurvives
<1>1. FileInv => SyncedPageSurvives
  <2> SUFFICES ASSUME FileInv, NEW id \in PageId, synced[id] # NoData
               PROVE  /\ Verify(SlotOn(disk, id), id)
                      /\ Words(SlotOn(disk, id)) = synced[id]
    BY DEF SyncedPageSurvives
  <2>1. synced[id] \in Data[id] /\ SlotHolds(disk, id, synced[id], page_size)
    BY DEF FileInv, FileTypes, SyncedInv
  <2> QED
    BY <2>1, WholeSlot
<1> QED
  BY <1>1, FileInvariant, PTL

=============================================================================
