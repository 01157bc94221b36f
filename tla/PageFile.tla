------------------------------ MODULE PageFile -------------------------------
(***************************************************************************)
(* PageFile of src/src/file.rs with the page format of src/src/page.rs and *)
(* the positioned I/O of src/src/sys.rs.  Threads share the file without a *)
(* lock: a page is read and written in pieces, as many as the operating    *)
(* system likes, and a crash keeps any of the pieces not yet synced.       *)
(*                                                                         *)
(* A piece of a file is a cell, page_size cells a page.  The first cell of *)
(* a page holds its header: the id it is stamped with and its checksum.    *)
(* CRC32C is idealised: different pages have different checksums.          *)
(***************************************************************************)
EXTENDS Integers, Sequences

CONSTANTS
  Thread,      \* the threads sharing the PageFile
  PageId,      \* the ids they use
  page_size,   \* cells in a page
  OffsetSpace, \* number of byte offsets a u64 can hold, in cells
  Data,        \* what the threads put into the page of each id, a word a cell
  Ops          \* the methods they call besides sync: read_into, write_page

ASSUME FileAssumption ==
  /\ PageId \subseteq Nat
  /\ page_size \in Nat \ {0, 1}
  /\ OffsetSpace \in Nat /\ OffsetSpace % page_size = 0 /\ OffsetSpace > 0
  /\ \A id \in PageId : \A d \in Data[id] : d = [k \in 1 .. page_size |-> d[k]]
  /\ Ops \subseteq {"read", "write"}

VARIABLES
  file, disk,       \* the cells: as read back, and after a crash
  op,               \* what each thread is doing, and how far it is
  overlap,          \* history: the writes another write to the slot overlaps
  settled, synced   \* history: the data last written whole to each id, and
                    \* the same once sync has returned

historyVars == <<overlap, settled, synced>>
vars == <<file, disk, op, historyVars>>

Offset == 0 .. OffsetSpace - 1
Cell   == 1 .. page_size
Nothing == <<>>        \* a cell never written: a hole, or past the end
NoData  == <<>>

Idle == [do |-> "idle"]
-----------------------------------------------------------------------------
(* The page format.                                                        *)

(* byte_offset multiplies u64s.                                            *)
byte_offset(id) == (id * page_size) % OffsetSpace

(* The ids that share the slot of id.                                      *)
Sharing(id) == {i \in PageId : byte_offset(i) = byte_offset(id)}
Writes(t, id) == op[t].do = "write" /\ op[t].id \in Sharing(id)

(* The checksum covers the header's id and the payload.                    *)
Checksum(id, words) == <<id, words>>

(* stamp: the cells of a page written to slot id.                          *)
Stamped(id, d) ==
  [k \in Cell |-> IF k = 1 THEN <<d[k], id, Checksum(id, d)>> ELSE <<d[k]>>]

(* The payload; a hole reads as zeros.                                     *)
Words(cells) == [k \in Cell |-> IF cells[k] = Nothing THEN Nothing ELSE cells[k][1]]

HasHeader(cells) == Len(cells[1]) = 3

(* verify: magic and version, then the checksum, then the id.  Mutant: the *)
(* checksum is not looked at.                                              *)
VerifyNoChecksum(cells, id) == HasHeader(cells) /\ cells[1][2] = id

Verify(cells, id) ==
  /\ HasHeader(cells)
  /\ cells[1][3] = Checksum(cells[1][2], Words(cells))
  /\ cells[1][2] = id

(* What the slot of page id holds on a medium.                             *)
SlotOn(medium, id) == [k \in Cell |-> medium[byte_offset(id) + k - 1]]

(* The medium ends after its last written cell.                            *)
EndOf(medium) ==
  LET used == {o \in Offset : medium[o] # Nothing}
  IN  IF used = {} THEN 0 ELSE 1 + CHOOSE o \in used : \A q \in used : q <= o

(* The whole pages in the file.                                            *)
page_count == EndOf(file) \div page_size

(* pwrite and pread transfer the n cells after the first k of a page at an *)
(* offset.                                                                 *)
pwrite(medium, cells, offset, k, n) ==
  [o \in Offset |->
     IF o - offset \in k .. k + n - 1 THEN cells[o - offset + 1] ELSE medium[o]]

pread(medium, cells, offset, k, n) ==
  [i \in Cell |-> IF i \in k + 1 .. k + n THEN medium[offset + i - 1] ELSE cells[i]]

sync_data == disk' = file

-----------------------------------------------------------------------------

Init ==
  /\ file = [o \in Offset |-> Nothing] /\ disk = file
  /\ op = [t \in Thread |-> Idle]
  /\ overlap = {}
  /\ settled = [id \in PageId |-> NoData] /\ synced = settled

Start(t, o) ==
  /\ o.do \in Ops
  /\ op[t].do = "idle"
  /\ op' = [op EXCEPT ![t] = o]
Advance(t, n) == op' = [op EXCEPT ![t].k = @ + n]
Return(t) == op' = [op EXCEPT ![t] = Idle] /\ overlap' = overlap \ {t}
Forget(history, ids) == [id \in PageId |-> IF id \in ids THEN NoData ELSE history[id]]

(* write_page: the page is stamped; write_all_at starts at its offset.     *)
WriteStart(t, id, d) ==
  LET others == {u \in Thread \ {t} : Writes(u, id)}
  IN  /\ Start(t, [do |-> "write", id |-> id, data |-> d, k |-> 0])
      /\ overlap' = overlap \cup others \cup {u \in {t} : others # {}}
      /\ settled' = Forget(settled, Sharing(id))
      /\ synced'  = Forget(synced, Sharing(id))
      /\ UNCHANGED <<file, disk>>

(* One pwrite takes n more cells.  Mutant: each starts with the page.      *)
WriteCellsAtStart(t, n) ==
  /\ op[t].do = "write" /\ op[t].k + n <= page_size
  /\ file' = pwrite(file, Stamped(op[t].id, op[t].data), byte_offset(op[t].id), 0, n)
  /\ Advance(t, n)
  /\ UNCHANGED <<disk, historyVars>>

WriteCells(t, n) ==
  /\ op[t].do = "write" /\ op[t].k + n <= page_size
  /\ file' = pwrite(file, Stamped(op[t].id, op[t].data), byte_offset(op[t].id), op[t].k, n)
  /\ Advance(t, n)
  /\ UNCHANGED <<disk, historyVars>>

(* All written: Ok.                                                        *)
WriteDone(t) ==
  /\ op[t].do = "write" /\ op[t].k = page_size
  /\ settled' = IF t \in overlap THEN settled
                ELSE [settled EXCEPT ![op[t].id] = op[t].data]
  /\ Return(t)
  /\ UNCHANGED <<file, disk, synced>>

(* pwrite fails, or returns zero: what was written stays.                  *)
WriteError(t) ==
  /\ op[t].do = "write" /\ op[t].k < page_size
  /\ Return(t)
  /\ UNCHANGED <<file, disk, settled, synced>>

(* read_into: read_at_full into the caller's buffer.                       *)
ReadStart(t, id) ==
  /\ Start(t, [do |-> "read", id |-> id, buf |-> [k \in Cell |-> Nothing],
               k |-> 0])
  /\ UNCHANGED <<file, disk, historyVars>>

(* One pread returns n more cells, none of them beyond the end.            *)
ReadCells(t, n) ==
  LET r == op[t]
      base == byte_offset(r.id)
  IN  /\ r.do = "read" /\ r.k + n <= page_size
      /\ base + r.k + n <= EndOf(file)
      /\ op' = [op EXCEPT ![t].k = @ + n, ![t].buf = pread(file, @, base, r.k, n)]
      /\ UNCHANGED <<file, disk, historyVars>>

(* The buffer is full: verify decides between Ok and an error.             *)
ReadDone(t) ==
  /\ op[t].do = "read" /\ op[t].k = page_size
  /\ Return(t)
  /\ UNCHANGED <<file, disk, settled, synced>>

(* The end of the file, or an I/O error: Err.                              *)
ReadError(t) ==
  /\ op[t].do = "read" /\ op[t].k < page_size
  /\ Return(t)
  /\ UNCHANGED <<file, disk, settled, synced>>

(* sync returns Ok; mutant: without having synced.  One that fails only    *)
(* writes back some of the cells: WriteBack.                               *)
SyncNothing ==
  /\ synced' = settled
  /\ UNCHANGED <<file, disk, op, overlap, settled>>

Sync ==
  /\ sync_data
  /\ synced' = settled
  /\ UNCHANGED <<file, op, overlap, settled>>

(* The operating system writes cells back in any order; external.          *)
WriteBack(o) ==
  /\ disk[o] # file[o]
  /\ disk' = [disk EXCEPT ![o] = file[o]]
  /\ UNCHANGED <<file, op, historyVars>>

(* The power fails; the file is opened again; external.                    *)
Crash ==
  /\ file' = disk /\ UNCHANGED disk
  /\ op' = [t \in Thread |-> Idle]
  /\ settled' = synced /\ overlap' = {}
  /\ UNCHANGED synced

Next ==
  \/ \E t \in Thread :
       \/ \E id \in PageId :
            ReadStart(t, id) \/ \E d \in Data[id] : WriteStart(t, id, d)
       \/ \E n \in Cell : WriteCells(t, n) \/ ReadCells(t, n)
       \/ WriteDone(t) \/ WriteError(t) \/ ReadDone(t) \/ ReadError(t)
  \/ Sync \/ Crash \/ \E o \in Offset : WriteBack(o)

Spec == Init /\ [][Next]_vars

-----------------------------------------------------------------------------
(* Properties.                                                             *)

(* A full buffer that read_into is about to return Ok for holds a page     *)
(* that was passed, whole, to write_page for that id: never the front of   *)
(* one page and the back of another, however reads, writes, failed writes  *)
(* and crashes interleave, and never a page of another id, not even one    *)
(* that shares the slot because byte_offset wraps (file.rs:173-175).       *)
ReadsAreWhole ==
  \A t \in Thread :
    op[t].do = "read" /\ op[t].k = page_size /\ Verify(op[t].buf, op[t].id) =>
      Words(op[t].buf) \in Data[op[t].id]

(* A page written alone to its slot stays there until the next write to    *)
(* that slot, and is one of the page_count pages (page.rs:52,              *)
(* file.rs:96-97, 152).                                                    *)
SettledPageIsRead ==
  \A id \in PageId : settled[id] # NoData =>
    /\ Verify(SlotOn(file, id), id)
    /\ Words(SlotOn(file, id)) = settled[id]
    /\ byte_offset(id) \div page_size < page_count

(* What was settled when sync returned is on stable storage (file.rs:243). *)
SyncedPageSurvives ==
  \A id \in PageId : synced[id] # NoData =>
    /\ Verify(SlotOn(disk, id), id)
    /\ Words(SlotOn(disk, id)) = synced[id]

=============================================================================
