---------------------------- MODULE PageAllocator ----------------------------
(***************************************************************************)
(* The page-id allocator of src/src/alloc.rs over a page store that can    *)
(* fail a write, lose what was not synced, and be closed and opened again. *)
(*                                                                         *)
(* allocate and free are one step each, under the state mutex.  sync keeps *)
(* the mutex for one write per free page and one for the superblock, then  *)
(* releases it and syncs the store.  The clients use the ids they own for  *)
(* data, whose first eight bytes are any u64 and which a reader cannot     *)
(* tell from a link.  They free only ids they own, and no id twice.        *)
(***************************************************************************)
EXTENDS Integers, Sequences, FiniteSets

CONSTANTS
  Client,     \* the threads sharing the allocator
  NoClient,   \* the state mutex is unlocked
  NO_PAGE,    \* u64::MAX
  Data,       \* what the clients may have in the first eight bytes of a page
  Faults      \* what the store does: fail in a write or in a sync, and lose
              \* unsynced pages in a crash

ASSUME AllocatorAssumption ==
  /\ NoClient \notin Client
  /\ NO_PAGE \in Nat \ {0, 1}
  /\ Data \subseteq 0 .. NO_PAGE
  /\ Faults \subseteq {"write", "sync", "crash"}

VARIABLES
  mode,                           \* "closed", "walking", "open" or "refused"
  error,                          \* why the last open was refused
  free_list, next_new,            \* AllocState
  lock, pc, written,              \* its mutex, the callers, persist's loop
  owned,                          \* the ids the clients hold
  file, disk,                     \* the store: as read back, and after a crash
  head, free_count, cur, ids, result,   \* the walk while opening
  persisted, stable               \* history: the state last written out whole,
                                  \* and the same once it is on stable storage

allocVars   == <<free_list, next_new>>
threadVars  == <<lock, pc, written>>
storeVars   == <<file, disk>>
walkVars    == <<head, free_count, cur, ids, result>>
historyVars == <<persisted, stable>>
vars == <<mode, error, allocVars, threadVars, owned, storeVars, walkVars,
          historyVars>>

Id   == 1 .. NO_PAGE - 1
Slot == {0} \cup Id

(* What a slot holds: nothing yet, half a write, a superblock, or a page   *)
(* whose first eight payload bytes are a number.                           *)
Absent == <<"absent">>
Torn   == <<"torn">>
Superblock(h, n, c) == <<"super", h, n, c>>
Word(v) == <<"page", v>>

NoState == <<>>
State   == <<free_list, next_new>>
Saved   == persisted # NoState

Elems(s) == {s[i] : i \in DOMAIN s}

-----------------------------------------------------------------------------
(* The store, and the world around the process.                            *)

Write(p, c) == file' = [file EXCEPT ![p] = c] /\ UNCHANGED disk

(* write_page fails, and leaves the slot as it was or half written.        *)
WriteError(p) ==
  "write" \in Faults /\ \E left \in {file[p], Torn} : Write(p, left)

(* The operating system writes a page back when it likes.                  *)
WriteBack(p) ==
  /\ "crash" \in Faults /\ disk[p] # file[p]
  /\ disk' = [disk EXCEPT ![p] = file[p]]
  /\ UNCHANGED <<mode, error, allocVars, threadVars, owned, file, walkVars,
                 historyVars>>

(* The locals of the walk are dropped.                                     *)
WalkOver ==
  /\ head' = NO_PAGE /\ free_count' = 0 /\ cur' = NO_PAGE /\ ids' = <<>>
  /\ result' = "none"

(* The process is gone, and all it had in memory.                          *)
Gone ==
  /\ mode' = "closed" /\ error' = "none"
  /\ free_list' = <<>> /\ next_new' = 1 /\ owned' = {}
  /\ lock' = NoClient /\ written' = 0 /\ pc' = [c \in Client |-> "idle"]
  /\ WalkOver

(* The power fails, perhaps in the middle of writing pages back.           *)
Crash ==
  /\ "crash" \in Faults /\ Gone
  /\ \E torn \in SUBSET {p \in Slot : disk[p] # file[p]} :
       file' = [p \in Slot |-> IF p \in torn THEN Torn ELSE disk[p]]
  /\ disk' = file'
  /\ persisted' = stable /\ UNCHANGED stable

(* The allocator is dropped with no call in progress; nothing is written.  *)
Close ==
  /\ mode \in {"open", "refused"} /\ \A c \in Client : pc[c] = "idle"
  /\ Gone
  /\ UNCHANGED <<storeVars, historyVars>>

-----------------------------------------------------------------------------
(* PageAllocator::new.                                                     *)

(* Following the chain; a Torn or Absent page fails verification.          *)
link == [p \in Id |-> IF file[p][1] = "page" THEN file[p][2] ELSE -1]

Chain == INSTANCE FreeChainWalk WITH link <- link

openUnchanged == <<allocVars, threadVars, owned, storeVars, historyVars>>

Refuse(why) == mode' = "refused" /\ error' = why

(* Page 0 is a superblock: walk the chain it describes.                    *)
ReadSuperblock ==
  /\ mode = "closed" /\ file[0][1] = "super"
  /\ mode' = "walking" /\ UNCHANGED error
  /\ head' = file[0][2] /\ next_new' = file[0][3] /\ free_count' = file[0][4]
  /\ cur' = head' /\ ids' = <<>> /\ result' = "walking"
  /\ UNCHANGED <<free_list, threadVars, owned, storeVars, historyVars>>

(* Page 0 is a page, but no superblock, or cannot be read although the     *)
(* file is not empty.                                                      *)
RefuseSuperblock ==
  /\ mode = "closed"
  /\ \/ file[0][1] = "page" /\ Refuse("InvalidSuperblock")
     \/ file[0] = Torn /\ Refuse("unreadable")
     \/ /\ file[0] = Absent /\ \E p \in Id : file[p] # Absent
        /\ Refuse("unreadable")
  /\ UNCHANGED <<openUnchanged, walkVars>>

(* ShortRead of page 0 means a new file (a first write that left less than *)
(* a page counts as one): the superblock is written, but not synced.       *)
NewFile == file[0] \in {Absent, Torn} /\ \A p \in Id : file[p] = Absent

Initialize ==
  /\ mode = "closed" /\ NewFile
  /\ Write(0, Superblock(NO_PAGE, 1, 0))
  /\ mode' = "open" /\ UNCHANGED error
  /\ free_list' = <<>> /\ next_new' = 1 /\ owned' = {}
  /\ persisted' = <<free_list', next_new'>> /\ stable' = NoState
  /\ UNCHANGED <<threadVars, walkVars>>

InitializeError ==
  /\ mode = "closed" /\ NewFile
  /\ WriteError(0)
  /\ Refuse("unreadable")
  /\ UNCHANGED <<allocVars, threadVars, owned, walkVars, historyVars>>

Walk ==
  /\ mode = "walking"
  /\ UNCHANGED <<mode, error, openUnchanged>>
  /\ Chain!Step

(* The walk is over.  Whoever held ids before, all that are not free are   *)
(* in use now.                                                             *)
Opened ==
  /\ mode = "walking" /\ result = "ok"
  /\ mode' = "open" /\ free_list' = ids
  /\ owned' = (1 .. next_new - 1) \ Elems(ids)
  /\ WalkOver
  /\ UNCHANGED <<error, next_new, threadVars, storeVars, historyVars>>

WalkRefused ==
  /\ mode = "walking" /\ result \in {"invalid", "io"}
  /\ Refuse(IF result = "io" THEN "unreadable" ELSE "InvalidSuperblock")
  /\ WalkOver
  /\ UNCHANGED openUnchanged

-----------------------------------------------------------------------------
(* allocate and free.                                                      *)

Usable == mode = "open" /\ lock = NoClient

threadUnchanged == <<mode, error, threadVars, storeVars, walkVars>>

(* From now on the state differs from what was last written out.           *)
Diverge == persisted' = NoState /\ stable' = NoState

(* pop() from the back of the free list.  Mutant: the id stays on it.      *)
ReuseKept ==
  /\ Usable /\ free_list # <<>>
  /\ owned' = owned \cup {free_list[Len(free_list)]}
  /\ Diverge
  /\ UNCHANGED <<allocVars, threadUnchanged>>

Reuse ==
  /\ Usable /\ free_list # <<>>
  /\ owned' = owned \cup {free_list[Len(free_list)]}
  /\ free_list' = SubSeq(free_list, 1, Len(free_list) - 1)
  /\ Diverge
  /\ UNCHANGED <<next_new, threadUnchanged>>

(* Or an id never used; neither the id nor the mark reaches NO_PAGE.       *)
(* Mutant: the mark may reach it.                                          *)
RoomToSentinel == next_new + 1 <= NO_PAGE
Room == next_new + 1 <= NO_PAGE /\ next_new + 1 # NO_PAGE

Extend ==
  /\ Usable /\ free_list = <<>> /\ Room
  /\ owned' = owned \cup {next_new}
  /\ next_new' = next_new + 1
  /\ Diverge
  /\ UNCHANGED <<free_list, threadUnchanged>>

(* Err(InvalidPageId).                                                     *)
NoRoom ==
  /\ Usable /\ free_list = <<>> /\ ~ Room
  /\ UNCHANGED vars

(* free: 0 and ids beyond the mark are refused, the rest pushed.           *)
Free(p) ==
  /\ Usable
  /\ p # 0 /\ p < next_new
  /\ owned' = owned \ {p}
  /\ free_list' = Append(free_list, p)
  /\ Diverge
  /\ UNCHANGED <<next_new, threadUnchanged>>

FreeRefused(p) ==
  /\ Usable
  /\ p = 0 \/ p >= next_new
  /\ UNCHANGED vars

(* A client, or the pool for it, writes a page it owns.                    *)
WriteData(p) ==
  /\ mode = "open" /\ p \in owned
  /\ WriteError(p) \/ \E v \in Data : Write(p, Word(v))
  /\ UNCHANGED <<mode, error, allocVars, threadVars, owned, walkVars,
                 historyVars>>

-----------------------------------------------------------------------------
(* sync.                                                                   *)

syncUnchanged == <<mode, error, allocVars, owned, walkVars>>

(* sync locks the state; persist_superblock begins.                        *)
SyncStart(c) ==
  /\ Usable /\ pc[c] = "idle"
  /\ lock' = c /\ pc' = [pc EXCEPT ![c] = "persist"] /\ written' = 0
  /\ Diverge
  /\ UNCHANGED <<syncUnchanged, storeVars>>

Persisting(c) == lock = c /\ pc[c] = "persist"

(* The link of free_list[i] is free_list[i + 1].  Mutant: the end marker   *)
(* comes one page early.                                                   *)
NextIdShort(i) == IF i + 1 < Len(free_list) THEN free_list[i + 1] ELSE NO_PAGE
NextId(i) == IF i < Len(free_list) THEN free_list[i + 1] ELSE NO_PAGE

(* The next page of the chain is written.                                  *)
WriteLink(c) ==
  /\ Persisting(c) /\ written < Len(free_list)
  /\ written' = written + 1
  /\ Write(free_list[written'], Word(NextId(written')))
  /\ UNCHANGED <<syncUnchanged, lock, pc, historyVars>>

FirstId == IF free_list = <<>> THEN NO_PAGE ELSE free_list[1]

(* The chain is written: the superblock follows and the lock is released.  *)
(* Mutant: it records the highest id in use instead of the mark.           *)
WriteSuperblockBehind(c) ==
  /\ Persisting(c) /\ written = Len(free_list)
  /\ Write(0, Superblock(FirstId, IF next_new > 1 THEN next_new - 1 ELSE 1,
                         Len(free_list)))
  /\ lock' = NoClient /\ pc' = [pc EXCEPT ![c] = "sync"] /\ written' = 0
  /\ persisted' = State /\ UNCHANGED stable
  /\ UNCHANGED syncUnchanged

WriteSuperblock(c) ==
  /\ Persisting(c) /\ written = Len(free_list)
  /\ Write(0, Superblock(FirstId, next_new, Len(free_list)))
  /\ lock' = NoClient /\ pc' = [pc EXCEPT ![c] = "sync"] /\ written' = 0
  /\ persisted' = State /\ UNCHANGED stable
  /\ UNCHANGED syncUnchanged

(* A write fails and sync returns its error.                               *)
PersistError(c) ==
  /\ Persisting(c)
  /\ WriteError(IF written < Len(free_list) THEN free_list[written + 1] ELSE 0)
  /\ lock' = NoClient /\ pc' = [pc EXCEPT ![c] = "idle"] /\ written' = 0
  /\ UNCHANGED <<syncUnchanged, historyVars>>

(* store.sync().  Mutant: it is not called.                                *)
SyncSkipped(c) ==
  /\ pc[c] = "sync"
  /\ pc' = [pc EXCEPT ![c] = "idle"]
  /\ stable' = persisted /\ UNCHANGED persisted
  /\ UNCHANGED <<syncUnchanged, storeVars, lock, written>>

SyncStore(c) ==
  /\ pc[c] = "sync"
  /\ pc' = [pc EXCEPT ![c] = "idle"]
  /\ disk' = file /\ UNCHANGED file
  /\ stable' = persisted /\ UNCHANGED persisted
  /\ UNCHANGED <<syncUnchanged, lock, written>>

(* A failed store.sync() promises nothing; WriteBack covers what it did.   *)
SyncError(c) ==
  /\ "sync" \in Faults /\ pc[c] = "sync"
  /\ pc' = [pc EXCEPT ![c] = "idle"]
  /\ UNCHANGED <<syncUnchanged, storeVars, lock, written, historyVars>>

-----------------------------------------------------------------------------

(* An empty file, or one whose first page is not a superblock.             *)
Init ==
  /\ mode = "closed" /\ error = "none"
  /\ free_list = <<>> /\ next_new = 1 /\ owned = {}
  /\ lock = NoClient /\ pc = [c \in Client |-> "idle"] /\ written = 0
  /\ \E first \in {Absent, Word(0)} :
       file = [p \in Slot |-> IF p = 0 THEN first ELSE Absent]
  /\ disk = file
  /\ head = NO_PAGE /\ free_count = 0 /\ cur = NO_PAGE /\ ids = <<>>
  /\ result = "none"
  /\ persisted = NoState /\ stable = NoState

Open == ReadSuperblock \/ RefuseSuperblock \/ Initialize \/ InitializeError
        \/ Walk \/ Opened \/ WalkRefused

Sync(c) == SyncStart(c) \/ WriteLink(c) \/ WriteSuperblock(c) \/ PersistError(c)
           \/ SyncStore(c) \/ SyncError(c)

Next ==
  \/ Open \/ Close \/ Crash
  \/ Reuse \/ Extend \/ NoRoom
  \/ \E p \in owned : Free(p) \/ WriteData(p)
  \/ \E p \in Slot : FreeRefused(p) \/ WriteBack(p)
  \/ \E c \in Client : Sync(c)

Spec == Init /\ [][Next]_vars

-----------------------------------------------------------------------------
(* Properties.                                                             *)

Content ==
  {Absent, Torn} \cup {Word(v) : v \in 0 .. NO_PAGE}
  \cup {Superblock(h, n, k) : h \in 0 .. NO_PAGE, n \in Id, k \in 0 .. NO_PAGE}

(* The type of every variable; the high-water mark stays below NO_PAGE, so *)
(* that no id handed out can be taken for the end of a chain.              *)
AllocTypeOK ==
  /\ mode \in {"closed", "walking", "open", "refused"}
  /\ error \in {"none", "InvalidSuperblock", "unreadable"}
  /\ free_list \in Seq(Id) /\ next_new \in Id
  /\ lock \in Client \cup {NoClient}
  /\ pc \in [Client -> {"idle", "persist", "sync"}]
  /\ written \in 0 .. Len(free_list)
  /\ owned \subseteq Id
  /\ file \in [Slot -> Content] /\ disk \in [Slot -> Content]

(* An id is never in the hands of a client and on the free list, nor twice *)
(* on the list, and none below the mark is lost: through every crash that  *)
(* new() accepts, an id is handed out to one client at a time.             *)
IdsAreExclusive ==
  mode = "open" =>
    /\ \A i, j \in DOMAIN free_list : free_list[i] = free_list[j] => i = j
    /\ Elems(free_list) \cap owned = {}
    /\ Elems(free_list) \cup owned = 1 .. next_new - 1

(* What sync wrote out is what new() finds: with no allocate, free or sync *)
(* since, closing and opening, and after a completed sync also any crash,  *)
(* give back the same free list, in order, and the same mark, whatever the *)
(* clients wrote to their pages meanwhile.                                 *)
SyncedStateSurvives ==
  Saved => mode # "refused" /\ (mode = "open" => State = persisted)

(* InvalidSuperblock is returned only for a page 0 that is not a           *)
(* superblock this allocator wrote (alloc.rs:105-106).                     *)
OnlyForeignSuperblocksInvalid ==
  error = "InvalidSuperblock" => file[0][1] # "super"

=============================================================================
