# page-db: formal models, model checks and proofs

TLA+ models of `page-db` 1.0.0 (the Rust crate under `src/src/`), the TLC
configurations that check them on small instances, and TLAPS proofs of the
central results for every size. Line numbers refer to the files under
`src/src/`.

## 1. The system

| Part | State | Operations | Talks to |
|---|---|---|---|
| Buffer pool, `pool.rs` | per frame: page bytes behind an `RwLock` (the *latch*), `id`, `pin`, `dirty`, `referenced`; behind one `Mutex` (*core*): `map`, `free`, `hand` | `fetch`, `new_page`, `flush`, `flush_all`, `checkpoint`, `sync`; guards: `read`, `write`, drop | a `PageStore`; any number of client threads |
| Allocator, `alloc.rs` | behind one `Mutex`: `free_list`, `next_new`, a scratch page; on disk: superblock in page 0, free list as a chain through the free pages | `new`/`open`, `allocate`, `free`, `sync` | a `PageStore` |
| Page file, `file.rs`, `sys.rs` | the file; no lock, no cursor | `read_into`, `read_page`, `write_page`, `sync`, `page_count` | the operating system |
| Page format, `page.rs` | header: magic, version, id, LSN, checksum; payload | `stamp`, `verify`, `reset`, conversions | `checksum.rs` |
| CRC32C, `checksum.rs` | a running `u32` | `update`, `finalize` | - |
| `PageStore`, `store.rs` | - | the interface between the first two rows and the third | - |
| `sync.rs`, `buffer.rs`, `error.rs`, `lib.rs` | - | lock wrappers, aligned memory, error type, re-exports | - |

Pool and allocator are used side by side over the same store (through
`Arc<S>`), without knowing of each other. The fuzz targets drive the parser of
pages (`page_parse`) and the open of the allocator (`allocator_open`).

What is hard to get right, part by part:

* **Pool.** Guards work without core: a pin is dropped, a dirty bit set and a
  latch taken while another thread is in the middle of a sweep, a flush or an
  eviction. Core is held while waiting for latches and for I/O. Every I/O call
  can fail, in the middle of an eviction or of `flush_all`. Correct means: a
  pinned page is never evicted; a change is never lost; no frame leaks on an
  error path; whoever gets `BufferPoolExhausted` met a full pool; `checkpoint`
  makes durable what it was called for; nobody is stuck holding core.
* **Allocator.** State is in memory and reaches the disk only in `sync`, as
  many unordered writes; pages on the durable free list are reused before the
  next `sync`; what is read back at `open` is untrusted. Correct means: an id
  has one owner at a time; a synced state survives; corrupt chains are
  rejected, and the walk over them ends.
* **File.** Reads and writes of the same page by several threads are neither
  atomic nor ordered; writes stop half-way; a crash keeps any subset of what
  was not synced. Correct means: what passes verification was written whole, to
  that id; a completed write is found again; a synced one survives.
* **Page format.** The checksum skips its own field, is renewed only by `stamp`
  and `to_checksummed_bytes`, and is computed eight bytes at a time. Correct
  means: exactly the intact pages pass, at the slot and in the page size they
  were written for; the error tells damage from misplacement; what is
  serialised parses.
* **Engine layer.** A checkpoint is two calls, one to the pool and one to the
  allocator, in either order, between which clients go on and the power fails.
  Correct means: after a checkpoint that returned Ok, an untouched page keeps
  its id and its content.

`PROJECT.json` lists the individual hazards with their lines and the properties
that cover them.

## 2. Modules

| Module | Models | Role |
|---|---|---|
| `PageArray` | - | abstract specification of the pool: an array of pages changed through guards |
| `BufferPool` | `pool.rs` | the pool, step by step, and its properties |
| `BufferPoolInv` | - | its inductive invariants |
| `BufferPoolProofs` | - | theorems, in three parts: types, pins, guards, frames; torn pages, dirty bits, `PageArray`, checkpoints; the victim, exhaustion, no deadlock on core |
| `MCBufferPool` | - | instances for TLC, symmetry |
| `FreeChainWalk` | `walk_free_chain` | the loop over untrusted links, with a reference definition of a well-formed chain |
| `FreeChainProofs` | - | theorems |
| `LeastNumber` | - | least and greatest elements of sets of numbers, and functions that carry a value step by step, for the proofs |
| `PageAllocator` | `alloc.rs` | the allocator over a failing store; composes `FreeChainWalk` (`INSTANCE`) for the open |
| `PageAllocatorProofs` | - | theorems |
| `PageFile` | `file.rs`, `sys.rs`, `page.rs` | lock-free page I/O in pieces, page verification, sync, crash |
| `PageFileProofs` | - | theorems |
| `MCPageFile` | - | instances for TLC, symmetry |
| `Crc32c` | `checksum.rs` | tables, slice-by-eight, streaming, against polynomial division |
| `Crc32cProofs` | - | theorems: streaming, CRC32C, bursts, one and two flipped bits |
| `PageFormat` | `page.rs`, `page_parse.rs`, superblock layout of `alloc.rs`, error kinds | pages byte by byte, with the real header and checksum; extends `Crc32c` |
| `PageFormatProofs` | - | theorems: round trips, errors, damage |
| `Engine` | `README.md:120-137` with `alloc.rs`, `pool.rs`, `store.rs` | allocator and pool over one store, and their checkpoint; extends `PageAllocator` |
| `EngineProofs` | - | theorems |

### BufferPool

Variables carry the names of the fields. `content[f]` stands for the bytes in
frame `f` and is the number of changes they have seen; `Absent` is a page the
store does not have, `Torn` a page written half-way. `store` is what a read
returns, `durable` what is on stable storage. `pc`, `call`, `slot`, `key`,
`steps`, `todo` are the control state and locals of the methods; `held`,
`asked`, `borrow` describe each guard.

A step is as large as nobody can notice: everything between two points where
the owner of core reads something that others change (a pin, a dirty bit, a
latch) is one action. So `fetch` on a hit is one action (`FetchHit`), while a
miss is `TakeFree` or `StartSweep`, `Sweep` for each turn of `find_victim`,
then `flush_slot` in up to four actions (`FlushClean` | `FlushDirty`,
`WritePage` | `WriteFail`, `ClearDirty`), and `FetchLoad` | `FetchFail`.
`PageGuard::write` is two actions, `CallWrite` (the dirty bit) and `TakeWrite`
(the latch), because the code does them in that order without core.
`checkpoint` is `flush_all`, then with core unlocked `SyncOk` | `SyncFail`.

The order of the free `Vec` and of the `HashMap` iteration is left open. The
clients are arbitrary, except that `FlushAllowed` states the one rule the
documentation gives them (pool.rs:245-246), and two constants restrict them
further:

* `ShortBorrows`: a thread holds no `PageRef`/`PageMut` when it enters the pool
  or takes another one;
* `ExclusiveFlush`: no call of `write()` overlaps a flush.

`CoreNotDeadlocked` needs the first, `ChangesAreDirty`, `CacheIsTransparent` and
`CheckpointDurable` need the second: see section 5. Where a theorem depends on
one of them, it is a hypothesis of the theorem; the others hold for arbitrary
clients.

### FreeChainWalk and PageAllocator

`FreeChainWalk` starts from *any* superblock and any content of the pages and
takes one turn of the loop per step. `IsChain` is the reference definition of
the list on disk. `PageAllocator` has the state mutex, one step for each of
`allocate` and `free`, one step for each page `persist_superblock` writes, and
the store's `sync` after the mutex is released. `file` is what is read back,
`disk` what survives a crash; `WriteBack` moves single pages from one to the
other at any time, `Crash` may also tear the ones under way. Clients write
arbitrary numbers into the first eight bytes of pages they own, which is where a
link would be. They free only ids they own, once (alloc.rs:194-196 makes double
frees a caller error). After an open all ids that are not free count as owned.
`Faults` says which of failing writes, failing syncs and crashes a run has.
What becomes of a double free is asked of the walk: `WrittenFor(s)` is the file
`persist_superblock` leaves for a list `s` with repeats, and `RepeatIsRefused`
says that the open does not accept it. The input of the walk, `FuzzStore`, is
everything the store of the fuzz target can hold.

### PageFile

A page is `page_size` *cells*; `pread` and `pwrite` move any number of them at a
time. The first cell holds the header: id and checksum. The checksum is
idealised: two different pages have different checksums, so that what is shown
is that the *protocol* (checksum, then id) suffices, given a checksum that does
not collide. `byte_offset` wraps at `OffsetSpace`, as `u64` multiplication does
in a release build; ids that share a slot are part of the run. Every id has
data of its own, so that a page of another id, or a mixture, is recognised.

### Crc32c

A word is the set of its one bits: `^` is symmetric difference, `>>` a shift of
the elements. `Reference` is the textbook division by 0x1EDC6F41, in the
orientation the code does not use. Both are affine in the bits of the message
for a fixed length, so agreement on the message of zeros and on the messages
with one bit set is agreement on all messages of that length; by the same
argument the checksums of those messages being different says that every error
of one or two bits is detected.

### PageFormat

Pages of 64 bytes with the 32-byte header of the code, its magic, version and
offsets; only `MIN_PAGE_SIZE` and `MAX_PAGE_SIZE` differ. A run begins with a
block: one of the messages of `Crc32c`, or a stamped page, intact or with one
of its 512 bits flipped. As in the fuzz target the block is checksummed, then
parsed with `from_bytes`, as it is or cut and padded (`drive`), or read with
`read_into` from a file of some page size. A page that passes is changed by its
owner: `set_lsn`, `payload_mut`, `reset`, `write_page`. `superblock` and
`Parsed` are the layout of the allocator's page 0 over the same bytes.

### Engine

`PageAllocator`'s actions are used as they are. Of the pool, only `dirty` is
kept: what a page will be when it is flushed. That this is all there is to the
pool, seen from below, is what the pool's own runs show (`CacheIsTransparent`,
`ChangesAreDirty`). Evictions flush any dirty page at any time. A checkpoint is
either `flush_all` and then the allocator's `sync` (README.md:120-137), whose
sync of the store covers both, or the allocator's `sync` and then the pool's
`checkpoint` (which alloc.rs:17-21 suggests: the mark no later than the data).
`begun` remembers what each page held when it began, less what was written to or
freed since; `kept` is the same after it returned Ok. `CleanFree` restricts the
clients: a page that is freed is not dirty in the pool.

The payload that clients write is a number no id of the model has. Data that
looks like a link is `PageAllocator`'s subject; here it would let a stale chain,
after a crash, run through a page in use (alloc.rs:314).

## 3. Runs

| Run | Bounds | Shows |
|---|---|---|
| `pool_pins` | 1 frame, 2 threads, 2 pages, 1 version, `ShortBorrows`, `FairSpec` | types, pins, guards, frames, torn pages; no deadlock on core; core is released |
| `pool_clock` | 2 frames, 3 pages, 2 threads | the sweep under concurrent drops |
| `pool_durable` | 1 frame, 2 threads, 2 pages, 2 versions, checkpoints, `ExclusiveFlush` | changes are dirty until stored; the pool implements `PageArray`; a checkpoint that returns Ok is durable |
| `pool_lost_write` | violation | finding 1 |
| `pool_deadlock` | violation | finding 2 |
| `chain_walk` | all inputs with ids below 5 | the walk is exact, bounded, ends, and refuses what a double free leaves |
| `alloc_crash` | ids 1-2 in use, 2 clients, all faults | exclusive ids, durability of a sync |
| `alloc_invalid` | violation | finding 3 |
| `engine` | ids 1-2 in use, both orders of a checkpoint, failing writes, crashes, `CleanFree` | checkpointed pages survive with their ids; the allocator's state does, too |
| `engine_freed` | violation; no faults | finding 4 |
| `page_format` | lengths around one and two chunks, zero and one-bit messages, every division into updates; 4 pages of 64 bytes with every one-bit error, 4 sizes, 2 changes | slice-by-eight is CRC32C and detects one or two flipped bits; exactly intact pages pass; errors name the damage; pages round-trip |
| `file_pages` | 2 threads, 3 ids in 2 slots, 2 cells | verified pages are whole and of the right id; completed writes stay, synced ones survive |

*Why the bounds suffice.* One frame and two pages force an eviction on every
change of page, which is where pin, dirty bit and map interact; two threads are
enough for every pairwise interleaving of a core owner with a guard; two frames
and three pages add the choice of a victim and an exhausted pool with unpinned
frames. Two versions tell a stale page from a new one. In the walk, four ids
give cycles of every length up to four, early ends and links beyond the mark;
in the allocator, `NO_PAGE` = 4 makes exhaustion, a chain of two pages and data
that looks like a link reachable, and in the engine one page can be in use
while the other is free, dirty or reused. Failing syncs are left out of `engine`
for time; with them, too, both properties hold (5.7 million states). Two cells
are the least that can tear. The lengths of `page_format` give no, one and two
chunks, with and without a remainder; its pages have a whole superblock's room
of payload, and two changes put any setter after any other. Named bounds:
`MaxGuards`, `MaxVersion`, `capacity`, `NO_PAGE`, `page_size`, `OffsetSpace`,
`Lengths`, `Sizes`, `Stored`, `MaxChanges`; `Ops` restricts a run to the methods
its question is about.

*Deadlock checking* is on except in `chain_walk` and `page_format`, which end.

*Symmetry* is used in safety runs only: threads and pages of the pool are
interchangeable, as are threads and the two payload values of the file.

*Fairness* (`FairSpec`): a thread inside a critical section is scheduled again
(weak fairness of its steps), clients end their borrows (weak fairness of
`EndBorrow`; the run has `ShortBorrows`), and a flush or reset waiting for a
latch gets it if it is free again and again (strong fairness: the standard
`RwLock` does not let new readers pass a waiting writer for ever). Nothing is
assumed about which thread gets core next, and no client is forced to call
anything.

Each property has a mutant in `PROJECT.json`: a plausible error in the code
that makes TLC report that property.

## 4. Proofs

Every theorem holds for all values of the constants: any number of threads,
guards, pages, frames, ids, cells, any width of an id. The assumptions
(`PoolAssumption`, `WalkAssumption`, `AllocatorAssumption`, `EngineAssumption`,
`FileAssumption`, `LengthsAssumption`, `FormatAssumption`) give the constants
their types; the set of threads of the pool is finite, because guards are
counted, and a page has room for the header and a superblock
(`MIN_PAGE_SIZE >= 64`; it is 4096 in the code). What restricts the clients is a
hypothesis of the theorem:

| Theorem | States | Hypothesis |
|---|---|---|
| **`BufferPoolProofs`** `TypeCorrect` | `TypeOK` | |
| `PinsAreExact` | `PinsCountGuards` | |
| `GuardsAreStable` | `GuardShowsItsPage` | |
| `FramesAreConserved` | `FramesAccountedFor` | |
| `TornPagesAreKept` | `TornPageStaysDirty` | |
| `NoChangeIsForgotten` | `ChangesAreDirty` | `ExclusiveFlush` |
| `PoolIsAnArray` | `CacheIsTransparent`, the refinement of `PageArray` | `ExclusiveFlush` |
| `CheckpointsAreDurable` | `CheckpointDurable`, an action property | `ExclusiveFlush` |
| `ExhaustionIsReal` | `ExhaustedMeansAllPinned` | |
| `VictimsAreCold` | `VictimWasCold` | |
| `CoreIsNotDeadlocked` | `CoreNotDeadlocked` | `ShortBorrows` |
| **`FreeChainProofs`** `WalkStaysBounded` | `WalkIsBounded` | |
| `WalkIsCorrect` | `WalkIsExact` | |
| `DoubleFreeIsNoticed` | `RepeatIsRefused` | |
| **`PageAllocatorProofs`** `AllocatorTypes` | `AllocTypeOK` | |
| `IdsStayExclusive` | `IdsAreExclusive` | |
| `SyncedStateIsFound` | `SyncedStateSurvives` | |
| **`EngineProofs`** `PoolSparesTheFreeList` | `SyncedStateSurvives` of the engine | `CleanFree` |
| `CheckpointsSurvive` | `CheckpointedPagesSurvive` | `DataIsNoLink` |
| **`PageFileProofs`** `OkReadsAreWhole` | `ReadsAreWhole` | |
| `SettledPagesAreRead` | `SettledPageIsRead` | |
| `SyncedPagesSurvive` | `SyncedPageSurvives` | |
| **`Crc32cProofs`** `ChecksumIsCrc32c` | slice-by-eight is CRC32C, for every sequence of bytes | |
| `StreamingIsOneShot` | `process` on two parts is `process` on the whole | |
| `StreamsAreCrc32c` | `StreamIsCrc32c` | |
| `BurstsAreDetected` | damage within four adjacent bytes changes the checksum | |
| `TwoFlipsAreDetected`, `FlipsAlwaysDetected` | `FlipsAreDetected` | `WithinPeriod` |
| **`PageFormatProofs`** `PagesRoundTrip` | `RoundTrips` | |
| `ErrorsNameTheDamage` | `ErrorNamesTheDamage` | |
| `IntactPagesPass` | `OnlyIntactPagesPass` | `NoChanceMatch` |
| `BurstsDoNotPass` | a page damaged within four adjacent bytes is not accepted | |
| `FormatChecksums`, `FormatFlipsDetected` | the two properties of `Crc32c`, of `FormatSpec` | as above |

`ExclusiveFlush`, `ShortBorrows` and `CleanFree` are the constants of section 2,
and the runs `pool_lost_write`, `pool_deadlock` and `engine_freed` show that the
theorems do not hold without them. `DataIsNoLink` says that what clients have in
the first eight bytes of a page is not an id below any mark nor `NO_PAGE`;
without it the theorem is false as well. TLC finds the counterexample with three
ids in use: pages 2 and 3 are freed, the superblock of the next `sync` reaches
the disk before the link of page 2 does, and the power fails. If the old data of
page 2 reads as the id 1 and the data of page 1 as `NO_PAGE`, the chain 2, 1 has
the right length, is accepted, and page 1 is handed out although it is in use.
With two ids (run `engine`, whose data satisfies the hypothesis) the length
gives the stale chain away.

*The pool.* Its first four properties are not inductive alone. That a guard's
page stays where it is depends on the victim of a sweep being unpinned until it
is emptied, several steps later; that depends on its pin count being exact (no
guard can appear on it without core, and the owner of core is busy) and on the
page being loaded not being resident already (or `install` would map it twice).
`PoolInv` adds exactly this: `CoreInv` (one thread in a critical section),
`CallInv` (a call's arguments and its place fit), `SectionInv` (what the owner
of core relies on at each label: the slot is unpinned, the page absent, the free
list empty, the key maps to the slot) and `IdleInv` (unused guards point
nowhere, free frames are unpinned). The proof has one lemma or step per action
and, under it, one per conjunct the action disturbs; counting guards rests on
the cardinality lemmas for adding and removing one element of a finite set. The
others are built on `PoolInv`:

* `ContentInv`: resident bytes are a page, and from the look at the dirty bit
  until it is cleared a flush is alone with the bytes.
* `DirtyInv`: who has called `write()`, even if still waiting for the latch, has
  the dirty bit set. This is where `ExclusiveFlush` is needed. With both, every
  step of the pool is a step of `PageArray` or leaves the pages as they are.
* `GoalInv`: pages that a checkpoint has passed are in the store as new as when
  it was called, and stay so.
* `ClockInv`: what the hand has passed once is unreferenced or was pinned at the
  start, what it has passed twice was pinned at the start; frames are told apart
  by their distance to the hand, modulo `capacity`.
* `OneBorrow`: a thread has one borrow at most, and is not in the pool with it.

*The walk.* The ids collected so far are a path from the head, all different and
allocated, `cur` is what the last of them links to (`LinkedInv`), and any
well-formed chain there may be starts with them (`PrefixInv`). The last part
shows that a *rejected* input has no chain. For a list with a repeat, the last
occurrence of an id decides its link; `LeastNumber` provides it, from the
library's theorem that the natural numbers are well-founded.

*The allocator.* `IdInv` says who owns an id, who has the lock and what the walk
has collected; it does not depend on what the store holds, so no fault of the
store can break it. `SyncInv` says where a saved state is: in the file and, if
stable, on the disk (`StoreInv`), that the links a running `persist_superblock`
has written are there (`PersistInv`), and that a walk over a saved state is a
prefix of the saved list (`ReopenInv`).

*The engine.* Every step is one of the allocator's, a page write of the pool, or
a sync of the store (`EngineSteps`), so that the allocator's lemmas apply.
`PoolSparesTheFreeList` needs only that dirty pages are owned (`DirtyIsOwned`),
which is what `CleanFree` gives. `CheckpointsSurvive` follows a page through a
checkpoint: `BegunInv` (its last write is in the pool or in the file, once
`flush_all` has passed it in the file, and once the superblock is written its
mark is above the page) and then through crashes: `KeptInv` (page and mark agree
on the file and on the disk, and a walk that strays onto the page is refused).
The proof does not use `CleanFree`.

*The file.* `FileTypes` says that every cell of the file, of the disk and of a
buffer comes from a stamped page; with the idealised checksum this gives
`ReadsAreWhole`. `SettledInv`, `AloneInv` and `SyncedInv` say that a settled
page has no writer in its slot, that a write that none overlaps has the slot to
itself and its first cells written, and that a synced page is settled and whole
on the disk. Slots that start at different offsets are disjoint because
`byte_offset` is a multiple of `page_size` even where it wraps (`SlotStart`,
`SlotsDisjoint`).

*The checksum.* Words are sets of bits, so `^` is symmetric difference. One
shift (`ShiftOne`) is linear and injective. Eight of them are table 0, and table
k is eight shifts more for each of its k bytes (`TableShifts`), so a slice of
eight bytes does what eight single bytes do (`SliceIsEightBytes`). `IsRun` is
the sequence of states byte by byte; `process` is at its end, however it is
called (`ProcessFollowsRun`, `ProcessAdvances`), and so is the division by the
polynomial, whose register is the state with its bits reversed
(`EightDivisions`, `ReferenceFollowsRun`). The loops of the code are recursive
functions over the bytes. That such a function exists and agrees with another
that takes the same steps is shown once (`StepsExist`, `SameSteps` in
`LeastNumber`), from the least number at which it would not; no induction
scheme is needed. `ReferenceIsStandard`, which TLC evaluates, says that the
reference has the standard check value; no proof uses it. That a state is
injective in the word before it gives `BurstsAreDetected`. For two bits far
apart, the difference of two divisions is a division again (`DivideLinear`):
after the first bit it follows `Orbit`, and the second bit cancels it only where
the orbit is back at its start. `WithinPeriod` says that this does not happen
within a message. The period of the polynomial is 2^31-1 bits and a page has
2^23 at most; for given lengths the hypothesis is a calculation, which the
prover cannot do.

*The page.* Fields that are written are read back, and others are untouched
(`ReadWritten`, `ReadBeside`); the checksum does not depend on its own field
(`ChecksumSkipsItself`), so a sealed page verifies. A flipped bit changes the
field it is in (`FlippedField`) and, outside the checksum, the computed checksum
(`FlippedChecksum`), but never both the stored and the computed one. `FormatInv`
says what the block once was (`BlockInv`), that a verdict is that of `verify` on
the block (`JudgedInv`), and that a page in use is whole and has a header
(`PageInv`): the last is what makes `RoundTrips` inductive, since the setters
leave the checksum wrong. `NoChanceMatch` says that no page of the instance, cut
or padded to another page size, has the checksum of that block by accident. A
32-bit checksum cannot exclude it for all pages: a page may by chance be
followed by the zeros that keep its checksum. For the pages of `page_format` the
run shows that it does not happen. At a page's own size the theorem leaves
nothing to chance.

Only model-checked: liveness (`CoreIsReleased`, `WalkEnds`), which the prover
does not handle, and the value `ReferenceIsStandard`. Every invariant, action
property and refinement that a passing run checks is also a theorem.

## 5. Findings

1. **A write can be lost** (`pool_lost_write`). `PageGuard::write` marks the
   frame dirty *before* it waits for the latch (pool.rs:411-413). A flush in
   between writes the old bytes and clears the bit (pool.rs:317-319), and the
   mutation that follows is in a frame that counts as clean. With clients that
   keep the two apart (`ExclusiveFlush`), the pool is transparent.
2. **Waiting for a latch with core locked** (`pool_deadlock`). A flush, or
   `new_page` on a resident page, deadlocks with another thread that holds a
   borrow of the page and enters the pool. The documentation only warns of a
   write guard on the same thread (pool.rs:245-246). With `ShortBorrows` there
   is no such deadlock.
3. **The allocator may refuse its own file** (`alloc_invalid`): reuse a page of
   the synced free list, write to it, and end without a `sync`.
   alloc.rs:105-106 says only a foreign page 0 is refused.
4. **A freed page comes back over its link** (`engine_freed`). The pool is not
   told that a page was freed and has no call to forget one. If the page is
   dirty, the next `flush_all` or eviction writes it where the allocator's
   `sync` has put a link, and the next open refuses the file, although every
   call returned Ok and nothing crashed. With pages that are flushed before
   they are freed (`CleanFree`), the engine layer keeps its promise.

Observed while modelling, without a run of their own:

* `byte_offset` (page.rs:76) multiplies without a check: in a release build the
  offset of an id from 2^64 / page_size on wraps, and a write to it destroys the
  page of a small id. The reader is not deceived, since the header's id is
  compared: `ReadsAreWhole`, with two ids on one slot.
* `ChecksumMismatch.page_id` is documented as "the id of the slot that was read"
  (error.rs:83); it is the id in the header (page.rs:356), which in a damaged
  page can be any.
* `UnsupportedVersion` is documented as "newer than this build understands"
  (error.rs:68); any other version is meant (page.rs:345).
* The checksum is computed without its own four bytes (page.rs:407-413), not
  with the field zero as the layout in the same file has it (page.rs:14).

## 6. Not modelled

* `open` with Direct I/O flags per platform, and the `create` option: what the
  operating system makes of them is outside the program.
* Alignment, raw pointers and deallocation in `buffer.rs` (`unsafe`); `Clone`,
  `Debug`, `Display`; the fields and the wording of errors; `lib.rs`.
* `capacity`, `resident_len`, `is_resident`, `is_dirty`, `free_count`: they only
  read.
* The directory entry of a new file, which no call syncs.
* Memory ordering weaker than sequential consistency: the atomics are used with
  acquire and release, and decisions on them are made under core or a latch.
* An operating system that drops dirty pages after a failed `fsync`.
* Poisoned locks: the critical sections do not panic (sync.rs:21-24).

## 7. Plan

Done: models and runs of all parts that have state, and proofs of every safety
invariant, action property and refinement that a run checks. Left:

1. That a slot which is not being written verifies or is torn, for failed writes
   as well as settled ones.
2. A store that drops dirty pages after a failed `fsync`, for the retry of a
   checkpoint.
