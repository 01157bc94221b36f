---------------------------- MODULE EngineProofs -----------------------------
(***************************************************************************)
(* Proofs about an engine layer, on top of those about its allocator: the  *)
(* pool's writes do not disturb a synced free list, and the pages of a     *)
(* checkpoint are there after every crash.                                 *)
(***************************************************************************)
EXTENDS Engine, PageAllocatorProofs

(* No data of the clients can be taken for the link of a free page, to a   *)
(* page below any mark or to the end of the chain.                         *)
DataIsNoLink == Data \cap ((1 .. NO_PAGE - 2) \cup {NO_PAGE}) = {}

(* The types of what an engine adds to its allocator.                      *)
EngineTypes ==
  /\ dirty \in [Id -> Data \cup {Clean}]
  /\ begun \in [Id -> Data \cup {Clean}] /\ kept \in [Id -> Data \cup {Clean}]
  /\ todo \subseteq Id
  /\ order \in {"none", "pool first", "allocator first"}
  /\ at \in {"none", "flush", "persist", "persisting", "sync"}

(* Calls are made in an open engine, one sync of the allocator at a time.  *)
CallInv ==
  /\ mode # "open" => dirty = None /\ begun = None /\ at = "none"
  /\ \A c \in Client : pc[c] # "idle" => at = "persisting"
  /\ \A c, d \in Client : pc[c] # "idle" /\ pc[d] # "idle" => c = d

(* The pool owes the store pages in use only.                              *)
DirtyIsOwned == \A p \in Id : dirty[p] # Clean => p \in owned

(* Every mark on slot c is above p.                                        *)
MarkAbove(c, p) == c[1] = "super" => p < c[3]

(* What a checkpoint under way can say of the pages it began with: the     *)
(* last write is in the pool or in the file; once flush_all has passed, in *)
(* the file; and once the superblock is written, it has the page in use.   *)
PassedBy(p) ==
  \/ at = "sync" \/ (at = "flush" /\ p \notin todo)
  \/ order = "pool first" /\ at \in {"persist", "persisting"}

MarkWritten ==
  \/ at = "sync" \/ (at = "flush" /\ order # "pool first")
  \/ \E c \in Client : pc[c] = "sync"

BegunInv ==
  \A p \in Id : begun[p] # Clean =>
    /\ p \in owned
    /\ dirty[p] \in {Clean, begun[p]}
    /\ dirty[p] = Clean => file[p] = Word(begun[p])
    /\ PassedBy(p) => dirty[p] = Clean
    /\ MarkWritten => MarkAbove(file[0], p)

(* What holds of the pages of a finished checkpoint, on the disk and       *)
(* through crashes.  A walk that strays onto such a page goes no further.  *)
KeptInv ==
  \A p \in Id : kept[p] # Clean =>
    /\ dirty[p] = Clean
    /\ file[p] = Word(kept[p]) /\ disk[p] = Word(kept[p])
    /\ MarkAbove(file[0], p) /\ MarkAbove(disk[0], p)
    /\ mode = "open" => p \in owned
    /\ mode = "walking" =>
         /\ p < next_new
         /\ p \in Elems(ids) => cur = kept[p] /\ result # "ok"

-----------------------------------------------------------------------------
(* The steps of an engine, as the allocator sees them.                     *)

(* The pool writes a page back, or fails to.                               *)
PoolWrite(p) ==
  /\ UNCHANGED allocUnchanged
  /\ dirty[p] # Clean
  /\ Write(p, Word(dirty[p])) \/ WriteError(p)

(* The pool syncs the store.                                               *)
StoreSynced == UNCHANGED <<allocUnchanged, file>> /\ disk' = file

(* Every step is one of the allocator, or one of these two, or leaves the  *)
(* allocator and the store alone.                                          *)
LEMMA EngineSteps ==
  ASSUME EngineNext \/ UNCHANGED allVars
  PROVE  \/ AllocStep \/ UNCHANGED vars
         \/ \E p \in Id : PoolWrite(p) /\ (mode = "open" \/ at = "flush")
         \/ StoreSynced
<1>1. CASE UNCHANGED allVars
  BY <1>1 DEF allVars
<1>2. CASE (Open \/ Reuse \/ Extend \/ NoRoom) /\ Keep
  BY <1>2 DEF AllocStep
<1>3. CASE \E p \in Slot : (FreeRefused(p) \/ WriteBack(p)) /\ Keep
  BY <1>3 DEF AllocStep
<1>4. CASE \E p \in owned : FreePage(p)
  BY <1>4 DEF AllocStep, FreePage
<1>5. CASE \E p \in owned, v \in Data : WriteGuard(p, v)
  BY <1>5 DEF WriteGuard, allocUnchanged, vars
<1>6. CASE \E p \in Id : Evict(p)
  BY <1>6 DEF Evict, PoolWrite, FlushSlot, FlushSlotError
<1>7. CASE \E p \in Id : FlushNext(p)
  <2>1. PICK p \in Id : FlushNext(p)
    BY <1>7
  <2>2. UNCHANGED allocUnchanged /\ at = "flush"
    BY <2>1 DEF FlushNext
  <2>3. CASE UNCHANGED storeVars
    BY <2>2, <2>3 DEF allocUnchanged, vars
  <2> QED
    BY <2>1, <2>2, <2>3 DEF FlushNext, PoolWrite, FlushSlot, FlushSlotError
<1>8. CASE Begin \/ FlushEnd
  BY <1>8 DEF Begin, FlushEnd, allocUnchanged, vars
<1>9. CASE PoolSync
  BY <1>9 DEF PoolSync, StoreSynced, allocUnchanged, vars, storeVars
<1>10. CASE Vanish
  BY <1>10 DEF Vanish, AllocStep
<1>11. CASE \E c \in Client : AllocatorSync(c)
  BY <1>11 DEF AllocatorSync, AllocStep, Sync
<1> QED
  BY <1>1, <1>2, <1>3, <1>4, <1>5, <1>6, <1>7, <1>8, <1>9, <1>10, <1>11 DEF EngineNext

(* What clients write is data of a page.                                   *)
LEMMA DataFacts ==
  /\ \A v \in Data : v \in 0 .. NO_PAGE /\ v # Clean /\ Word(v) \in Content
  /\ \A v \in 0 .. NO_PAGE : v # Clean
BY AllocatorAssumption, ContentMembers DEF Clean

(* The allocator's ids are as exclusive in an engine as on their own.      *)
LEMMA EngineIdInv ==
  ASSUME IdInv, EngineTypes, EngineNext \/ UNCHANGED allVars
  PROVE  IdInv'
<1>1. ASSUME NEW p \in Id, PoolWrite(p) PROVE IdInv'
  <2>1. p \in Slot /\ Word(dirty[p]) \in Content
    BY <1>1, IdFacts, DataFacts DEF EngineTypes, PoolWrite
  <2>2. file' \in [Slot -> Content] /\ disk' \in [Slot -> Content]
    BY <1>1, <2>1, StoreSteps DEF PoolWrite
  <2> QED
    BY <1>1, <2>2, IdInvStore DEF PoolWrite, allocUnchanged, IdInv, AllocTypeOK
<1>2. CASE StoreSynced
  <2>1. file' \in [Slot -> Content] /\ disk' \in [Slot -> Content]
    BY <1>2 DEF StoreSynced, IdInv, AllocTypeOK
  <2> QED
    BY <1>2, <2>1, IdInvStore DEF StoreSynced, allocUnchanged, IdInv, AllocTypeOK
<1> QED
  BY <1>1, <1>2, EngineSteps, IdInvAllocStep

-----------------------------------------------------------------------------
(* The pool's state has its type, and calls are made one at a time.        *)

(* Where the allocator's callers are changes in a sync and when the        *)
(* process ends, and it is open before and after every other step.         *)
LEMMA ModeSteps ==
  ASSUME IdInv
  PROVE  /\ Open => mode # "open" /\ UNCHANGED pc
         /\ Reuse \/ Extend \/ NoRoom => UNCHANGED <<mode, pc>>
         /\ \A p : Free(p) \/ FreeRefused(p) \/ WriteBack(p) => UNCHANGED <<mode, pc>>
         /\ UNCHANGED allocUnchanged => UNCHANGED <<mode, pc, next_new, owned>>
         /\ Crash \/ Close => mode' = "closed" /\ \A c \in Client : pc'[c] = "idle"
<1>1. Open => mode # "open" /\ UNCHANGED pc
  BY DEF Open, ReadSuperblock, RefuseSuperblock, Initialize, InitializeError, Walk, Opened,
       WalkRefused, openUnchanged, threadVars
<1>2. Reuse \/ Extend \/ NoRoom => UNCHANGED <<mode, pc>>
  BY DEF Reuse, Extend, NoRoom, threadUnchanged, threadVars, vars
<1>3. \A p : Free(p) \/ FreeRefused(p) \/ WriteBack(p) => UNCHANGED <<mode, pc>>
  BY DEF Free, FreeRefused, WriteBack, threadUnchanged, threadVars, vars
<1>4. UNCHANGED allocUnchanged => UNCHANGED <<mode, pc, next_new, owned>>
  BY DEF allocUnchanged, threadVars, allocVars
<1>5. Crash \/ Close => mode' = "closed" /\ \A c \in Client : pc'[c] = "idle"
  BY DEF Crash, Close, Gone
<1> QED
  BY <1>1, <1>2, <1>3, <1>4, <1>5

(* A sync moves one caller on, in an open engine.                          *)
LEMMA SyncSteps ==
  ASSUME IdInv, NEW c \in Client, Sync(c)
  PROVE  /\ mode = "open" /\ mode' = "open" /\ UNCHANGED <<next_new, owned>>
         /\ \A d \in Client \ {c} : pc'[d] = pc[d]
<1>1. UNCHANGED <<mode, next_new, owned>>
  BY DEF Sync, SyncStart, WriteLink, WriteSuperblock, PersistError, SyncStore, SyncError,
       syncUnchanged, allocVars
<1>2. mode = "open"
  BY DEF Sync, SyncStart, WriteLink, WriteSuperblock, PersistError, SyncStore, SyncError,
       Usable, Persisting, IdInv, ThreadInv
<1>3. \A d \in Client \ {c} : pc'[d] = pc[d]
  BY DEF Sync, SyncStart, WriteLink, WriteSuperblock, PersistError, SyncStore, SyncError,
       IdInv, AllocTypeOK
<1> QED
  BY <1>1, <1>2, <1>3

(* A checkpoint's calls keep the types.                                    *)
LEMMA CheckpointTypes ==
  ASSUME IdInv, EngineTypes
  PROVE  /\ \A n \in {"none", "flush", "persist", "sync"} :
              Proceed(n) /\ UNCHANGED dirty => EngineTypes'
         /\ GiveUp /\ UNCHANGED dirty => EngineTypes'
<1>1. Issued \subseteq Id
  BY IdFacts DEF Issued, IdInv, AllocTypeOK
<1>2. None \in [Id -> Data \cup {Clean}]
  BY DEF None
<1>3. [p \in Id |-> IF begun[p] # Clean THEN begun[p] ELSE kept[p]]
        \in [Id -> Data \cup {Clean}]
  BY DEF EngineTypes
<1> QED
  BY <1>1, <1>2, <1>3 DEF Proceed, GiveUp, EngineTypes

(* Every step keeps the types.                                             *)
LEMMA EngineTypesStep ==
  ASSUME IdInv, EngineTypes, EngineNext \/ UNCHANGED allVars
  PROVE  EngineTypes'
<1>1. CASE UNCHANGED engineVars
  BY <1>1 DEF engineVars, callVars, pledgeVars, EngineTypes
<1>2. ASSUME NEW p \in owned, FreePage(p) PROVE EngineTypes'
  BY <1>2 DEF FreePage, callVars, EngineTypes
<1>3. ASSUME NEW p \in owned, NEW v \in Data, WriteGuard(p, v) PROVE EngineTypes'
  BY <1>3 DEF WriteGuard, callVars, EngineTypes
<1>4. ASSUME NEW p \in Id, Evict(p) PROVE EngineTypes'
  BY <1>4 DEF Evict, FlushSlot, FlushSlotError, callVars, pledgeVars, EngineTypes
<1>5. ASSUME NEW p \in Id, FlushNext(p) PROVE EngineTypes'
  <2>1. CASE FlushSlotError(p) /\ GiveUp
    BY <2>1, CheckpointTypes DEF FlushSlotError
  <2>2. CASE ~ (FlushSlotError(p) /\ GiveUp)
    <3>1. /\ dirty' = dirty \/ dirty' = [dirty EXCEPT ![p] = Clean]
          /\ todo' = todo \ {p} /\ UNCHANGED <<order, at, begun, kept>>
      BY <1>5, <2>2 DEF FlushNext, FlushSlot, pledgeVars
    <3> QED
      BY <3>1 DEF EngineTypes
  <2> QED
    BY <2>1, <2>2
<1>6. CASE Begin
  <2>1. Issued \subseteq Id
    BY IdFacts DEF Issued, IdInv, AllocTypeOK
  <2>2. ASSUME NEW p \in Id PROVE Held(p) \in Data \cup {Clean}
    <3>1. \A v \in Data : file[p] = Word(v) => file[p][2] \in Data
      BY SlotKinds
    <3> QED
      BY <3>1 DEF Held, EngineTypes
  <2>3. begun' \in [Id -> Data \cup {Clean}]
    BY <1>6, <2>2 DEF Begin
  <2> QED
    BY <1>6, <2>1, <2>3, EngineAssumption DEF Begin, EngineTypes
<1>7. CASE FlushEnd \/ PoolSync
  BY <1>7, CheckpointTypes DEF FlushEnd, PoolSync
<1>8. CASE Vanish
  BY <1>8 DEF Vanish, None, EngineTypes
<1>9. ASSUME NEW c \in Client, AllocatorSync(c) PROVE EngineTypes'
  <2>1. CASE at' = "persisting" /\ UNCHANGED <<dirty, todo, order, pledgeVars>>
    BY <2>1 DEF EngineTypes, pledgeVars
  <2> QED
    BY <1>1, <1>9, <2>1, CheckpointTypes DEF AllocatorSync, Keep
<1> QED
  BY <1>1, <1>2, <1>3, <1>4, <1>5, <1>6, <1>7, <1>8, <1>9 DEF EngineNext, Keep, allVars

(* Every step keeps the calls in order.                                    *)
LEMMA CallInvStep ==
  ASSUME IdInv, EngineTypes, CallInv, EngineNext \/ UNCHANGED allVars
  PROVE  CallInv'
<1>0. pc \in [Client -> {"idle", "persist", "sync"}]
  BY DEF IdInv, AllocTypeOK
<1>1. CASE UNCHANGED <<pc, dirty, begun, at>> /\ (mode' = mode \/ mode # "open")
  BY <1>1 DEF CallInv
<1>2. CASE UNCHANGED vars /\ UNCHANGED engineVars
  BY <1>1, <1>2 DEF vars, threadVars, engineVars, callVars, pledgeVars
<1>3. CASE (Open \/ Reuse \/ Extend \/ NoRoom) /\ Keep
  BY <1>1, <1>3, ModeSteps DEF Keep, engineVars, callVars, pledgeVars
<1>4. CASE \E p \in Slot : (FreeRefused(p) \/ WriteBack(p)) /\ Keep
  BY <1>1, <1>4, ModeSteps DEF Keep, engineVars, callVars, pledgeVars
<1>5. CASE \E p \in owned : FreePage(p)
  <2>1. mode = "open" /\ UNCHANGED <<mode, pc, at>>
    BY <1>5, ModeSteps DEF FreePage, callVars, Free, Usable
  <2> QED
    BY <2>1 DEF CallInv
<1>6. CASE \E p \in owned, v \in Data : WriteGuard(p, v)
  <2>1. mode = "open" /\ UNCHANGED <<mode, pc, at>>
    BY <1>6, ModeSteps DEF WriteGuard, callVars
  <2> QED
    BY <2>1 DEF CallInv
<1>7. CASE \E p \in Id : Evict(p)
  <2>1. mode = "open" /\ UNCHANGED <<mode, pc, at>>
    BY <1>7, ModeSteps DEF Evict, callVars
  <2> QED
    BY <2>1 DEF CallInv
<1>8. CASE (\E p \in Id : FlushNext(p)) \/ FlushEnd \/ PoolSync \/ Begin
  <2>1. UNCHANGED <<mode, pc>> /\ at # "persisting" /\ (mode = "open" \/ at = "none")
    BY <1>8, ModeSteps DEF FlushNext, FlushEnd, PoolSync, Begin, CallInv
  <2>2. mode = "open"
    BY <1>8, <2>1 DEF FlushNext, FlushEnd, PoolSync, Begin
  <2>3. \A c \in Client : pc'[c] = "idle"
    BY <2>1, <1>0 DEF CallInv
  <2> QED
    BY <2>1, <2>2, <2>3 DEF CallInv
<1>9. CASE Vanish
  BY <1>9, ModeSteps DEF Vanish, CallInv
<1>10. ASSUME NEW c \in Client, AllocatorSync(c) PROVE CallInv'
  <2>1. Sync(c)
    BY <1>10 DEF AllocatorSync, Sync
  <2>2. /\ mode' = "open" /\ \A d \in Client \ {c} : pc'[d] = pc[d]
    BY <2>1, SyncSteps
  <2>3. CASE at = "persist" /\ at' = "persisting"
    BY <2>2, <2>3 DEF CallInv
  <2>4. CASE (WriteLink(c) \/ WriteSuperblock(c)) /\ Keep
    <3>1. pc[c] # "idle" /\ at' = at
      BY <2>4 DEF WriteLink, WriteSuperblock, Persisting, Keep, engineVars, callVars
    <3> QED
      BY <2>2, <3>1 DEF CallInv
  <2>5. CASE SyncStore(c) \/ PersistError(c) \/ SyncError(c)
    <3>1. pc[c] # "idle" /\ pc'[c] = "idle"
      BY <2>5, <1>0 DEF SyncStore, PersistError, SyncError, Persisting
    <3>2. \A d \in Client : pc'[d] = "idle"
      BY <2>2, <3>1 DEF CallInv
    <3> QED
      BY <2>2, <3>2 DEF CallInv
  <2> QED
    BY <1>10, <2>3, <2>4, <2>5 DEF AllocatorSync
<1> QED
  BY <1>2, <1>3, <1>4, <1>5, <1>6, <1>7, <1>8, <1>9, <1>10 DEF EngineNext, allVars

(* IdInv, EngineTypes and CallInv are inductive together.                  *)
EngineBase == IdInv /\ EngineTypes /\ CallInv

(* Nothing is open at first.                                               *)
LEMMA EngineBaseInit == EngineInit => EngineBase
<1> SUFFICES ASSUME EngineInit PROVE EngineBase
  OBVIOUS
<1>1. IdInv
  BY IdInvInit DEF EngineInit
<1>2. EngineTypes /\ CallInv
  BY DEF EngineInit, Init, EngineTypes, CallInv, None
<1> QED
  BY <1>1, <1>2 DEF EngineBase

(* Ids, types and the order of calls hold of every engine.                 *)
THEOREM EngineInvariant == EngineSpec => []EngineBase
<1>1. EngineBase /\ [EngineNext]_allVars => EngineBase'
  BY EngineIdInv, EngineTypesStep, CallInvStep DEF EngineBase
<1> QED
  BY <1>1, EngineBaseInit, PTL DEF EngineSpec

-----------------------------------------------------------------------------
(* The pool does not disturb a synced free list.                           *)

(* A page freed only once the pool is done with it is not owed to the      *)
(* store after it.                                                         *)
LEMMA DirtyIsOwnedStep ==
  ASSUME EngineBase, CleanFree, DirtyIsOwned, EngineNext \/ UNCHANGED allVars
  PROVE  DirtyIsOwned'
<1>0. /\ dirty \in [Id -> Data \cup {Clean}] /\ owned \subseteq Id
      /\ mode # "open" => dirty = None
  BY DEF EngineBase, EngineTypes, CallInv, IdInv, AllocTypeOK
<1>1. CASE /\ owned \subseteq owned'
           /\ dirty' = dirty \/ \E p \in Id : dirty' = [dirty EXCEPT ![p] = Clean]
  BY <1>0, <1>1 DEF DirtyIsOwned
<1>2. CASE dirty' = None
  BY <1>2 DEF None, DirtyIsOwned
<1>3. CASE UNCHANGED allVars
  BY <1>1, <1>3 DEF allVars, vars, engineVars
<1>4. CASE Open /\ Keep
  BY <1>0, <1>2, <1>4, ModeSteps DEF EngineBase, Keep, engineVars
<1>5. CASE (Reuse \/ Extend \/ NoRoom) /\ Keep
  BY <1>1, <1>5 DEF Reuse, Extend, NoRoom, vars, Keep, engineVars
<1>6. CASE \E p \in Slot : (FreeRefused(p) \/ WriteBack(p)) /\ Keep
  BY <1>1, <1>6 DEF FreeRefused, WriteBack, vars, Keep, engineVars
<1>7. ASSUME NEW p \in owned, FreePage(p) PROVE DirtyIsOwned'
  BY <1>7 DEF FreePage, Free, DirtyIsOwned
<1>8. ASSUME NEW p \in owned, NEW v \in Data, WriteGuard(p, v) PROVE DirtyIsOwned'
  BY <1>0, <1>8 DEF WriteGuard, allocUnchanged, DirtyIsOwned
<1>9. CASE \E p \in Id : Evict(p)
  BY <1>1, <1>9 DEF Evict, FlushSlot, FlushSlotError, allocUnchanged
<1>10. CASE \E p \in Id : FlushNext(p)
  BY <1>1, <1>10 DEF FlushNext, FlushSlot, FlushSlotError, allocUnchanged
<1>11. CASE Begin \/ FlushEnd \/ PoolSync
  BY <1>1, <1>11 DEF Begin, FlushEnd, PoolSync, allocUnchanged
<1>12. CASE Vanish
  BY <1>2, <1>12 DEF Vanish
<1>13. ASSUME NEW c \in Client, AllocatorSync(c) PROVE DirtyIsOwned'
  <2>1. UNCHANGED dirty /\ Sync(c)
    BY <1>13 DEF AllocatorSync, Sync, Keep, engineVars
  <2> QED
    BY <1>1, <2>1, SyncSteps DEF EngineBase
<1> QED
  BY <1>3, <1>4, <1>5, <1>6, <1>7, <1>8, <1>9, <1>10, <1>11, <1>12, <1>13 DEF EngineNext

(* SyncInv is inductive in an engine that frees clean pages.               *)
LEMMA EngineSyncInv ==
  ASSUME EngineBase, DirtyIsOwned, SyncInv, EngineNext \/ UNCHANGED allVars
  PROVE  SyncInv'
<1>1. ASSUME NEW p \in Id, PoolWrite(p), mode = "open" \/ at = "flush" PROVE SyncInv'
  <2>1. p \in owned /\ mode = "open"
    BY <1>1 DEF PoolWrite, DirtyIsOwned, EngineBase, CallInv
  <2>2. /\ UNCHANGED <<mode, allocVars, lock, written, walkVars, historyVars, disk>>
        /\ \E v : file' = [file EXCEPT ![p] = v]
    BY <1>1 DEF PoolWrite, Write, WriteError, allocUnchanged, threadVars
  <2>3. \A q \in Slot \ {p} : file'[q] = file[q]
    BY <2>2 DEF EngineBase, IdInv, AllocTypeOK
  <2> QED
    BY <2>1, <2>2, <2>3, SyncInvWrite DEF EngineBase
<1>2. CASE StoreSynced
  <2>1. /\ UNCHANGED <<mode, allocVars, lock, written, walkVars, persisted, stable, file>>
        /\ disk' = file
    BY <1>2 DEF StoreSynced, allocUnchanged, threadVars, historyVars
  <2>2. StoreInv'
    BY <2>1, StatePair DEF SyncInv, StoreInv, Saved, savedList, savedMark, Holds
  <2>3. PersistInv' /\ ReopenInv'
    BY <2>1 DEF SyncInv, PersistInv, ReopenInv, Saved, State, savedList, savedMark, NextId,
         allocVars, walkVars
  <2> QED
    BY <2>2, <2>3 DEF SyncInv
<1> QED
  BY <1>1, <1>2, EngineSteps, SyncInvAllocStep DEF EngineBase

(* Where a page is freed only when the pool does not have it dirty, the    *)
(* free list that sync wrote out is found by the next open, whatever the   *)
(* pool writes back meanwhile: no eviction or flush lands on a link.       *)
THEOREM PoolSparesTheFreeList == CleanFree => (EngineSpec => []SyncedStateSurvives)
<1> SUFFICES ASSUME CleanFree PROVE EngineSpec => []SyncedStateSurvives
  OBVIOUS
<1>1. EngineInit => DirtyIsOwned /\ SyncInv
  BY SyncInvInit DEF EngineInit, DirtyIsOwned, None
<1>2. EngineBase /\ DirtyIsOwned /\ SyncInv /\ [EngineNext]_allVars
        => DirtyIsOwned' /\ SyncInv'
  BY DirtyIsOwnedStep, EngineSyncInv
<1>3. EngineSpec => [](DirtyIsOwned /\ SyncInv)
  BY <1>1, <1>2, EngineInvariant, PTL DEF EngineSpec
<1>4. SyncInv => SyncedStateSurvives
  BY DEF SyncInv, ReopenInv, SyncedStateSurvives
<1> QED
  BY <1>3, <1>4, PTL

-----------------------------------------------------------------------------
(* A checkpoint's pages survive.                                           *)

(* An id in use is below the mark and not on the free list.                *)
LEMMA OwnedIds ==
  ASSUME EngineBase, mode = "open", NEW p \in owned
  PROVE  /\ p \in Id /\ p # 0 /\ p < next_new /\ p \in Issued
         /\ \A i \in DOMAIN free_list : free_list[i] # p
<1>1. p \in Id /\ next_new \in Id
  BY DEF EngineBase, IdInv, AllocTypeOK
<1>2. /\ p \in 1 .. next_new - 1
      /\ \A i \in DOMAIN free_list : free_list[i] # p
  BY DEF EngineBase, IdInv, IdsAreExclusive, Elems
<1> QED
  BY <1>1, <1>2, IdFacts DEF Issued

(* A page of a checkpoint under way is in use, in an open engine.          *)
LEMMA BegunIsOpen ==
  ASSUME EngineBase, BegunInv, NEW p \in Id, begun[p] # Clean
  PROVE  mode = "open" /\ p \in owned
BY DEF EngineBase, CallInv, BegunInv, None

(* No caller of the allocator is past its superblock unless a checkpoint   *)
(* is in its sync.                                                         *)
LEMMA NobodySyncs ==
  ASSUME EngineBase, at # "persisting", NEW c \in Client
  PROVE  pc[c] = "idle"
BY DEF EngineBase, CallInv

(* Steps that leave alone what a checkpoint under way says.                *)
LEMMA BegunSame ==
  ASSUME BegunInv, file'[0] = file[0], MarkWritten' => MarkWritten,
         \A p \in Id : begun'[p] # Clean =>
           /\ begun'[p] = begun[p] /\ p \in owned' /\ dirty'[p] = dirty[p]
           /\ dirty[p] = Clean => file'[p] = file[p]
           /\ PassedBy(p)' => PassedBy(p)
  PROVE  BegunInv'
<1> SUFFICES ASSUME NEW p \in Id, begun'[p] # Clean
             PROVE  /\ p \in owned'
                    /\ dirty'[p] \in {Clean, begun'[p]}
                    /\ dirty'[p] = Clean => file'[p] = Word(begun'[p])
                    /\ PassedBy(p)' => dirty'[p] = Clean
                    /\ MarkWritten' => MarkAbove(file'[0], p)
  BY DEF BegunInv
<1> QED
  BY DEF BegunInv

(* Steps that leave alone the pages of finished checkpoints.               *)
LEMMA KeptSame ==
  ASSUME KeptInv, mode' # "walking",
         \A p \in Id : kept'[p] # Clean =>
           /\ kept'[p] = kept[p] /\ dirty'[p] = Clean /\ file'[p] = file[p]
           /\ disk'[p] \in {disk[p], file[p]}
           /\ MarkAbove(file'[0], p) /\ MarkAbove(disk'[0], p)
           /\ mode' = "open" => p \in owned'
  PROVE  KeptInv'
BY DEF KeptInv

(* The clients' steps: a page that is written or freed is forgotten.       *)
LEMMA PledgeClients ==
  ASSUME EngineBase, BegunInv, KeptInv,
         \/ (Reuse \/ Extend \/ NoRoom) /\ Keep
         \/ \E p \in Slot : (FreeRefused(p) \/ WriteBack(p)) /\ Keep
         \/ \E p \in owned : FreePage(p) \/ \E v \in Data : WriteGuard(p, v)
         \/ UNCHANGED allVars
  PROVE  BegunInv' /\ KeptInv'
<1>0. /\ dirty \in [Id -> Data \cup {Clean}] /\ begun \in [Id -> Data \cup {Clean}]
      /\ kept \in [Id -> Data \cup {Clean}] /\ owned \subseteq Id
      /\ file \in [Slot -> Content] /\ disk \in [Slot -> Content]
  BY DEF EngineBase, EngineTypes, IdInv, AllocTypeOK
<1>1. UNCHANGED <<mode, pc, todo, order, at, file>>
  BY DEF Reuse, Extend, NoRoom, FreeRefused, WriteBack, FreePage, Free, WriteGuard, Keep,
       threadUnchanged, threadVars, storeVars, allocUnchanged, engineVars, callVars, vars,
       allVars
<1>2. \A p \in Id : begun'[p] # Clean \/ kept'[p] # Clean =>
        /\ begun'[p] = begun[p] /\ kept'[p] = kept[p] /\ dirty'[p] = dirty[p]
        /\ p \in owned => p \in owned'
  <2>1. CASE UNCHANGED <<dirty, begun, kept>> /\ owned \subseteq owned'
    BY <2>1
  <2>2. CASE ((Reuse \/ Extend \/ NoRoom) /\ Keep) \/ UNCHANGED allVars
    BY <2>1, <2>2 DEF Reuse, Extend, NoRoom, vars, allVars, Keep, engineVars, pledgeVars
  <2>3. CASE \E p \in Slot : (FreeRefused(p) \/ WriteBack(p)) /\ Keep
    BY <2>1, <2>3 DEF FreeRefused, WriteBack, vars, Keep, engineVars, pledgeVars
  <2>4. ASSUME NEW q \in owned, FreePage(q) \/ \E v \in Data : WriteGuard(q, v)
        PROVE  \A p \in Id : begun'[p] # Clean \/ kept'[p] # Clean =>
                 /\ begun'[p] = begun[p] /\ kept'[p] = kept[p] /\ dirty'[p] = dirty[p]
                 /\ p \in owned => p \in owned'
    BY <1>0, <2>4 DEF FreePage, Free, WriteGuard, allocUnchanged
  <2> QED
    BY <2>2, <2>3, <2>4
<1>3. \A p \in Slot : disk'[p] \in {disk[p], file[p]}
  BY <1>0 DEF Reuse, Extend, NoRoom, FreeRefused, WriteBack, FreePage, Free, WriteGuard, Keep,
       threadUnchanged, storeVars, vars, allVars
<1>4. \A p \in Id : PassedBy(p)' = PassedBy(p)
  BY <1>1 DEF PassedBy
<1>5. MarkWritten' = MarkWritten
  BY <1>1 DEF MarkWritten
<1>6. BegunInv'
  BY <1>1, <1>2, <1>4, <1>5, BegunSame DEF BegunInv
<1>7. KeptInv'
  <2>1. CASE mode = "walking"
    <3>1. UNCHANGED <<next_new, ids, cur, result>>
      BY <1>1, <2>1 DEF Reuse, Extend, NoRoom, FreeRefused, WriteBack, FreePage, Free,
           WriteGuard, Usable, vars, allVars, allocVars, walkVars
    <3>2. ASSUME NEW p \in Id, kept'[p] # Clean
          PROVE  /\ dirty'[p] = Clean
                 /\ file'[p] = Word(kept'[p]) /\ disk'[p] = Word(kept'[p])
                 /\ MarkAbove(file'[0], p) /\ MarkAbove(disk'[0], p)
                 /\ p < next_new'
                 /\ p \in Elems(ids') => cur' = kept'[p] /\ result' # "ok"
      BY <1>1, <1>2, <1>3, <2>1, <3>1, <3>2, IdFacts DEF KeptInv
    <3> QED
      BY <1>1, <2>1, <3>2 DEF KeptInv
  <2>2. CASE mode # "walking"
    <3>1. ASSUME NEW p \in Id, kept'[p] # Clean
          PROVE  /\ kept'[p] = kept[p] /\ dirty'[p] = Clean /\ file'[p] = file[p]
                 /\ disk'[p] \in {disk[p], file[p]}
                 /\ MarkAbove(file'[0], p) /\ MarkAbove(disk'[0], p)
                 /\ mode' = "open" => p \in owned'
      BY <1>1, <1>2, <1>3, <2>2, <3>1, IdFacts DEF KeptInv
    <3> QED
      BY <1>1, <2>2, <3>1, KeptSame
  <2> QED
    BY <2>1, <2>2
<1> QED
  BY <1>6, <1>7

(* A page that a checkpoint says is stored is never written by the pool.   *)
LEMMA KeptUnderPoolWrite ==
  ASSUME EngineBase, KeptInv, NEW p \in Id, PoolWrite(p), kept' = kept,
         dirty' = dirty \/ dirty' = [dirty EXCEPT ![p] = Clean],
         mode = "open" \/ at = "flush"
  PROVE  KeptInv'
<1>1. mode = "open" /\ UNCHANGED <<mode, owned, disk>>
  BY DEF EngineBase, CallInv, PoolWrite, allocUnchanged, Write, WriteError
<1>2. \A q \in Slot \ {p} : file'[q] = file[q]
  BY DEF PoolWrite, Write, WriteError, EngineBase, IdInv, AllocTypeOK
<1>3. ASSUME NEW q \in Id, kept[q] # Clean
      PROVE  /\ dirty'[q] = Clean /\ file'[q] = file[q] /\ file'[0] = file[0]
  BY <1>2, <1>3, IdFacts DEF KeptInv, PoolWrite, EngineBase, EngineTypes
<1>4. ASSUME NEW q \in Id, kept'[q] # Clean
      PROVE  /\ kept'[q] = kept[q] /\ dirty'[q] = Clean /\ file'[q] = file[q]
             /\ disk'[q] \in {disk[q], file[q]}
             /\ MarkAbove(file'[0], q) /\ MarkAbove(disk'[0], q)
             /\ mode' = "open" => q \in owned'
  BY <1>1, <1>3, <1>4 DEF KeptInv
<1> QED
  BY <1>1, <1>4, KeptSame

(* The pool writes the last write of a page, or leaves it dirty.           *)
LEMMA BegunUnderPoolWrite ==
  ASSUME EngineBase, BegunInv, NEW p \in Id, PoolWrite(p), begun' = begun,
         \/ FlushSlot(p)
         \/ UNCHANGED dirty,
         \A q \in Id \ {p} : PassedBy(q)' => PassedBy(q),
         FlushSlot(p) \/ (PassedBy(p)' => PassedBy(p)),
         MarkWritten' => MarkWritten
  PROVE  BegunInv'
<1>1. UNCHANGED owned
  BY DEF PoolWrite, allocUnchanged
<1>2. \A q \in Slot \ {p} : file'[q] = file[q]
  BY DEF PoolWrite, Write, WriteError, EngineBase, IdInv, AllocTypeOK
<1>3. /\ dirty \in [Id -> Data \cup {Clean}] /\ p \in Slot /\ p # 0 /\ 0 \in Slot
      /\ file \in [Slot -> Content]
  BY IdFacts DEF EngineBase, EngineTypes, IdInv, AllocTypeOK
<1>4. file'[0] = file[0]
  BY <1>2, <1>3
<1> SUFFICES ASSUME NEW q \in Id, begun'[q] # Clean
             PROVE  /\ q \in owned'
                    /\ dirty'[q] \in {Clean, begun'[q]}
                    /\ dirty'[q] = Clean => file'[q] = Word(begun'[q])
                    /\ PassedBy(q)' => dirty'[q] = Clean
                    /\ MarkWritten' => MarkAbove(file'[0], q)
  BY DEF BegunInv
<1>5. /\ q \in owned /\ dirty[q] \in {Clean, begun[q]}
      /\ dirty[q] = Clean => file[q] = Word(begun[q])
      /\ PassedBy(q) => dirty[q] = Clean
      /\ MarkWritten => MarkAbove(file[0], q)
  BY DEF BegunInv
<1>6. CASE q # p
  <2>1. q \in Slot /\ dirty'[q] = dirty[q]
    BY <1>3, <1>6, IdFacts DEF FlushSlot
  <2> QED
    BY <1>1, <1>2, <1>4, <1>5, <1>6, <2>1
<1>7. CASE q = p /\ FlushSlot(p)
  <2>1. /\ dirty[p] # Clean /\ dirty'[p] = Clean /\ file'[p] = Word(dirty[p])
    BY <1>3, <1>7 DEF FlushSlot, Write
  <2> QED
    BY <1>1, <1>4, <1>5, <1>7, <2>1
<1>8. CASE q = p /\ UNCHANGED dirty /\ ~ FlushSlot(p)
  <2>1. dirty'[p] # Clean
    BY <1>8 DEF PoolWrite
  <2> QED
    BY <1>1, <1>4, <1>5, <1>8, <2>1
<1> QED
  BY <1>6, <1>7, <1>8

(* Evictions and flush_all.                                                *)
LEMMA PledgePoolWrites ==
  ASSUME EngineBase, BegunInv, KeptInv, NEW p \in Id, Evict(p) \/ FlushNext(p)
  PROVE  BegunInv' /\ KeptInv'
<1>0. /\ dirty \in [Id -> Data \cup {Clean}] /\ begun \in [Id -> Data \cup {Clean}]
  BY DEF EngineBase, EngineTypes
<1>1. CASE Evict(p)
  <2>1. /\ PoolWrite(p) /\ UNCHANGED <<todo, order, at, begun, kept, pc>> /\ mode = "open"
        /\ FlushSlot(p) \/ UNCHANGED dirty
        /\ dirty' = dirty \/ dirty' = [dirty EXCEPT ![p] = Clean]
    BY <1>1 DEF Evict, PoolWrite, FlushSlot, FlushSlotError, callVars, pledgeVars,
         allocUnchanged, threadVars
  <2>2. /\ \A q \in Id : PassedBy(q)' => PassedBy(q)
        /\ MarkWritten' => MarkWritten
    BY <2>1 DEF PassedBy, MarkWritten
  <2>3. KeptInv'
    BY <2>1, KeptUnderPoolWrite
  <2>4. BegunInv'
    BY <2>1, <2>2, BegunUnderPoolWrite
  <2> QED
    BY <2>3, <2>4
<1>2. CASE FlushNext(p)
  <2>1. at = "flush" /\ UNCHANGED allocUnchanged
    BY <1>2 DEF FlushNext
  <2>2. CASE FlushSlotError(p) /\ GiveUp
    <3>1. PoolWrite(p) /\ kept' = kept /\ dirty' = dirty /\ begun' = None
      BY <2>1, <2>2 DEF PoolWrite, FlushSlotError, GiveUp
    <3>2. KeptInv'
      BY <2>1, <3>1, KeptUnderPoolWrite
    <3> QED
      BY <3>1, <3>2 DEF None, BegunInv
  <2>3. CASE todo' = todo \ {p} /\ UNCHANGED <<order, at, pledgeVars>>
    <3>1. UNCHANGED <<begun, kept, order, at, pc, mode, owned>>
      BY <2>1, <2>3 DEF pledgeVars, allocUnchanged, threadVars
    <3>2. /\ \A q \in Id \ {p} : PassedBy(q)' => PassedBy(q)
          /\ MarkWritten' => MarkWritten
      BY <2>3, <3>1 DEF PassedBy, MarkWritten
    <3>3. CASE FlushSlot(p)
      <4>1. PoolWrite(p) /\ dirty' = [dirty EXCEPT ![p] = Clean]
        BY <2>1, <3>3 DEF PoolWrite, FlushSlot
      <4>2. KeptInv'
        BY <2>1, <3>1, <4>1, KeptUnderPoolWrite
      <4>3. BegunInv'
        BY <3>1, <3>2, <3>3, <4>1, BegunUnderPoolWrite
      <4> QED
        BY <4>2, <4>3
    <3>4. CASE dirty[p] = Clean /\ UNCHANGED <<storeVars, dirty>>
      <4>0. UNCHANGED <<file, disk, dirty>> /\ mode = "open"
        BY <2>1, <3>4 DEF storeVars, EngineBase, CallInv
      <4>1. KeptInv'
        BY <3>1, <4>0 DEF KeptInv
      <4>2. ASSUME NEW q \in Id, begun'[q] # Clean
            PROVE  /\ q \in owned'
                   /\ dirty'[q] \in {Clean, begun'[q]}
                   /\ dirty'[q] = Clean => file'[q] = Word(begun'[q])
                   /\ PassedBy(q)' => dirty'[q] = Clean
                   /\ MarkWritten' => MarkAbove(file'[0], q)
        BY <3>1, <3>2, <3>4, <4>0, <4>2 DEF BegunInv
      <4> QED
        BY <4>1, <4>2 DEF BegunInv
    <3>5. CASE FlushSlotError(p) /\ GiveUp
      BY <2>2, <3>5
    <3> QED
      BY <1>2, <3>3, <3>4, <3>5 DEF FlushNext
  <2> QED
    BY <1>2, <2>2, <2>3 DEF FlushNext
<1> QED
  BY <1>1, <1>2

(* Opening: the mark of any superblock is above the pages of a finished    *)
(* checkpoint, and no chain that leads onto one of them is accepted.       *)
LEMMA PledgeOpen ==
  ASSUME DataIsNoLink, EngineBase, KeptInv, Open, Keep
  PROVE  BegunInv' /\ KeptInv'
<1>0. /\ mode # "open" /\ begun = None /\ dirty = None
      /\ UNCHANGED <<begun, kept, dirty>> /\ kept \in [Id -> Data \cup {Clean}]
  BY ModeSteps DEF EngineBase, CallInv, EngineTypes, Keep, engineVars, pledgeVars
<1>1. BegunInv'
  BY <1>0 DEF None, BegunInv
<1>2. \A p \in Id : dirty'[p] = Clean
  BY <1>0 DEF None
<1>3. CASE ReadSuperblock
  <2>1. /\ UNCHANGED <<file, disk>> /\ mode' = "walking" /\ next_new' = file[0][3]
        /\ ids' = <<>> /\ file[0][1] = "super"
    BY <1>3 DEF ReadSuperblock, storeVars
  <2>2. Elems(ids') = {}
    BY <2>1 DEF Elems
  <2> QED
    BY <1>0, <1>1, <1>2, <2>1, <2>2 DEF KeptInv, MarkAbove
<1>4. CASE RefuseSuperblock
  <2>1. UNCHANGED <<file, disk>> /\ mode' = "refused"
    BY <1>4 DEF RefuseSuperblock, Refuse, openUnchanged, storeVars
  <2> QED
    BY <1>0, <1>1, <1>2, <2>1 DEF KeptInv
<1>5. CASE Initialize \/ InitializeError
  <2>1. \A p \in Id : kept[p] = Clean
    BY <1>5 DEF Initialize, InitializeError, NewFile, KeptInv, Word, Absent
  <2> QED
    BY <1>0, <1>1, <2>1 DEF KeptInv
<1>6. CASE Walk
  <2>1. /\ mode = "walking" /\ UNCHANGED <<mode, next_new, file, disk>>
    BY <1>6 DEF Walk, openUnchanged, allocVars, storeVars
  <2>2. ASSUME NEW p \in Id, kept[p] # Clean, p \in Elems(ids')
        PROVE  cur' = kept[p] /\ result' # "ok"
    <3>1. kept[p] \in Data /\ kept[p] \in 0 .. NO_PAGE
      BY <1>0, <2>2, DataFacts
    <3>2. next_new \in Id /\ ids \in Seq(Id) /\ cur \in 0 .. NO_PAGE
      BY <2>1 DEF EngineBase, IdInv, WalkInv, AllocTypeOK
    <3>3. p \in Elems(ids) => cur = kept[p] /\ result # "ok"
      BY <2>1, <2>2 DEF KeptInv
    <3>4. p \in Elems(ids) => ~ Chain!Follow /\ ~ Chain!End
      <4> SUFFICES ASSUME cur = kept[p], Chain!Follow \/ Chain!End PROVE FALSE
        BY <3>3
      <4>1. cur = NO_PAGE \/ (cur # 0 /\ cur < next_new)
        BY DEF Chain!Follow, Chain!End, Chain!Acceptable
      <4>2. cur \in (1 .. NO_PAGE - 2) \cup {NO_PAGE}
        BY <3>1, <3>2, <4>1, AllocatorAssumption DEF Id
      <4> QED
        BY <3>1, <4>2 DEF DataIsNoLink
    <3>5. CASE Chain!Reject
      BY <2>2, <3>3, <3>5 DEF Chain!Reject
    <3>6. CASE Chain!End
      <4>1. ids' = ids
        BY <3>6 DEF Chain!End
      <4> QED
        BY <2>2, <3>4, <3>6, <4>1
    <3>7. CASE Chain!Follow
      <4>1. /\ cur # 0 /\ cur < next_new /\ ids' = Append(ids, cur) /\ result = "walking"
            /\ link[cur] # -1 => cur' = link[cur] /\ result' = result
        BY <3>7 DEF Chain!Follow, Chain!Acceptable, Chain!Unreadable
      <4>2. cur \in Id
        BY <3>2, <4>1, AllocatorAssumption DEF Id
      <4>3. Elems(ids') = Elems(ids) \cup {cur}
        <5>1. /\ DOMAIN ids' = 1 .. Len(ids) + 1 /\ DOMAIN ids = 1 .. Len(ids)
              /\ Len(ids) \in Nat
              /\ \A i \in 1 .. Len(ids) : ids'[i] = ids[i]
              /\ ids'[Len(ids) + 1] = cur
          BY <3>2, <4>1, <4>2
        <5> QED
          BY <5>1 DEF Elems
      <4>4. p = cur
        BY <2>2, <3>4, <3>7, <4>3
      <4>5. file[p] = Word(kept[p])
        BY <2>2 DEF KeptInv
      <4>6. link[p] = kept[p] /\ kept[p] # -1
        BY <2>2, <4>5, SlotKinds DEF link, Clean
      <4> QED
        BY <4>1, <4>4, <4>6
    <3> QED
      BY <1>6, <3>5, <3>6, <3>7 DEF Walk, Chain!Step
  <2>3. ASSUME NEW p \in Id, kept'[p] # Clean
        PROVE  /\ dirty'[p] = Clean
               /\ file'[p] = Word(kept'[p]) /\ disk'[p] = Word(kept'[p])
               /\ MarkAbove(file'[0], p) /\ MarkAbove(disk'[0], p)
               /\ p < next_new'
               /\ p \in Elems(ids') => cur' = kept'[p] /\ result' # "ok"
    BY <1>0, <1>2, <2>1, <2>2, <2>3 DEF KeptInv
  <2> QED
    BY <1>1, <2>1, <2>3 DEF KeptInv
<1>7. CASE Opened
  <2>1. /\ mode = "walking" /\ mode' = "open" /\ result = "ok" /\ UNCHANGED <<file, disk>>
        /\ owned' = (1 .. next_new - 1) \ Elems(ids) /\ next_new \in Id
    BY <1>7 DEF Opened, storeVars, EngineBase, IdInv, AllocTypeOK
  <2>2. ASSUME NEW p \in Id, kept[p] # Clean PROVE p \in owned'
    <3>1. p < next_new /\ p \notin Elems(ids)
      BY <2>1, <2>2 DEF KeptInv
    <3> QED
      BY <2>1, <3>1, AllocatorAssumption DEF Id
  <2> QED
    BY <1>0, <1>1, <1>2, <2>1, <2>2 DEF KeptInv
<1>8. CASE WalkRefused
  <2>1. UNCHANGED <<file, disk>> /\ mode' = "refused"
    BY <1>8 DEF WalkRefused, Refuse, openUnchanged, storeVars
  <2> QED
    BY <1>0, <1>1, <1>2, <2>1 DEF KeptInv
<1> QED
  BY <1>3, <1>4, <1>5, <1>6, <1>7, <1>8 DEF Open

(* The process ends.  A page that is the same on the disk as in the file   *)
(* is not torn, and a superblock that is torn holds no mark.               *)
LEMMA PledgeVanish ==
  ASSUME EngineBase, KeptInv, Vanish
  PROVE  BegunInv' /\ KeptInv'
<1>0. /\ begun' = None /\ dirty' = None /\ kept' = kept /\ mode' = "closed"
  BY ModeSteps DEF Vanish, EngineBase
<1>1. BegunInv'
  BY <1>0 DEF None, BegunInv
<1>2. ASSUME NEW p \in Id, kept[p] # Clean
      PROVE  /\ file'[p] = file[p] /\ disk'[p] = disk[p]
             /\ MarkAbove(file'[0], p) /\ MarkAbove(disk'[0], p)
  <2>1. /\ file[p] = disk[p] /\ MarkAbove(file[0], p) /\ MarkAbove(disk[0], p)
        /\ p \in Slot /\ 0 \in Slot
    BY <1>2, IdFacts DEF KeptInv
  <2>2. MarkAbove(Torn, p)
    BY DEF MarkAbove, Torn
  <2>3. CASE Crash
    <3>1. PICK torn \in SUBSET {q \in Slot : disk[q] # file[q]} :
            /\ file' = [q \in Slot |-> IF q \in torn THEN Torn ELSE disk[q]]
            /\ disk' = file'
      BY <2>3 DEF Crash
    <3>2. p \notin torn
      BY <2>1, <3>1
    <3>3. file'[0] = Torn \/ file'[0] = disk[0]
      BY <2>1, <3>1
    <3>4. file'[p] = disk[p] /\ disk'[p] = file'[p] /\ disk'[0] = file'[0]
      BY <2>1, <3>1, <3>2
    <3> QED
      BY <2>1, <2>2, <3>3, <3>4
  <2>4. CASE Close
    BY <2>1, <2>4 DEF Close, storeVars
  <2> QED
    BY <2>3, <2>4 DEF Vanish
<1>3. ASSUME NEW p \in Id, kept'[p] # Clean
      PROVE  /\ kept'[p] = kept[p] /\ dirty'[p] = Clean /\ file'[p] = file[p]
             /\ disk'[p] \in {disk[p], file[p]}
             /\ MarkAbove(file'[0], p) /\ MarkAbove(disk'[0], p)
             /\ mode' = "open" => p \in owned'
  BY <1>0, <1>2, <1>3 DEF None
<1>4. KeptInv'
  BY <1>0, <1>3, KeptSame
<1> QED
  BY <1>1, <1>4

(* Steps of an open engine in which page 0 and the pages in use stay as    *)
(* they are in the file.                                                   *)
LEMMA KeptOpen ==
  ASSUME EngineBase, KeptInv, mode = "open",
         UNCHANGED <<mode, owned, dirty, kept, disk>>,
         file'[0] = file[0] \/ file'[0] = Torn
           \/ \E h, k : file'[0] = Superblock(h, next_new, k),
         \A p \in owned : file'[p] = file[p]
  PROVE  KeptInv'
<1>1. ASSUME NEW p \in Id, kept'[p] # Clean
      PROVE  /\ kept'[p] = kept[p] /\ dirty'[p] = Clean /\ file'[p] = file[p]
             /\ disk'[p] \in {disk[p], file[p]}
             /\ MarkAbove(file'[0], p) /\ MarkAbove(disk'[0], p)
             /\ mode' = "open" => p \in owned'
  <2>1. /\ p \in owned /\ dirty[p] = Clean /\ MarkAbove(file[0], p)
        /\ MarkAbove(disk[0], p)
    BY <1>1 DEF KeptInv
  <2>2. MarkAbove(Torn, p)
    BY DEF MarkAbove, Torn
  <2>3. \A h, k : MarkAbove(Superblock(h, next_new, k), p)
    BY <2>1, OwnedIds, SlotKinds DEF MarkAbove
  <2> QED
    BY <1>1, <2>1, <2>2, <2>3
<1> QED
  BY <1>1, KeptSame

(* A checkpoint that returns Ok: its last call synced the store, after     *)
(* the superblock and all its pages were written.                          *)
LEMMA PledgeMade ==
  ASSUME EngineBase, BegunInv, KeptInv, Proceed("none"), mode = "open",
         UNCHANGED <<mode, owned, dirty, file>>, disk' = file,
         MarkWritten, \A p \in Id : PassedBy(p)
  PROVE  BegunInv' /\ KeptInv'
<1>1. /\ begun' = None
      /\ kept' = [p \in Id |-> IF begun[p] # Clean THEN begun[p] ELSE kept[p]]
  BY DEF Proceed
<1>2. ASSUME NEW p \in Id, kept'[p] # Clean
      PROVE  /\ dirty'[p] = Clean /\ file'[p] = Word(kept'[p]) /\ disk'[p] = Word(kept'[p])
             /\ MarkAbove(file'[0], p) /\ MarkAbove(disk'[0], p) /\ p \in owned'
  <2>1. CASE begun[p] # Clean
    BY <1>1, <2>1 DEF BegunInv
  <2>2. CASE begun[p] = Clean
    BY <1>1, <1>2, <2>2 DEF KeptInv
  <2> QED
    BY <2>1, <2>2
<1>3. KeptInv'
  BY <1>2 DEF KeptInv
<1> QED
  BY <1>1, <1>3 DEF None, BegunInv

(* A checkpoint begins, is between two calls, or syncs the store.          *)
LEMMA PledgeCalls ==
  ASSUME EngineBase, BegunInv, KeptInv, Begin \/ FlushEnd \/ PoolSync
  PROVE  BegunInv' /\ KeptInv'
<1>0. /\ UNCHANGED <<mode, pc, owned, next_new, file, dirty>> /\ mode = "open"
      /\ at # "persisting"
  BY DEF Begin, FlushEnd, PoolSync, allocUnchanged, threadVars, allocVars, storeVars,
       EngineBase, CallInv
<1>1. \A c \in Client : pc'[c] = "idle"
  BY <1>0, NobodySyncs
<1>2. UNCHANGED <<kept, disk>> => KeptInv'
  BY <1>0, KeptOpen
<1>3. CASE Begin
  <2>1. /\ UNCHANGED <<kept, disk>> /\ begun' = [p \in Id |-> Held(p)]
        /\ \/ order' = "pool first" /\ at' = "flush" /\ todo' = Issued
           \/ order' = "allocator first" /\ at' = "persist"
    BY <1>3, EngineAssumption DEF Begin, storeVars
  <2>2. ~ MarkWritten'
    BY <1>1, <2>1 DEF MarkWritten
  <2>3. ASSUME NEW p \in Id, begun'[p] # Clean
        PROVE  /\ p \in owned'
               /\ dirty'[p] \in {Clean, begun'[p]}
               /\ dirty'[p] = Clean => file'[p] = Word(begun'[p])
               /\ ~ PassedBy(p)'
    <3>1. /\ Held(p) # Clean /\ begun'[p] = Held(p)
      BY <2>1, <2>3
    <3>2. /\ p \in owned
          /\ dirty[p] # Clean => Held(p) = dirty[p]
          /\ dirty[p] = Clean => \E v \in Data : file[p] = Word(v) /\ Held(p) = v
      <4>1. \A v \in Data : file[p] = Word(v) => file[p][2] = v
        BY SlotKinds
      <4> QED
        BY <3>1, <4>1 DEF Held
    <3>3. p \in Issued
      BY <1>0, <3>2, OwnedIds
    <3> QED
      BY <1>0, <2>1, <3>1, <3>2, <3>3 DEF PassedBy
  <2>4. BegunInv'
    BY <2>2, <2>3 DEF BegunInv
  <2> QED
    BY <1>2, <2>1, <2>4
<1>4. CASE FlushEnd
  <2>1. /\ UNCHANGED <<kept, disk, begun, order>> /\ at = "flush" /\ todo = {}
        /\ at' = IF order = "pool first" THEN "persist" ELSE "sync"
    BY <1>4 DEF FlushEnd, Proceed, storeVars
  <2>2. MarkWritten' => MarkWritten
    BY <1>1, <2>1 DEF MarkWritten
  <2>3. \A p \in Id : PassedBy(p)
    BY <2>1 DEF PassedBy
  <2>4. BegunInv'
    BY <1>0, <2>1, <2>2, <2>3, BegunSame DEF BegunInv
  <2> QED
    BY <1>2, <2>1, <2>4
<1>5. CASE PoolSync /\ GiveUp /\ UNCHANGED disk
  BY <1>2, <1>5 DEF GiveUp, None, BegunInv
<1>6. CASE PoolSync /\ Proceed("none") /\ disk' = file
  <2>1. MarkWritten /\ \A p \in Id : PassedBy(p)
    BY <1>6 DEF PoolSync, MarkWritten, PassedBy
  <2> QED
    BY <1>0, <1>6, <2>1, PledgeMade
<1> QED
  BY <1>3, <1>4, <1>5, <1>6 DEF PoolSync

(* The allocator's sync writes links on pages nobody owns, and a           *)
(* superblock whose mark is above all that somebody owns.                  *)
LEMMA PledgeSync ==
  ASSUME EngineBase, BegunInv, KeptInv, NEW c \in Client, AllocatorSync(c)
  PROVE  BegunInv' /\ KeptInv'
<1>0. /\ Sync(c) /\ UNCHANGED dirty
  BY DEF AllocatorSync, Sync, Keep, engineVars
<1>1. /\ mode = "open" /\ UNCHANGED <<mode, next_new, owned>>
      /\ \A d \in Client \ {c} : pc'[d] = pc[d]
  BY <1>0, SyncSteps DEF EngineBase
<1>2. /\ file \in [Slot -> Content] /\ pc \in [Client -> {"idle", "persist", "sync"}]
      /\ owned \subseteq Id /\ Id \subseteq Slot /\ 0 \in Slot
      /\ free_list \in Seq(Id) /\ written \in 0 .. Len(free_list)
  BY IdFacts DEF EngineBase, IdInv, AllocTypeOK
<1>3. CASE SyncStart(c) /\ at = "persist" /\ at' = "persisting"
             /\ UNCHANGED <<todo, order, pledgeVars>>
  <2>1. UNCHANGED <<file, disk, begun, kept, order>> /\ pc'[c] = "persist"
    BY <1>2, <1>3 DEF SyncStart, storeVars, pledgeVars
  <2>2. ~ MarkWritten'
    BY <1>1, <1>3, <2>1, NobodySyncs DEF MarkWritten
  <2>3. \A p \in Id : PassedBy(p)' => PassedBy(p)
    BY <1>3, <2>1 DEF PassedBy
  <2>4. BegunInv'
    BY <1>0, <1>1, <2>1, <2>2, <2>3, BegunSame DEF BegunInv
  <2> QED
    BY <1>0, <1>1, <2>1, <2>4, KeptOpen
<1>4. CASE WriteLink(c) /\ Keep
  <2>1. UNCHANGED <<disk, pc, todo, at, begun, kept, order>>
    BY <1>4 DEF WriteLink, Write, Keep, engineVars, callVars, pledgeVars
  <2>2. PICK i \in DOMAIN free_list : \E v : file' = [file EXCEPT ![free_list[i]] = v]
    <3>1. written + 1 \in DOMAIN free_list /\ written' = written + 1
      BY <1>2, <1>4 DEF WriteLink
    <3> QED
      BY <1>4, <3>1 DEF WriteLink, Write
  <2>3. free_list[i] # 0 /\ \A p \in owned : free_list[i] # p
    BY <1>1, <1>2, OwnedIds, IdFacts
  <2>4. file'[0] = file[0] /\ \A p \in owned : file'[p] = file[p]
    BY <1>2, <2>2, <2>3
  <2>5. /\ MarkWritten' => MarkWritten
        /\ \A p \in Id : PassedBy(p)' => PassedBy(p)
    BY <2>1 DEF MarkWritten, PassedBy
  <2>6. BegunInv'
    BY <1>0, <1>1, <2>1, <2>4, <2>5, BegunSame DEF BegunInv
  <2> QED
    BY <1>0, <1>1, <2>1, <2>4, <2>6, KeptOpen
<1>5. CASE WriteSuperblock(c) /\ Keep
  <2>1. UNCHANGED <<disk, todo, at, begun, kept, order>>
    BY <1>5 DEF WriteSuperblock, Write, Keep, engineVars, callVars, pledgeVars
  <2>2. PICK h, k : file' = [file EXCEPT ![0] = Superblock(h, next_new, k)]
    BY <1>5 DEF WriteSuperblock, Write
  <2>3. /\ file'[0] = Superblock(h, next_new, k)
        /\ \A p \in Id : file'[p] = file[p]
    BY <1>2, <2>2, IdFacts
  <2>4. \A p \in Id : PassedBy(p)' => PassedBy(p)
    BY <2>1 DEF PassedBy
  <2>5. ASSUME NEW p \in Id, begun'[p] # Clean
        PROVE  /\ p \in owned'
               /\ dirty'[p] \in {Clean, begun'[p]}
               /\ dirty'[p] = Clean => file'[p] = Word(begun'[p])
               /\ PassedBy(p)' => dirty'[p] = Clean
               /\ MarkAbove(file'[0], p)
    <3>1. p < next_new
      BY <1>1, <2>1, <2>5, BegunIsOpen, OwnedIds
    <3>2. MarkAbove(file'[0], p)
      BY <2>3, <3>1, SlotKinds DEF MarkAbove
    <3> QED
      BY <1>0, <1>1, <2>1, <2>3, <2>4, <2>5, <3>2 DEF BegunInv
  <2>6. BegunInv'
    BY <2>5 DEF BegunInv
  <2>7. KeptInv'
    BY <1>0, <1>1, <1>2, <2>1, <2>3, KeptOpen
  <2> QED
    BY <2>6, <2>7
<1>6. CASE SyncStore(c) /\ Proceed(IF order = "pool first" THEN "none" ELSE "flush")
  <2>1. /\ UNCHANGED file /\ disk' = file /\ pc[c] = "sync" /\ at = "persisting"
    BY <1>6 DEF SyncStore, EngineBase, CallInv
  <2>2. MarkWritten
    BY <2>1 DEF MarkWritten
  <2>3. CASE order = "pool first"
    <3>1. \A p \in Id : PassedBy(p)
      BY <2>1, <2>3 DEF PassedBy
    <3> QED
      BY <1>0, <1>1, <1>6, <2>1, <2>2, <2>3, <3>1, PledgeMade
  <2>4. CASE order # "pool first"
    <3>1. at' = "flush" /\ todo' = Issued /\ UNCHANGED <<begun, kept, order>>
      BY <1>6, <2>4 DEF Proceed
    <3>2. \A p \in owned : ~ PassedBy(p)'
      BY <1>1, <2>4, <3>1, OwnedIds DEF PassedBy
    <3>3. BegunInv'
      BY <1>0, <1>1, <2>1, <2>2, <3>1, <3>2, BegunSame DEF BegunInv
    <3>4. ASSUME NEW p \in Id, kept'[p] # Clean
          PROVE  /\ kept'[p] = kept[p] /\ dirty'[p] = Clean /\ file'[p] = file[p]
                 /\ disk'[p] \in {disk[p], file[p]}
                 /\ MarkAbove(file'[0], p) /\ MarkAbove(disk'[0], p)
                 /\ mode' = "open" => p \in owned'
      BY <1>0, <1>1, <2>1, <3>1, <3>4 DEF KeptInv
    <3>5. KeptInv'
      BY <1>1, <3>4, KeptSame
    <3> QED
      BY <3>3, <3>5
  <2> QED
    BY <2>3, <2>4
<1>7. CASE (PersistError(c) \/ SyncError(c)) /\ GiveUp
  <2>1. BegunInv'
    BY <1>7 DEF GiveUp, None, BegunInv
  <2>2. CASE SyncError(c)
    BY <1>0, <1>1, <1>7, <2>1, <2>2, KeptOpen DEF SyncError, storeVars, GiveUp
  <2>3. CASE PersistError(c)
    <3>1. PICK q \in {0} \cup Elems(free_list) :
            /\ UNCHANGED disk
            /\ \E left \in {file[q], Torn} : file' = [file EXCEPT ![q] = left]
      <4>1. written < Len(free_list) => written + 1 \in DOMAIN free_list
        BY <1>2
      <4> QED
        BY <2>3, <4>1 DEF PersistError, WriteError, Write, Elems
    <3>2. \A p \in owned : p # q /\ p # 0
      BY <1>1, <3>1, OwnedIds DEF Elems
    <3>3. /\ file'[0] = file[0] \/ file'[0] = Torn
          /\ \A p \in owned : file'[p] = file[p]
      BY <1>2, <3>1, <3>2
    <3>4. KeptInv'
      BY <1>0, <1>1, <1>7, <3>1, <3>3, KeptOpen DEF GiveUp
    <3> QED
      BY <2>1, <3>4
  <2> QED
    BY <1>7, <2>1, <2>2, <2>3
<1> QED
  BY <1>3, <1>4, <1>5, <1>6, <1>7 DEF AllocatorSync

(* A page that was written before a checkpoint which returned Ok, and      *)
(* neither written nor freed since, is in use and holds what was written   *)
(* in every process that gets the file open, whichever of its two calls    *)
(* the checkpoint makes first and whatever fails or crashes, provided that *)
(* no data can be taken for a link.  Pages may be freed while dirty.       *)
THEOREM CheckpointsSurvive == DataIsNoLink => (EngineSpec => []CheckpointedPagesSurvive)
<1> SUFFICES ASSUME DataIsNoLink PROVE EngineSpec => []CheckpointedPagesSurvive
  OBVIOUS
<1>1. EngineInit => BegunInv /\ KeptInv
  BY DEF EngineInit, BegunInv, KeptInv, None
<1>2. EngineBase /\ BegunInv /\ KeptInv /\ [EngineNext]_allVars => BegunInv' /\ KeptInv'
  BY PledgeClients, PledgePoolWrites, PledgeOpen, PledgeVanish, PledgeCalls, PledgeSync
     DEF EngineNext
<1>3. EngineSpec => [](BegunInv /\ KeptInv)
  BY <1>1, <1>2, EngineInvariant, PTL DEF EngineSpec
<1>4. EngineBase /\ KeptInv => CheckpointedPagesSurvive
  <2> SUFFICES ASSUME EngineBase, KeptInv, mode = "open", NEW p \in Id, kept[p] # Clean
               PROVE  /\ p \in owned \ Elems(free_list)
                      /\ dirty[p] \in {Clean, kept[p]}
                      /\ dirty[p] = Clean => file[p] = Word(kept[p])
    BY DEF CheckpointedPagesSurvive
  <2>1. p \in owned
    BY DEF KeptInv
  <2>2. p \notin Elems(free_list)
    BY <2>1, OwnedIds DEF Elems
  <2> QED
    BY <2>1, <2>2 DEF KeptInv
<1> QED
  BY <1>3, <1>4, EngineInvariant, PTL

=============================================================================
