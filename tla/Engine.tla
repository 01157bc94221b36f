------------------------------- MODULE Engine --------------------------------
(***************************************************************************)
(* A page-id allocator and a buffer pool over one store, as README.md puts *)
(* an engine layer together: the allocator picks the ids, the pool caches  *)
(* the pages at them, and both write to the store behind each other's      *)
(* back.  A checkpoint makes both durable by calls that other clients'     *)
(* calls, failures and crashes come between.                               *)
(*                                                                         *)
(* The allocator is PageAllocator, step by step.  Of the pool only the     *)
(* pages it owes the store are left: that what a client sees is what was   *)
(* written last, and that every page not yet stored is dirty, is shown in  *)
(* BufferPool (CacheIsTransparent, ChangesAreDirty).                       *)
(***************************************************************************)
EXTENDS PageAllocator

CONSTANTS
  Orders,     \* of the two calls of a checkpoint
  CleanFree   \* a page is freed only when the pool does not have it dirty

ASSUME EngineAssumption ==
  /\ Orders \subseteq {"pool first", "allocator first"}
  /\ CleanFree \in BOOLEAN

VARIABLES
  dirty,      \* what the pool holds for a page and the store has yet to get
  todo,       \* the pages flush_all has still to look at
  order, at,  \* the checkpoint: which call comes first, and where it is
  begun,      \* history: what a page held when the checkpoint began, if nobody
              \* has written to it or freed it since
  kept        \* history: the same once a checkpoint has returned Ok

callVars    == <<todo, order, at>>
pledgeVars  == <<begun, kept>>
engineVars  == <<dirty, callVars, pledgeVars>>
allVars     == <<vars, engineVars>>

Clean   == -1
None    == [p \in Id |-> Clean]
Issued  == 1 .. next_new - 1

Keep == UNCHANGED engineVars

-----------------------------------------------------------------------------
(* The clients: ids from the allocator, pages in the pool.                 *)

allocUnchanged == <<mode, error, allocVars, threadVars, owned, walkVars,
                    historyVars>>

(* A guard of fetch or new_page is written to.                             *)
WriteGuard(p, v) ==
  /\ mode = "open" /\ p \in owned
  /\ dirty' = [dirty EXCEPT ![p] = v]
  /\ begun' = [begun EXCEPT ![p] = Clean] /\ kept' = [kept EXCEPT ![p] = Clean]
  /\ UNCHANGED <<allocUnchanged, storeVars, callVars>>

(* Nobody has a guard on the page any more, and free takes its id.         *)
FreePage(p) ==
  /\ Free(p)
  /\ CleanFree => dirty[p] = Clean
  /\ begun' = [begun EXCEPT ![p] = Clean] /\ kept' = [kept EXCEPT ![p] = Clean]
  /\ UNCHANGED <<dirty, callVars>>

(* flush_slot: the page is written and counts as clean; or the write fails *)
(* and it stays dirty.                                                     *)
FlushSlot(p) ==
  /\ dirty[p] # Clean
  /\ Write(p, Word(dirty[p]))
  /\ dirty' = [dirty EXCEPT ![p] = Clean]

FlushSlotError(p) == dirty[p] # Clean /\ WriteError(p) /\ UNCHANGED dirty

(* take_slot evicts a page for another one, or a client calls flush.       *)
Evict(p) ==
  /\ mode = "open" /\ at # "flush"
  /\ FlushSlot(p) \/ FlushSlotError(p)
  /\ UNCHANGED <<allocUnchanged, callVars, pledgeVars>>

-----------------------------------------------------------------------------
(* A checkpoint.  Pool first: flush_all, then sync of the allocator, whose *)
(* sync of the store covers both.  Allocator first: sync of the allocator, *)
(* then checkpoint of the pool, flush_all and sync of the store.           *)

(* What a client gets to see of its page; Clean if that is not its data.   *)
Held(p) ==
  IF p \notin owned THEN Clean
  ELSE IF dirty[p] # Clean THEN dirty[p]
  ELSE IF \E v \in Data : file[p] = Word(v) THEN file[p][2] ELSE Clean

Begin ==
  /\ mode = "open" /\ at = "none"
  /\ order' \in Orders
  /\ IF order' = "pool first" THEN at' = "flush" /\ todo' = Issued
                              ELSE at' = "persist" /\ UNCHANGED todo
  /\ begun' = [p \in Id |-> Held(p)]
  /\ UNCHANGED <<allocUnchanged, storeVars, dirty, kept>>

(* The checkpoint's next call, or its return: Ok if it was the last one.   *)
Proceed(next) ==
  /\ at' = next /\ todo' = IF next = "flush" THEN Issued ELSE {}
  /\ IF next = "none"
       THEN /\ kept' = [p \in Id |-> IF begun[p] # Clean THEN begun[p] ELSE kept[p]]
            /\ begun' = None /\ order' = "none"
       ELSE UNCHANGED <<begun, kept, order>>

(* It returns an error.                                                    *)
GiveUp ==
  at' = "none" /\ order' = "none" /\ todo' = {} /\ begun' = None /\ UNCHANGED kept

(* flush_all looks at the next frame; core keeps evictions out.            *)
FlushNext(p) ==
  /\ at = "flush" /\ p \in todo
  /\ \/ /\ FlushSlot(p) \/ (dirty[p] = Clean /\ UNCHANGED <<storeVars, dirty>>)
        /\ todo' = todo \ {p} /\ UNCHANGED <<order, at, pledgeVars>>
     \/ FlushSlotError(p) /\ GiveUp
  /\ UNCHANGED allocUnchanged

FlushEnd ==
  /\ at = "flush" /\ todo = {}
  /\ Proceed(IF order = "pool first" THEN "persist" ELSE "sync")
  /\ UNCHANGED <<allocUnchanged, storeVars, dirty>>

(* PageAllocator::sync, to its end.                                        *)
AllocatorSync(c) ==
  \/ at = "persist" /\ SyncStart(c) /\ at' = "persisting"
     /\ UNCHANGED <<dirty, todo, order, pledgeVars>>
  \/ (WriteLink(c) \/ WriteSuperblock(c)) /\ Keep
  \/ SyncStore(c) /\ UNCHANGED dirty
     /\ Proceed(IF order = "pool first" THEN "none" ELSE "flush")
  \/ (PersistError(c) \/ SyncError(c)) /\ UNCHANGED dirty /\ GiveUp

(* The pool's own sync of the store, after its flush_all.                  *)
PoolSync ==
  /\ at = "sync"
  /\ UNCHANGED <<allocUnchanged, file, dirty>>
  /\ \/ disk' = file /\ Proceed("none")
     \/ "sync" \in Faults /\ UNCHANGED disk /\ GiveUp

-----------------------------------------------------------------------------

(* The process ends: what the pool had not written is gone.                *)
Vanish ==
  /\ Crash \/ (Close /\ at = "none")
  /\ dirty' = None /\ todo' = {} /\ order' = "none" /\ at' = "none"
  /\ begun' = None /\ UNCHANGED kept

EngineInit ==
  /\ Init
  /\ dirty = None /\ todo = {} /\ order = "none" /\ at = "none"
  /\ begun = None /\ kept = None

EngineNext ==
  \/ (Open \/ Reuse \/ Extend \/ NoRoom) /\ Keep
  \/ \E p \in Slot : (FreeRefused(p) \/ WriteBack(p)) /\ Keep
  \/ \E p \in owned : FreePage(p) \/ \E v \in Data : WriteGuard(p, v)
  \/ \E p \in Id : Evict(p) \/ FlushNext(p)
  \/ Begin \/ FlushEnd \/ PoolSync \/ Vanish
  \/ \E c \in Client : AllocatorSync(c)

EngineSpec == EngineInit /\ [][EngineNext]_allVars

-----------------------------------------------------------------------------
(* Properties.                                                             *)

(* A page that was written before a checkpoint which returned Ok, and      *)
(* neither written nor freed since, is there in every process that gets    *)
(* the file open: its id is in use, so it is not handed out again          *)
(* (alloc.rs:17-21), and it holds what was written, neither lost in the    *)
(* pool nor overwritten by a link of the free list.                        *)
CheckpointedPagesSurvive ==
  mode = "open" =>
    \A p \in Id : kept[p] # Clean =>
      /\ p \in owned \ Elems(free_list)
      /\ dirty[p] \in {Clean, kept[p]}
      /\ dirty[p] = Clean => file[p] = Word(kept[p])

=============================================================================
