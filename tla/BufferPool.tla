----------------------------- MODULE BufferPool -----------------------------
(***************************************************************************)
(* The buffer pool of src/src/pool.rs: a fixed array of frames over a      *)
(* PageStore, one mutex (core) over the bookkeeping, one RwLock (the       *)
(* latch) per frame, and guards that pin a frame until they are dropped.   *)
(*                                                                         *)
(* Atomicity.  A thread that owns core is alone in changing map, free,     *)
(* hand, id, referenced and in raising a pin.  What other threads do       *)
(* meanwhile is lower a pin (Drop), set a dirty bit (write()), and take or *)
(* release latches; every point where the core owner could notice that is  *)
(* a step boundary here.                                                   *)
(*                                                                         *)
(* Data.  The bytes of a page are abstracted to the number of mutations    *)
(* they have seen.  Absent (0) is a page the store never held, Torn what a *)
(* write that failed half-way leaves behind: reading either fails.         *)
(***************************************************************************)
EXTENDS Integers, FiniteSets

CONSTANTS
  Thread,          \* the client threads sharing the pool
  Page,            \* the page ids they use
  NoThread,        \* core is unlocked
  NoPage,          \* the sentinel NO_PAGE
  capacity,        \* number of frames
  MaxGuards,       \* bound: guards one thread holds at a time
  MaxVersion,      \* bound: mutations of one page
  Ops,             \* the pool methods the clients call
  ExclusiveFlush,  \* clients keep flushes and calls of write() apart
  ShortBorrows     \* clients hold no borrow when they enter the pool

AllOps == {"fetch", "new_page", "flush", "flush_all", "checkpoint", "sync"}

ASSUME PoolAssumption ==
  /\ IsFiniteSet(Thread) /\ NoThread \notin Thread
  /\ NoPage \notin Page
  /\ capacity \in Nat \ {0}
  /\ MaxGuards \in Nat \ {0}
  /\ MaxVersion \in Nat
  /\ Ops \subseteq AllOps
  /\ ExclusiveFlush \in BOOLEAN
  /\ ShortBorrows \in BOOLEAN

Frame   == 0 .. capacity - 1
NoFrame == -1
Absent  == 0
Torn    == -1

(* A PageGuard the client may hold; the thread that holds it.              *)
Handle   == Thread \X (1 .. MaxGuards)
Owner(h) == h[1]
NoHandle == <<NoThread, 0>>

VARIABLES
  \* FrameInner
  content,     \* page: the bytes in the frame
  id, pin, dirty, referenced,
  \* Core, and the mutex around it
  core,        \* the thread that has it locked
  map, free, hand,
  \* locals of the thread that owns core
  slot, key, steps, todo,
  \* per thread: where it is, and the call it is executing
  pc, call,
  \* per guard: frame, page asked for, and the borrow taken through it
  held, asked, borrow,
  \* the PageStore: what a read returns, and what is on stable storage
  store, durable,
  \* history: what the present sweep found when it started, and what a
  \* checkpoint has to make durable
  pinned0, cold0, goal

frameVars   == <<content, id, pin, dirty, referenced>>
coreVars    == <<map, free, hand>>
regVars     == <<slot, key, steps, todo>>
guardVars   == <<held, asked, borrow>>
storeVars   == <<store, durable>>
historyVars == <<pinned0, cold0, goal>>
vars == <<frameVars, core, coreVars, regVars, pc, call, guardVars,
          storeVars, historyVars>>

NoCall == [op |-> "none", page |-> NoPage, dst |-> NoHandle]
NoGoal == [p \in Page |-> Absent]

-----------------------------------------------------------------------------
(* Readings of the state.                                                  *)

Resident(p) == map[p] # NoFrame
Holders(f)  == {h \in Handle : held[h] = f}

(* What a reader of page p gets through the pool: the cached bytes if the  *)
(* page is resident, else what the store returns.                          *)
view == [p \in Page |-> IF Resident(p) THEN content[map[p]] ELSE store[p]]

(* The latch of frame f is free of borrows; and of the flusher too.        *)
Unborrowed(f) == \A h \in Holders(f) : borrow[h] \notin {"read", "write"}
Flushing(f)   == \E t \in Thread : core = t /\ pc[t] = "clear" /\ slot = f
CanWriteLatch(f) == Unborrowed(f) /\ ~ Flushing(f)
CanReadLatch(f)  ==
  (\A h \in Holders(f) : borrow[h] # "write") /\ ~ Flushing(f)

(* t runs client code: it is in no pool method and waits for no latch.     *)
InClient(t) ==
  /\ pc[t] = "client"
  /\ \A h \in Handle :
       Owner(h) = t => borrow[h] \notin {"want_read", "want_write"}

Borrows(t) == {h \in Handle : Owner(h) = t /\ borrow[h] \in {"read", "write"}}

FlushOps == {"flush", "flush_all", "checkpoint"}

(***************************************************************************)
(* BufferPool::new: every frame blank, unpinned and free.  The store may   *)
(* already hold any of the pages.                                          *)
(***************************************************************************)
Init ==
  /\ content = [f \in Frame |-> Absent]
  /\ id = [f \in Frame |-> NoPage]
  /\ pin = [f \in Frame |-> 0]
  /\ dirty = [f \in Frame |-> FALSE]
  /\ referenced = [f \in Frame |-> FALSE]
  /\ core = NoThread
  /\ map = [p \in Page |-> NoFrame]
  /\ free = Frame
  /\ hand = 0
  /\ slot = NoFrame /\ key = NoPage /\ steps = 0 /\ todo = {}
  /\ pc = [t \in Thread |-> "client"]
  /\ call = [t \in Thread |-> NoCall]
  /\ held = [h \in Handle |-> NoFrame]
  /\ asked = [h \in Handle |-> NoPage]
  /\ borrow = [h \in Handle |-> "none"]
  /\ store \in [Page -> {Absent, Absent + 1}]
  /\ durable = store
  /\ pinned0 = {} /\ cold0 = {}
  /\ goal = [t \in Thread |-> NoGoal]

-----------------------------------------------------------------------------
(* Control of a call.                                                      *)

Goto(t, label) == pc' = [pc EXCEPT ![t] = label]

(* The method returns to the client.                                       *)
Finish(t) ==
  /\ Goto(t, "client")
  /\ call' = [call EXCEPT ![t] = NoCall]
  /\ goal' = [goal EXCEPT ![t] = NoGoal]

(* The MutexGuard is dropped, and the locals of the critical section go.   *)
Unlock ==
  /\ core' = NoThread
  /\ slot' = NoFrame /\ key' = NoPage /\ steps' = 0 /\ todo' = {}
  /\ pinned0' = {} /\ cold0' = {}

(* The method returns Ok(PageGuard) on frame f for page p.                 *)
ReturnGuard(t, f, p) ==
  /\ held'  = [held  EXCEPT ![call[t].dst] = f]
  /\ asked' = [asked EXCEPT ![call[t].dst] = p]
  /\ UNCHANGED borrow
  /\ Unlock /\ Finish(t)

(* The documented rule: no flush while holding a write guard to the page.  *)
FlushAllowed(t, o, p) ==
  \A h \in Borrows(t) :
     ~ (borrow[h] = "write" /\ (o = "flush" => asked[h] = p))

(* A client thread enters a pool method; all but sync first lock core.     *)
Call(t, o, p, h) ==
  /\ InClient(t)
  /\ ShortBorrows => Borrows(t) = {}
  /\ o \in FlushOps =>
       /\ FlushAllowed(t, o, p)
       /\ ExclusiveFlush => \A g \in Handle : borrow[g] # "want_write"
  /\ o \in {"fetch", "new_page", "flush"} <=> p # NoPage
  /\ o = "new_page" => view[p] < MaxVersion
  /\ IF o \in {"fetch", "new_page"}
       THEN Owner(h) = t /\ held[h] = NoFrame
       ELSE h = NoHandle
  /\ call' = [call EXCEPT ![t] = [op |-> o, page |-> p, dst |-> h]]
  /\ Goto(t, IF o = "sync" THEN "sync" ELSE "lock")
  /\ goal' = IF o = "checkpoint" THEN [goal EXCEPT ![t] = view] ELSE goal
  /\ UNCHANGED <<frameVars, core, coreVars, regVars, guardVars, storeVars,
                 pinned0, cold0>>

(* t, about to lock core, finds it unlocked.                               *)
AtLock(t, ops) == pc[t] = "lock" /\ core = NoThread /\ call[t].op \in ops

-----------------------------------------------------------------------------
(* fetch and new_page.                                                     *)

(* A frame gets one pin more; mutant: a plain store of 1.                  *)
PinStored(f) == pin' = [pin EXCEPT ![f] = 1]
Pin(f) == pin' = [pin EXCEPT ![f] = @ + 1]

(* fetch, page resident: pin it and set its reference bit.                 *)
FetchHit(t) ==
  LET p == call[t].page
      f == map[p]
  IN  /\ AtLock(t, {"fetch"})
      /\ Resident(p)
      /\ Pin(f)
      /\ referenced' = [referenced EXCEPT ![f] = TRUE]
      /\ ReturnGuard(t, f, p)
      /\ UNCHANGED <<content, id, dirty, coreVars, storeVars>>

(* new_page, page resident: with core locked, go and wait for its latch.   *)
NewPageHit(t) ==
  /\ AtLock(t, {"new_page"})
  /\ Resident(call[t].page)
  /\ core' = t
  /\ slot' = map[call[t].page]
  /\ Goto(t, "reset")
  /\ UNCHANGED <<frameVars, coreVars, key, steps, todo, call, guardVars,
                 storeVars, historyVars>>

(* reset() under the latch, then pin, dirty bit and reference bit.         *)
ResetResident(t) ==
  /\ core = t /\ pc[t] = "reset"
  /\ CanWriteLatch(slot)
  /\ content' = [content EXCEPT ![slot] = @ + 1]
  /\ Pin(slot)
  /\ dirty' = [dirty EXCEPT ![slot] = TRUE]
  /\ referenced' = [referenced EXCEPT ![slot] = TRUE]
  /\ ReturnGuard(t, slot, call[t].page)
  /\ UNCHANGED <<id, coreVars, storeVars>>

(* take_slot, first half: a frame off the free list.  Any of them: the     *)
(* order of the Vec only says which of several unused frames is next.      *)
TakeFree(t) ==
  /\ AtLock(t, {"fetch", "new_page"})
  /\ ~ Resident(call[t].page)
  /\ core' = t
  /\ \E f \in free :
       /\ free' = free \ {f}
       /\ slot' = f
  /\ Goto(t, "fill")
  /\ UNCHANGED <<frameVars, map, hand, key, steps, todo, call, guardVars,
                 storeVars, historyVars>>

(* take_slot with no free frame: find_victim starts its sweep.             *)
StartSweep(t) ==
  /\ AtLock(t, {"fetch", "new_page"})
  /\ ~ Resident(call[t].page)
  /\ free = {}
  /\ core' = t
  /\ pinned0' = {f \in Frame : pin[f] > 0}
  /\ cold0' = {f \in Frame : pin[f] = 0 /\ ~ referenced[f]}
  /\ Goto(t, "sweep")
  /\ UNCHANGED <<frameVars, coreVars, regVars, call, guardVars, storeVars,
                 goal>>

(* Two full passes of the clock hand; mutant: one.                         *)
OnePass    == capacity
SweepLimit == 2 * capacity

(* The hand goes round; mutant: it runs off the end of the frames.         *)
HandRunsOff == hand + 1
NextHand    == (hand + 1) % capacity

(* What protects a frame from the hand; mutants: an off-by-one in the test *)
(* of the pin count, and the reference bit of the frame the hand has       *)
(* already moved on to.                                                    *)
PinnedTwice(f)  == pin[f] > 1
Pinned(f)       == pin[f] > 0
ChanceAhead(f)  == referenced[NextHand]
SecondChance(f) == referenced[f]

(* One turn of the loop in find_victim: a pinned frame is passed over, a   *)
(* referenced one loses its reference bit, any other one is the victim.    *)
Sweep(t) ==
  /\ core = t /\ pc[t] = "sweep"
  /\ steps < SweepLimit
  /\ steps' = steps + 1
  /\ hand' = NextHand
  /\ \/ /\ Pinned(hand)
        /\ UNCHANGED <<referenced, slot, key, pc>>
     \/ /\ ~ Pinned(hand) /\ SecondChance(hand)
        /\ referenced' = [referenced EXCEPT ![hand] = FALSE]
        /\ UNCHANGED <<slot, key, pc>>
     \/ /\ ~ Pinned(hand) /\ ~ SecondChance(hand)
        /\ slot' = hand
        /\ key' = id[hand]
        /\ Goto(t, "flush_slot")
        /\ UNCHANGED referenced
  /\ UNCHANGED <<content, id, pin, dirty, core, map, free, todo, call,
                 guardVars, storeVars, historyVars>>

(* Mutants: sweep again, or call fetch again, with core still locked.      *)
ExhaustedSpins(t) ==
  /\ core = t /\ pc[t] = "sweep" /\ steps = SweepLimit
  /\ steps' = 0
  /\ UNCHANGED <<frameVars, core, coreVars, slot, key, todo, pc, call,
                 guardVars, storeVars, historyVars>>

ExhaustedReenters(t) ==
  /\ core = t /\ pc[t] = "sweep" /\ steps = SweepLimit
  /\ Goto(t, "lock")
  /\ UNCHANGED <<frameVars, core, coreVars, regVars, call, guardVars,
                 storeVars, historyVars>>

(* No victim in two passes: Err(BufferPoolExhausted).                      *)
Exhausted(t) ==
  /\ core = t /\ pc[t] = "sweep"
  /\ steps = SweepLimit
  /\ Unlock /\ Finish(t)
  /\ UNCHANGED <<frameVars, coreVars, guardVars, storeVars>>

(* install: the frame now holds the page, pinned once, and is in the map.  *)
Install(t, isDirty) ==
  LET p == call[t].page
  IN  /\ id' = [id EXCEPT ![slot] = p]
      /\ dirty' = [dirty EXCEPT ![slot] = isDirty]
      /\ referenced' = [referenced EXCEPT ![slot] = TRUE]
      /\ pin' = [pin EXCEPT ![slot] = 1]
      /\ map' = [map EXCEPT ![p] = slot]
      /\ ReturnGuard(t, slot, p)
      /\ UNCHANGED <<free, hand>>

(* fetch: read_into the frame, under its latch.                            *)
FetchLoad(t) ==
  /\ core = t /\ pc[t] = "fill" /\ call[t].op = "fetch"
  /\ CanWriteLatch(slot)
  /\ store[call[t].page] \notin {Absent, Torn}
  /\ content' = [content EXCEPT ![slot] = store[call[t].page]]
  /\ Install(t, FALSE)
  /\ UNCHANGED storeVars

(* Mutant: a failed read does not give its frame back.                     *)
FetchFailLeaks(t) ==
  /\ core = t /\ pc[t] = "fill" /\ call[t].op = "fetch"
  /\ CanWriteLatch(slot)
  /\ content' = [content EXCEPT ![slot] = Torn]
  /\ Unlock /\ Finish(t)
  /\ UNCHANGED <<id, pin, dirty, referenced, coreVars, guardVars, storeVars>>

(* read_into fails (no such page, a bad checksum, or an I/O error): the    *)
(* buffer holds whatever was read, the frame goes back to the free list.   *)
FetchFail(t) ==
  /\ core = t /\ pc[t] = "fill" /\ call[t].op = "fetch"
  /\ CanWriteLatch(slot)
  /\ content' = [content EXCEPT ![slot] = Torn]
  /\ free' = free \cup {slot}
  /\ Unlock /\ Finish(t)
  /\ UNCHANGED <<id, pin, dirty, referenced, map, hand, guardVars, storeVars>>

(* Mutant: the blank page is installed clean.                              *)
NewPageFillClean(t) ==
  /\ core = t /\ pc[t] = "fill" /\ call[t].op = "new_page"
  /\ CanWriteLatch(slot)
  /\ content' = [content EXCEPT ![slot] = store[call[t].page] + 1]
  /\ Install(t, FALSE)
  /\ UNCHANGED storeVars

(* new_page: a blank page, which is the page's next version.               *)
NewPageFill(t) ==
  /\ core = t /\ pc[t] = "fill" /\ call[t].op = "new_page"
  /\ CanWriteLatch(slot)
  /\ content' = [content EXCEPT ![slot] = store[call[t].page] + 1]
  /\ Install(t, TRUE)
  /\ UNCHANGED storeVars

-----------------------------------------------------------------------------
(* Flushing: flush, flush_all, checkpoint, and the eviction of a victim.   *)

(* flush looks its page up, flush_all iterates over the map.               *)
FlushStart(t) ==
  /\ AtLock(t, FlushOps)
  /\ core' = t
  /\ todo' = {p \in Page : Resident(p) /\ (call[t].op = "flush" =>
                                              p = call[t].page)}
  /\ Goto(t, "flush_loop")
  /\ UNCHANGED <<frameVars, coreVars, slot, key, steps, call, guardVars,
                 storeVars, historyVars>>

(* The next entry of the map, in the HashMap's arbitrary order.            *)
FlushNext(t) ==
  /\ core = t /\ pc[t] = "flush_loop"
  /\ \E p \in todo :
       /\ todo' = todo \ {p}
       /\ key' = p
       /\ slot' = map[p]
  /\ Goto(t, "flush_slot")
  /\ UNCHANGED <<frameVars, core, coreVars, steps, call, guardVars,
                 storeVars, historyVars>>

(* The loop is over; checkpoint goes on to sync, with core unlocked.       *)
FlushEnd(t) ==
  /\ core = t /\ pc[t] = "flush_loop"
  /\ todo = {}
  /\ Unlock
  /\ IF call[t].op = "checkpoint"
       THEN Goto(t, "sync") /\ UNCHANGED <<call, goal>>
       ELSE Finish(t)
  /\ UNCHANGED <<frameVars, coreVars, guardVars, storeVars>>

(* Where flush_slot returns Ok to: the loop of flush_all, or take_slot,    *)
(* which then removes the victim from the map.                             *)
AfterFlush(t) ==
  /\ key' = NoPage
  /\ IF call[t].op \in FlushOps
       THEN Goto(t, "flush_loop") /\ slot' = NoFrame /\ UNCHANGED map
       ELSE Goto(t, "fill") /\ map' = [map EXCEPT ![key] = NoFrame]
            /\ UNCHANGED slot

(* Mutants: a dirty frame counts as flushed; the dirty bit is cleared      *)
(* before the page is written.                                             *)
FlushAnyAsClean(t) ==
  /\ core = t /\ pc[t] = "flush_slot"
  /\ AfterFlush(t)
  /\ UNCHANGED <<frameVars, core, free, hand, steps, todo, call, guardVars,
                 storeVars, historyVars>>

FlushDirtyClearsFirst(t) ==
  /\ core = t /\ pc[t] = "flush_slot" /\ dirty[slot]
  /\ dirty' = [dirty EXCEPT ![slot] = FALSE]
  /\ Goto(t, "latch")
  /\ UNCHANGED <<content, id, pin, referenced, core, coreVars, regVars, call,
                 guardVars, storeVars, historyVars>>

(* flush_slot loads the dirty bit before it has the latch.                 *)
FlushClean(t) ==
  /\ core = t /\ pc[t] = "flush_slot"
  /\ ~ dirty[slot]
  /\ AfterFlush(t)
  /\ UNCHANGED <<frameVars, core, free, hand, steps, todo, call, guardVars,
                 storeVars, historyVars>>

FlushDirty(t) ==
  /\ core = t /\ pc[t] = "flush_slot"
  /\ dirty[slot]
  /\ Goto(t, "latch")
  /\ UNCHANGED <<frameVars, core, coreVars, regVars, call, guardVars,
                 storeVars, historyVars>>

(* With the latch, write_page places the bytes; the latch stays taken.     *)
WritePage(t) ==
  /\ core = t /\ pc[t] = "latch"
  /\ CanWriteLatch(slot)
  /\ store' = [store EXCEPT ![key] = content[slot]]
  /\ Goto(t, "clear")
  /\ UNCHANGED <<frameVars, core, coreVars, regVars, call, guardVars,
                 durable, historyVars>>

(* Mutant: the error of write_page is dropped.                             *)
WriteFailIgnored(t) ==
  /\ core = t /\ pc[t] = "latch"
  /\ CanWriteLatch(slot)
  /\ \E left \in {store[key], Torn} : store' = [store EXCEPT ![key] = left]
  /\ AfterFlush(t)
  /\ UNCHANGED <<frameVars, core, free, hand, steps, todo, call, guardVars,
                 durable, historyVars>>

(* write_page fails before or in the middle of the page; the error ends    *)
(* the method, the frame stays resident and dirty.                         *)
WriteFail(t) ==
  /\ core = t /\ pc[t] = "latch"
  /\ CanWriteLatch(slot)
  /\ \E left \in {store[key], Torn} : store' = [store EXCEPT ![key] = left]
  /\ Unlock /\ Finish(t)
  /\ UNCHANGED <<frameVars, coreVars, guardVars, durable>>

(* After the write the dirty bit is cleared and the latch released.        *)
ClearDirty(t) ==
  /\ core = t /\ pc[t] = "clear"
  /\ dirty' = [dirty EXCEPT ![slot] = FALSE]
  /\ AfterFlush(t)
  /\ UNCHANGED <<content, id, pin, referenced, core, free, hand, steps, todo,
                 call, guardVars, storeVars, historyVars>>

(* store.sync(), without core: alone or as the end of checkpoint.          *)
SyncOk(t) ==
  /\ pc[t] = "sync"
  /\ durable' = store
  /\ Finish(t)
  /\ UNCHANGED <<frameVars, core, coreVars, regVars, guardVars, store,
                 pinned0, cold0>>

(* A failed sync may have made some of the pages durable.                  *)
SyncFail(t) ==
  /\ pc[t] = "sync"
  /\ \E done \in SUBSET Page :
       durable' = [p \in Page |-> IF p \in done THEN store[p] ELSE durable[p]]
  /\ Finish(t)
  /\ UNCHANGED <<frameVars, core, coreVars, regVars, guardVars, store,
                 pinned0, cold0>>

-----------------------------------------------------------------------------
(* Guards: read, write and drop run without core.                          *)

guardUnchanged == <<content, id, pin, referenced, core, coreVars, regVars, pc,
                    call, held, asked, storeVars, historyVars>>

MayBorrow(h) ==
  /\ InClient(Owner(h))
  /\ held[h] # NoFrame /\ borrow[h] = "none"
  /\ ShortBorrows => Borrows(Owner(h)) = {}

SetBorrow(h, b) == borrow' = [borrow EXCEPT ![h] = b]

(* PageGuard::read: wait for the latch, then hold it shared.               *)
CallRead(h) ==
  /\ MayBorrow(h)
  /\ SetBorrow(h, "want_read")
  /\ UNCHANGED <<dirty, guardUnchanged>>

TakeRead(h) ==
  /\ borrow[h] = "want_read" /\ CanReadLatch(held[h])
  /\ SetBorrow(h, "read")
  /\ UNCHANGED <<dirty, guardUnchanged>>

(* PageGuard::write: set the dirty bit, only then wait for the latch.      *)
CallWrite(h) ==
  /\ MayBorrow(h)
  /\ ExclusiveFlush => \A t \in Thread : call[t].op \notin FlushOps
  /\ dirty' = [dirty EXCEPT ![held[h]] = TRUE]
  /\ SetBorrow(h, "want_write")
  /\ UNCHANGED guardUnchanged

TakeWrite(h) ==
  /\ borrow[h] = "want_write" /\ CanWriteLatch(held[h])
  /\ SetBorrow(h, "write")
  /\ UNCHANGED <<dirty, guardUnchanged>>

(* The client changes the page through its PageMut.                        *)
Mutate(h) ==
  /\ InClient(Owner(h)) /\ borrow[h] = "write"
  /\ content[held[h]] < MaxVersion
  /\ content' = [content EXCEPT ![held[h]] = @ + 1]
  /\ UNCHANGED <<id, pin, dirty, referenced, core, coreVars, regVars, pc, call,
                 guardVars, storeVars, historyVars>>

(* The PageRef or PageMut is dropped.                                      *)
EndBorrow(h) ==
  /\ InClient(Owner(h)) /\ borrow[h] \in {"read", "write"}
  /\ SetBorrow(h, "none")
  /\ UNCHANGED <<dirty, guardUnchanged>>

(* The PageGuard is dropped, which its borrows do not outlive.             *)
Drop(h) ==
  /\ InClient(Owner(h))
  /\ held[h] # NoFrame /\ borrow[h] = "none"
  /\ pin' = [pin EXCEPT ![held[h]] = @ - 1]
  /\ held' = [held EXCEPT ![h] = NoFrame]
  /\ asked' = [asked EXCEPT ![h] = NoPage]
  /\ UNCHANGED <<content, id, dirty, referenced, core, coreVars, regVars, pc,
                 call, borrow, storeVars, historyVars>>

-----------------------------------------------------------------------------

(* The steps of a thread inside a pool method.                             *)
PoolStep(t) ==
  \/ FetchHit(t) \/ NewPageHit(t) \/ ResetResident(t)
  \/ TakeFree(t) \/ StartSweep(t) \/ Sweep(t) \/ Exhausted(t)
  \/ FetchLoad(t) \/ FetchFail(t) \/ NewPageFill(t)
  \/ FlushStart(t) \/ FlushNext(t) \/ FlushEnd(t)
  \/ FlushClean(t) \/ FlushDirty(t) \/ WritePage(t) \/ WriteFail(t)
  \/ ClearDirty(t) \/ SyncOk(t) \/ SyncFail(t)

LatchStep(h) == TakeRead(h) \/ TakeWrite(h)

ClientStep(h) ==
  CallRead(h) \/ CallWrite(h) \/ Mutate(h) \/ EndBorrow(h) \/ Drop(h)

Next ==
  \/ \E t \in Thread :
       \/ PoolStep(t)
       \/ \E o \in Ops, p \in Page \cup {NoPage}, h \in Handle \cup {NoHandle} :
            Call(t, o, p, h)
  \/ \E h \in Handle : LatchStep(h) \/ ClientStep(h)

Spec == Init /\ [][Next]_vars

-----------------------------------------------------------------------------
(* Properties.                                                             *)

Labels == {"client", "lock", "reset", "fill", "sweep", "flush_loop",
           "flush_slot", "latch", "clear", "sync"}

Version == Nat \cup {Torn}

FrameTypes ==
  /\ content \in [Frame -> Version]
  /\ id \in [Frame -> Page \cup {NoPage}]
  /\ pin \in [Frame -> Nat]
  /\ dirty \in [Frame -> BOOLEAN]
  /\ referenced \in [Frame -> BOOLEAN]

CoreTypes ==
  /\ core \in Thread \cup {NoThread}
  /\ map \in [Page -> Frame \cup {NoFrame}]
  /\ free \in SUBSET Frame
  /\ hand \in Frame

SectionTypes ==
  /\ slot \in Frame \cup {NoFrame}
  /\ key \in Page \cup {NoPage}
  /\ steps \in 0 .. SweepLimit
  /\ todo \in SUBSET Page

CallTypes ==
  /\ pc \in [Thread -> Labels]
  /\ call \in [Thread -> [op : AllOps \cup {"none"}, page : Page \cup {NoPage},
                          dst : Handle \cup {NoHandle}]]

GuardTypes ==
  /\ held \in [Handle -> Frame \cup {NoFrame}]
  /\ asked \in [Handle -> Page \cup {NoPage}]
  /\ borrow \in [Handle -> {"none", "want_read", "read", "want_write", "write"}]

StoreTypes ==
  /\ store \in [Page -> Version]
  /\ durable \in [Page -> Version]

HistoryTypes ==
  /\ pinned0 \in SUBSET Frame
  /\ cold0 \in SUBSET Frame
  /\ goal \in [Thread -> [Page -> Version]]

(* The type of every variable; in particular the hand stays on the frames, *)
(* a sweep never exceeds two passes, and no pin count goes below zero.     *)
TypeOK ==
  /\ FrameTypes /\ CoreTypes /\ SectionTypes /\ CallTypes
  /\ GuardTypes /\ StoreTypes /\ HistoryTypes

(* A frame's pin count is the number of live guards on it: install's store *)
(* of 1 forgets no pin, and no guard is dropped without one (pool.rs:43).  *)
PinsCountGuards == \A f \in Frame : pin[f] = Cardinality(Holders(f))

(* A guard shows the page its caller asked for as long as it lives, and    *)
(* that page stays resident where the guard found it: a pinned page is     *)
(* never evicted, nor its frame reused (pool.rs:4-5, 371).                 *)
GuardShowsItsPage ==
  \A h \in Handle :
     held[h] # NoFrame => /\ asked[h] \in Page
                          /\ id[held[h]] = asked[h]
                          /\ map[asked[h]] = held[h]

(* No frame leaks and none is used twice, on any path out of fetch or      *)
(* new_page: a frame is on the free list, or is the frame of exactly the   *)
(* page whose id it carries, or is in the hands of the one call that is    *)
(* filling it (pool.rs:4-5, 205-209).                                      *)
Filling(f) == \E t \in Thread : core = t /\ pc[t] = "fill" /\ slot = f

FramesAccountedFor ==
  /\ \A f \in Frame :
       \/ f \in free /\ ~ Filling(f)
       \/ f \notin free /\ Filling(f)
       \/ f \notin free /\ ~ Filling(f) /\ id[f] \in Page /\ map[id[f]] = f
  /\ \A p \in Page : Resident(p) =>
       map[p] \notin free /\ ~ Filling(map[p]) /\ id[map[p]] = p

(* If a write to the store failed half-way, the only whole copy of the     *)
(* page is in the cache, resident and still dirty, so the flush can be     *)
(* retried (pool.rs:263-264).                                              *)
TornPageStaysDirty ==
  \A p \in Page : store[p] = Torn => Resident(p) /\ dirty[map[p]]

(* Whatever the store does not have yet is marked dirty: between the       *)
(* mutation of a page and the flush of it there is no moment at which the  *)
(* frame counts as clean, so it is written before its frame is reused      *)
(* (pool.rs:6-8, 406-407).                                                 *)
ChangesAreDirty ==
  \A p \in Page :
     Resident(p) /\ content[map[p]] # store[p] => dirty[map[p]]

(* BufferPoolExhausted is returned only if every frame was pinned at one   *)
(* moment of the call, although guards are dropped while the hand sweeps   *)
(* (pool.rs:187, 349).                                                     *)
ExhaustedMeansAllPinned ==
  \A t \in Thread :
     core = t /\ pc[t] = "sweep" /\ steps = SweepLimit => pinned0 = Frame

(* Second chance: the victim was unpinned and unreferenced when the sweep  *)
(* began, if any frame was (pool.rs:11-14).                                *)
VictimWasCold ==
  \A t \in Thread :
     /\ core = t /\ call[t].op \in {"fetch", "new_page"}
     /\ pc[t] \in {"flush_slot", "latch", "clear"}
     => slot \in cold0 \/ cold0 = {}

(* When checkpoint returns Ok, stable storage has every page at least as   *)
(* new as the pool showed it when checkpoint was called, except where a    *)
(* later write of another thread failed half-way (pool.rs:273-276).        *)
CheckpointDurable ==
  [][\A t \in Thread :
        SyncOk(t) /\ call[t].op = "checkpoint" =>
          \A p \in Page : durable'[p] >= goal[t][p] \/ durable'[p] = Torn]_vars

(* t cannot go on before u does something: u owns the mutex t is waiting   *)
(* for, or holds the latch of the frame t is waiting for.                  *)
LatchHolders(f, modes) ==
  {u \in Thread : \/ \E h \in Holders(f) : Owner(h) = u /\ borrow[h] \in modes
                  \/ core = u /\ pc[u] = "clear" /\ slot = f}

WaitsFor(t) ==
  (IF pc[t] = "lock" THEN {u \in Thread : core = u} ELSE {})
  \cup
  (IF core = t /\ pc[t] \in {"latch", "reset", "fill"}
     THEN LatchHolders(slot, {"read", "write"}) ELSE {})
  \cup
  UNION {LatchHolders(held[h], {"write"}) :
           h \in {g \in Handle : Owner(g) = t /\ borrow[g] = "want_read"}}
  \cup
  UNION {LatchHolders(held[h], {"read", "write"}) :
           h \in {g \in Handle : Owner(g) = t /\ borrow[g] = "want_write"}}

(* The thread that has core locked is never part of a set of threads that  *)
(* all wait for one another; then nobody could enter the pool again.       *)
CoreNotDeadlocked ==
  \A D \in SUBSET Thread :
     core \in D => \E t \in D : WaitsFor(t) \cap D = {}

(* Seen through its guards the pool is the plain array of pages: eviction, *)
(* flushing, failed I/O and reloading never change a page, and a page only *)
(* changes through a guard open on it (pool.rs:6-9).                       *)
Array == INSTANCE PageArray WITH Guard <- Handle, guard <- asked
CacheIsTransparent == Array!Spec

(***************************************************************************)
(* Fairness.  A thread inside a method or waiting for a latch is scheduled *)
(* again (weak fairness); clients let go of a borrow; a writer waiting for *)
(* a latch is not passed over for ever by other borrowers (strong          *)
(* fairness: the standard RwLock holds new readers back behind a waiting   *)
(* writer).  The mutex is not assumed to be fair.                          *)
(***************************************************************************)
Fairness ==
  /\ \A t \in Thread :
       /\ WF_vars(core = t /\ PoolStep(t))
       /\ SF_vars(WritePage(t) \/ WriteFail(t))
       /\ SF_vars(ResetResident(t))
  /\ \A h \in Handle : WF_vars(EndBorrow(h))

FairSpec == Spec /\ Fairness

(* Whoever locks core unlocks it again: no sweep, flush or reset holds the *)
(* whole pool up for ever.                                                 *)
CoreIsReleased == \A t \in Thread : core = t ~> core # t

=============================================================================
