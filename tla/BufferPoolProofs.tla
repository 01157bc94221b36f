-------------------------- MODULE BufferPoolProofs ---------------------------
(***************************************************************************)
(* Proofs about BufferPool, for any number of threads, frames, pages and   *)
(* guards, and whether or not the clients obey ExclusiveFlush and          *)
(* ShortBorrows.  PoolInv (BufferPoolInv) is inductive; the type           *)
(* invariant, the accounting of frames and pins and the stability of       *)
(* guards are parts of it.  What the pool does to the bytes of pages, and  *)
(* the clock sweep, follow in sections of their own.                       *)
(***************************************************************************)
EXTENDS BufferPoolInv, FiniteSetTheorems, TLAPS

-----------------------------------------------------------------------------
(* Facts about the constants.                                              *)

(* Every guard belongs to a client thread.                                 *)
LEMMA HandleOwner == \A h \in Handle : Owner(h) \in Thread
BY DEF Handle, Owner

(* The placeholder for "no guard" is no thread's guard.                    *)
LEMMA NoHandleOwner == Owner(NoHandle) \notin Thread
BY PoolAssumption DEF Owner, NoHandle

(* There are finitely many guards, so holders can be counted.              *)
LEMMA FiniteHolders == \A f : IsFiniteSet(Holders(f))
<1>1. IsFiniteSet(1 .. MaxGuards)
  BY PoolAssumption, FS_Interval
<1>2. IsFiniteSet(Handle)
  BY PoolAssumption, <1>1, FS_Product, Zenon DEF Handle
<1> QED
  BY <1>2, FS_Subset DEF Holders

(* The value for "no frame" is not a frame.                                *)
LEMMA NoFrameIsNone == NoFrame \notin Frame
BY PoolAssumption DEF NoFrame, Frame

(* The clock hand stays on the frames.                                     *)
LEMMA HandGoesRound == \A i \in Frame : (i + 1) % capacity \in Frame
BY PoolAssumption DEF Frame

(* The hand starts on a frame.                                             *)
LEMMA FirstFrame == 0 \in Frame
BY PoolAssumption DEF Frame

(* A mutation of a page is again a version of it.                          *)
LEMMA VersionFacts ==
  /\ Absent \in Version /\ Absent + 1 \in Version /\ Torn \in Version
  /\ \A v \in Version : v + 1 \in Version
BY DEF Version, Absent, Torn

-----------------------------------------------------------------------------
(* Counting pins.                                                          *)

(* A frame with a guard on it is pinned.                                   *)
LEMMA PinnedIfHeld ==
  PoolInv => \A h \in Handle :
               held[h] # NoFrame => held[h] \in Frame /\ pin[held[h]] > 0
<1> SUFFICES ASSUME PoolInv, NEW h \in Handle, held[h] # NoFrame
             PROVE  held[h] \in Frame /\ pin[held[h]] > 0
  OBVIOUS
<1>1. held[h] \in Frame
  BY DEF PoolInv, TypeOK, GuardTypes
<1>2. Holders(held[h]) # {}
  BY DEF Holders
<1>3. Cardinality(Holders(held[h])) # 0
  BY <1>2, FiniteHolders, FS_EmptySet
<1> QED
  BY <1>1, <1>3 DEF PoolInv, PinsCountGuards, TypeOK, FrameTypes

(* A method that returns a guard pins its frame once more: the count stays *)
(* right.                                                                  *)
LEMMA PinOnReturn ==
  ASSUME PoolInv, NEW d \in Handle, NEW f \in Frame,
         held[d] = NoFrame,
         held' = [held EXCEPT ![d] = f],
         pin'  = [pin  EXCEPT ![f] = pin[f] + 1]
  PROVE  PinsCountGuards'
<1> SUFFICES ASSUME NEW g \in Frame
             PROVE  pin'[g] = Cardinality(Holders(g)')
  BY DEF PinsCountGuards
<1>1. pin[g] = Cardinality(Holders(g)) /\ g # NoFrame
  BY NoFrameIsNone DEF PoolInv, PinsCountGuards
<1>2. held \in [Handle -> Frame \cup {NoFrame}] /\ pin \in [Frame -> Nat]
  BY DEF PoolInv, TypeOK, FrameTypes, GuardTypes
<1>3. CASE g = f
  <2>1. Holders(g)' = Holders(g) \cup {d} /\ d \notin Holders(g)
    BY <1>1, <1>2, <1>3 DEF Holders
  <2>2. Cardinality(Holders(g)') = Cardinality(Holders(g)) + 1
    BY <2>1, FiniteHolders, FS_AddElement
  <2>3. pin'[g] = pin[g] + 1
    BY <1>2, <1>3
  <2> QED
    BY <1>1, <2>2, <2>3
<1>4. CASE g # f
  <2>1. Holders(g)' = Holders(g)
    BY <1>1, <1>2, <1>4 DEF Holders
  <2> QED
    BY <1>1, <1>2, <1>4, <2>1
<1> QED
  BY <1>3, <1>4

(* Dropping a guard takes exactly one pin away.                            *)
LEMMA PinOnDrop ==
  ASSUME PoolInv, NEW d \in Handle, held[d] # NoFrame,
         held' = [held EXCEPT ![d] = NoFrame],
         pin'  = [pin  EXCEPT ![held[d]] = pin[held[d]] - 1]
  PROVE  PinsCountGuards'
<1> SUFFICES ASSUME NEW g \in Frame
             PROVE  pin'[g] = Cardinality(Holders(g)')
  BY DEF PinsCountGuards
<1>1. pin[g] = Cardinality(Holders(g)) /\ g # NoFrame
  BY NoFrameIsNone DEF PoolInv, PinsCountGuards
<1>2. held \in [Handle -> Frame \cup {NoFrame}] /\ pin \in [Frame -> Nat]
  BY DEF PoolInv, TypeOK, FrameTypes, GuardTypes
<1>3. CASE g = held[d]
  <2>1. Holders(g)' = Holders(g) \ {d} /\ d \in Holders(g)
    BY <1>1, <1>2, <1>3 DEF Holders
  <2> QED
    BY <1>1, <1>2, <1>3, <2>1, FiniteHolders, FS_RemoveElement
<1>4. CASE g # held[d]
  <2>1. Holders(g)' = Holders(g)
    BY <1>1, <1>2, <1>4 DEF Holders
  <2> QED
    BY <1>1, <1>2, <1>4, <2>1
<1> QED
  BY <1>3, <1>4

(* Steps that neither open nor drop a guard keep the count.                *)
LEMMA PinsKept ==
  ASSUME PinsCountGuards, UNCHANGED <<held, pin>>
  PROVE  PinsCountGuards'
BY DEF PinsCountGuards, Holders

-----------------------------------------------------------------------------
(* The steps of guards.                                                    *)

(* read(), write(), a mutation and the end of a borrow change borrow bits, *)
(* the dirty bit and the bytes of a frame, and nothing PoolInv relates.    *)
LEMMA BorrowSteps ==
  ASSUME PoolInv, NEW h \in Handle,
         \/ CallRead(h) \/ TakeRead(h) \/ CallWrite(h) \/ TakeWrite(h)
         \/ Mutate(h) \/ EndBorrow(h)
  PROVE  PoolInv'
<1> USE DEF CallRead, TakeRead, CallWrite, TakeWrite, Mutate, EndBorrow,
            MayBorrow, SetBorrow, guardUnchanged
<1>1. FrameTypes'
  <2>1. CASE Mutate(h)
    <3>1. held[h] \in Frame
      BY <2>1, PinnedIfHeld DEF PoolInv, IdleInv
    <3>2. content[held[h]] + 1 \in Version
      BY <3>1, VersionFacts DEF PoolInv, TypeOK, FrameTypes
    <3> QED
      BY <2>1, <3>2 DEF PoolInv, TypeOK, FrameTypes
  <2>2. CASE ~ Mutate(h)
    BY <2>2 DEF PoolInv, TypeOK, FrameTypes
  <2> QED
    BY <2>1, <2>2
<1>2. GuardTypes'
  BY DEF PoolInv, TypeOK, GuardTypes, guardVars
<1>3. TypeOK'
  BY <1>1, <1>2 DEF PoolInv, TypeOK, CoreTypes, SectionTypes, CallTypes,
       StoreTypes, HistoryTypes, coreVars, regVars, storeVars, historyVars
<1>4. CoreInv' /\ CallInv' /\ SectionInv' /\ PinsCountGuards'
  BY PinsKept DEF PoolInv, CoreInv, CallInv, SectionInv, Resident, coreVars,
       regVars, guardVars
<1>5. IdleInv'
  BY DEF PoolInv, TypeOK, GuardTypes, IdleInv, coreVars, guardVars
<1>6. FramesAccountedFor' /\ GuardShowsItsPage'
  BY DEF PoolInv, FramesAccountedFor, GuardShowsItsPage, Filling, Resident,
       coreVars, regVars, guardVars
<1> QED
  BY <1>3, <1>4, <1>5, <1>6 DEF PoolInv

(* Dropping a guard: its frame was pinned, so the count stays natural, and *)
(* a frame whose pin is known to be 0 is not the one it drops.             *)
LEMMA DropStep ==
  ASSUME PoolInv, NEW h \in Handle, Drop(h)
  PROVE  PoolInv'
<1> USE DEF Drop
<1>0. held[h] \in Frame /\ pin[held[h]] > 0
  BY PinnedIfHeld
<1>1. FrameTypes'
  BY <1>0 DEF PoolInv, TypeOK, FrameTypes
<1>2. GuardTypes'
  BY DEF PoolInv, TypeOK, GuardTypes
<1>3. TypeOK'
  BY <1>1, <1>2 DEF PoolInv, TypeOK, CoreTypes, SectionTypes, CallTypes,
       StoreTypes, HistoryTypes, coreVars, regVars, storeVars, historyVars
<1>4. CoreInv' /\ PinsCountGuards'
  BY PinOnDrop DEF PoolInv, CoreInv
<1>5. CallInv'
  BY DEF PoolInv, TypeOK, GuardTypes, CallInv, InClient, GuardOps
<1>6. SectionInv'
  BY <1>0 DEF PoolInv, TypeOK, FrameTypes, SectionInv, Resident, coreVars,
       regVars
<1>7. IdleInv'
  BY <1>0 DEF PoolInv, TypeOK, FrameTypes, CoreTypes, GuardTypes, IdleInv,
       coreVars
<1>8. FramesAccountedFor' /\ GuardShowsItsPage'
  BY DEF PoolInv, TypeOK, GuardTypes, FramesAccountedFor, GuardShowsItsPage,
       Filling, Resident, coreVars, regVars
<1> QED
  BY <1>3, <1>4, <1>5, <1>6, <1>7, <1>8 DEF PoolInv

-----------------------------------------------------------------------------
(* Entering and leaving the pool.                                          *)

(* Returning to the client resets the call and its goal.                   *)
LEMMA ReturnTypes ==
  ASSUME PoolInv, NEW t \in Thread, Finish(t),
         pinned0' \in SUBSET Frame, cold0' \in SUBSET Frame
  PROVE  CallTypes' /\ HistoryTypes'
<1>1. NoGoal \in [Page -> Version]
  BY VersionFacts DEF NoGoal
<1>2. HistoryTypes'
  BY <1>1 DEF PoolInv, TypeOK, HistoryTypes, Finish
<1>3. CallTypes'
  BY DEF PoolInv, TypeOK, CallTypes, Finish, Goto, Labels, NoCall
<1> QED
  BY <1>2, <1>3

(* A call is entered with the arguments CallInv promises.                  *)
LEMMA CallStep ==
  ASSUME PoolInv, NEW t \in Thread, NEW o \in Ops,
         NEW p \in Page \cup {NoPage}, NEW h \in Handle \cup {NoHandle},
         Call(t, o, p, h)
  PROVE  PoolInv'
<1> USE DEF Call, InClient, Goto
<1>1. o \in AllOps
  BY PoolAssumption
<1>2. view \in [Page -> Version]
  BY DEF PoolInv, TypeOK, FrameTypes, CoreTypes, StoreTypes, view, Resident
<1>3. CallTypes'
  BY <1>1 DEF PoolInv, TypeOK, CallTypes, Labels
<1>4. HistoryTypes'
  BY <1>2 DEF PoolInv, TypeOK, HistoryTypes
<1>5. TypeOK'
  BY <1>3, <1>4 DEF PoolInv, TypeOK, FrameTypes, CoreTypes, SectionTypes,
       GuardTypes, StoreTypes, frameVars, coreVars, regVars, guardVars, storeVars
<1>6. CoreInv'
  BY DEF PoolInv, TypeOK, CallTypes, CoreInv, CoreLabels
<1>7. CallInv'
  <2>1. o \in GuardOps => p \in Page /\ h \in Handle /\ Owner(h) = t
                          /\ held[h] = NoFrame
    BY NoHandleOwner DEF GuardOps
  <2>2. o # "none"
    BY <1>1 DEF AllOps
  <2> QED
    BY <2>1, <2>2 DEF PoolInv, TypeOK, CallTypes, CallInv, guardVars, FlushLabels
<1>8. SectionInv' /\ PinsCountGuards'
  BY PinsKept DEF PoolInv, TypeOK, CallTypes, SectionInv, FlushLabels, Resident,
       frameVars, coreVars, regVars, guardVars
<1>9. IdleInv' /\ GuardShowsItsPage'
  BY DEF PoolInv, IdleInv, GuardShowsItsPage, frameVars, coreVars, guardVars
<1>10. FramesAccountedFor'
  BY DEF PoolInv, TypeOK, CallTypes, FramesAccountedFor, Filling, Resident,
       frameVars, coreVars, regVars
<1> QED
  BY <1>5, <1>6, <1>7, <1>8, <1>9, <1>10 DEF PoolInv

(* store.sync() is outside the critical section and touches no frame.      *)
LEMMA SyncSteps ==
  ASSUME PoolInv, NEW t \in Thread, SyncOk(t) \/ SyncFail(t)
  PROVE  PoolInv'
<1> USE DEF SyncOk, SyncFail, Finish, Goto
<1>1. StoreTypes'
  BY DEF PoolInv, TypeOK, StoreTypes
<1>2. CallTypes' /\ HistoryTypes'
  <2>1. pinned0' \in SUBSET Frame /\ cold0' \in SUBSET Frame /\ Finish(t)
    BY DEF PoolInv, TypeOK, HistoryTypes
  <2> QED
    BY <2>1, ReturnTypes
<1>3. TypeOK'
  BY <1>1, <1>2 DEF PoolInv, TypeOK, FrameTypes, CoreTypes, SectionTypes,
       GuardTypes, frameVars, coreVars, regVars, guardVars
<1>4. CoreInv' /\ CallInv'
  BY DEF PoolInv, TypeOK, CallTypes, CoreInv, CallInv, CoreLabels, FlushLabels,
       GuardOps, NoCall, guardVars
<1>5. SectionInv' /\ PinsCountGuards'
  BY PinsKept DEF PoolInv, TypeOK, CallTypes, SectionInv, FlushLabels, Resident,
       frameVars, coreVars, regVars, guardVars
<1>6. IdleInv' /\ GuardShowsItsPage'
  BY DEF PoolInv, IdleInv, GuardShowsItsPage, frameVars, coreVars, guardVars
<1>7. FramesAccountedFor'
  BY DEF PoolInv, TypeOK, CallTypes, FramesAccountedFor, Filling, Resident,
       frameVars, coreVars, regVars
<1> QED
  BY <1>3, <1>4, <1>5, <1>6, <1>7 DEF PoolInv

-----------------------------------------------------------------------------
(* The critical sections.                                                  *)

(* With core unlocked no thread relies on anything.                        *)
LEMMA UnlockedSection ==
  ASSUME CoreInv', core' = NoThread
  PROVE  SectionInv'
<1>1. \A t \in Thread : pc'[t] \notin CoreLabels
  BY PoolAssumption DEF CoreInv
<1> QED
  BY <1>1 DEF SectionInv, CoreLabels, FlushLabels

(* The accounting of frames only depends on map, free, id and which frame  *)
(* is being filled.                                                        *)
LEMMA FramesKept ==
  ASSUME FramesAccountedFor, UNCHANGED <<id, map, free>>,
         \A f \in Frame \cup {NoFrame} : Filling(f)' <=> Filling(f),
         map \in [Page -> Frame \cup {NoFrame}]
  PROVE  FramesAccountedFor'
BY DEF FramesAccountedFor, Resident

(* fetch and new_page of a resident page: its frame gets one more guard.   *)
LEMMA HitSteps ==
  ASSUME PoolInv, NEW t \in Thread, FetchHit(t) \/ ResetResident(t)
  PROVE  PoolInv'
<1> DEFINE p == call[t].page
           d == call[t].dst
           f == map[p]
<1>1. /\ p \in Page /\ f \in Frame /\ id[f] = p /\ f \notin free
      /\ d \in Handle /\ Owner(d) = t /\ held[d] = NoFrame
  <2>1. call[t].op \in GuardOps
    BY DEF FetchHit, ResetResident, AtLock, PoolInv, CallInv, GuardOps
  <2>2. Resident(p)
    BY NoFrameIsNone DEF FetchHit, ResetResident, PoolInv, SectionInv, Resident
  <2> QED
    BY <2>1, <2>2 DEF PoolInv, TypeOK, CoreTypes, CallInv, FramesAccountedFor,
         Resident
<1>2. /\ held' = [held EXCEPT ![d] = f] /\ asked' = [asked EXCEPT ![d] = p]
      /\ pin' = [pin EXCEPT ![f] = pin[f] + 1]
      /\ UNCHANGED <<id, coreVars, storeVars, borrow>>
      /\ Unlock /\ Finish(t)
      /\ pc[t] # "client"
  BY <1>1 DEF FetchHit, ResetResident, AtLock, ReturnGuard, Pin, PoolInv,
       SectionInv
<1>3. core = NoThread \/ core = t
  BY DEF FetchHit, ResetResident, AtLock
<1>4. FrameTypes'
  <2>1. content[f] + 1 \in Version
    BY <1>1, VersionFacts DEF PoolInv, TypeOK, FrameTypes
  <2>2. content' \in [Frame -> Version]
    BY <1>1, <2>1 DEF FetchHit, ResetResident, PoolInv, TypeOK, FrameTypes,
         SectionInv
  <2>3. pin' \in [Frame -> Nat]
    BY <1>1, <1>2 DEF PoolInv, TypeOK, FrameTypes
  <2> QED
    BY <1>2, <2>2, <2>3 DEF FetchHit, ResetResident, PoolInv,
         TypeOK, FrameTypes
<1>5. CallTypes' /\ HistoryTypes'
  BY <1>2, ReturnTypes DEF Unlock
<1>6. GuardTypes'
  BY <1>1, <1>2 DEF PoolInv, TypeOK, GuardTypes
<1>7. TypeOK'
  BY <1>2, <1>4, <1>5, <1>6, PoolAssumption DEF PoolInv, TypeOK, CoreTypes,
       SectionTypes, StoreTypes, Unlock, SweepLimit, coreVars, storeVars
<1>8. CoreInv'
  BY <1>2, <1>3, PoolAssumption DEF PoolInv, TypeOK, CallTypes, CoreInv,
       CoreLabels, Unlock, Finish, Goto
<1>9. CallInv'
  BY <1>1, <1>2 DEF PoolInv, TypeOK, CallTypes, GuardTypes, CallInv, Finish,
       Goto, NoCall, GuardOps, FlushLabels
<1>10. SectionInv'
  BY <1>2, <1>8, UnlockedSection DEF Unlock
<1>11. IdleInv'
  BY <1>1, <1>2, NoFrameIsNone DEF PoolInv, TypeOK, FrameTypes, GuardTypes,
       IdleInv, coreVars
<1>12. FramesAccountedFor'
  <2>1. \A g : ~ Filling(g) /\ ~ Filling(g)'
    BY <1>2, PoolAssumption DEF FetchHit, ResetResident, AtLock, Unlock, Filling
  <2> QED
    BY <1>2, <2>1, FramesKept DEF PoolInv, TypeOK, CoreTypes, coreVars
<1>13. PinsCountGuards'
  BY <1>1, <1>2, PinOnReturn
<1>14. GuardShowsItsPage'
  BY <1>1, <1>2 DEF PoolInv, TypeOK, GuardTypes, GuardShowsItsPage, coreVars
<1> QED
  BY <1>7, <1>8, <1>9, <1>10, <1>11, <1>12, <1>13, <1>14 DEF PoolInv

(* Locking core: to reset a resident page, to sweep, to flush.             *)
LEMMA EnterSteps ==
  ASSUME PoolInv, NEW t \in Thread,
         NewPageHit(t) \/ StartSweep(t) \/ FlushStart(t)
  PROVE  PoolInv'
<1> USE DEF NewPageHit, StartSweep, FlushStart, AtLock, Goto
<1>0. /\ core = NoThread /\ core' = t /\ pc[t] = "lock"
      /\ pc' \in [Thread -> Labels]
      /\ pc'[t] \in {"reset", "sweep", "flush_loop"}
      /\ \A u \in Thread \ {t} : pc'[u] = pc[u]
      /\ UNCHANGED <<call, frameVars, coreVars, guardVars, storeVars>>
  BY DEF PoolInv, TypeOK, CallTypes, Labels
<1>1. SectionTypes'
  <2>1. slot' \in Frame \cup {NoFrame}
    BY DEF PoolInv, TypeOK, CoreTypes, SectionTypes, CallInv, GuardOps, regVars
  <2> QED
    BY <2>1 DEF PoolInv, TypeOK, SectionTypes, regVars
<1>2. HistoryTypes'
  BY DEF PoolInv, TypeOK, HistoryTypes, historyVars
<1>3. TypeOK'
  BY <1>0, <1>1, <1>2 DEF PoolInv, TypeOK, FrameTypes, CoreTypes, CallTypes,
       GuardTypes, StoreTypes, frameVars, coreVars, guardVars, storeVars
<1>4. CoreInv'
  BY <1>0, PoolAssumption DEF PoolInv, CoreInv, CoreLabels
<1>5. CallInv'
  BY <1>0 DEF PoolInv, TypeOK, CallTypes, CallInv, GuardOps, FlushOps,
       FlushLabels, guardVars
<1>6. SectionInv'
  <2>1. \A u \in Thread \ {t} : pc'[u] \notin CoreLabels
    BY <1>4, <1>0 DEF CoreInv
  <2>2. /\ pc'[t] = "reset" => slot' \in Frame /\ map'[call'[t].page] = slot'
        /\ pc'[t] = "sweep" => free' = {} /\ ~ Resident(call[t].page)'
        /\ pc'[t] = "flush_loop" => \A p \in todo' : Resident(p)'
    BY <1>0 DEF PoolInv, TypeOK, CallTypes, CoreTypes, CallInv, GuardOps,
         Resident, coreVars
  <2> QED
    BY <1>0, <2>1, <2>2 DEF SectionInv, CoreLabels, FlushLabels, Resident
<1>7. IdleInv' /\ GuardShowsItsPage' /\ PinsCountGuards'
  BY <1>0, PinsKept DEF PoolInv, IdleInv, GuardShowsItsPage, frameVars, coreVars,
       guardVars
<1>8. FramesAccountedFor'
  <2>1. \A g : ~ Filling(g) /\ ~ Filling(g)'
    BY <1>0, PoolAssumption DEF Filling
  <2> QED
    BY <1>0, <2>1, FramesKept DEF PoolInv, TypeOK, CoreTypes, frameVars, coreVars
<1> QED
  BY <1>3, <1>4, <1>5, <1>6, <1>7, <1>8 DEF PoolInv

(* A frame leaves the free list for the hands of the filling thread.       *)
LEMMA TakeFreeStep ==
  ASSUME PoolInv, NEW t \in Thread, TakeFree(t)
  PROVE  PoolInv'
<1>1. PICK f \in free : free' = free \ {f} /\ slot' = f
  BY DEF TakeFree
<1>2. f \in Frame /\ pin[f] = 0
  BY DEF PoolInv, TypeOK, CoreTypes, IdleInv
<1>3. /\ core = NoThread /\ core' = t /\ pc[t] = "lock"
      /\ pc' = [pc EXCEPT ![t] = "fill"]
      /\ call[t].op \in GuardOps /\ ~ Resident(call[t].page)
      /\ UNCHANGED <<frameVars, map, hand, key, steps, todo, call, guardVars,
                     storeVars, historyVars>>
  BY DEF TakeFree, AtLock, Goto, GuardOps
<1>4. TypeOK'
  BY <1>1, <1>2, <1>3 DEF PoolInv, TypeOK, FrameTypes, CoreTypes, SectionTypes,
       CallTypes, GuardTypes, StoreTypes, HistoryTypes, Labels, frameVars,
       guardVars, storeVars, historyVars
<1>5. CoreInv'
  BY <1>3, PoolAssumption DEF PoolInv, TypeOK, CallTypes, CoreInv, CoreLabels
<1>6. CallInv'
  BY <1>3 DEF PoolInv, TypeOK, CallTypes, CallInv, GuardOps, FlushLabels,
       guardVars
<1>7. SectionInv'
  <2>1. \A u \in Thread \ {t} : pc'[u] \notin CoreLabels
    BY <1>3, <1>5 DEF CoreInv
  <2>2. pc'[t] = "fill" /\ slot' \in Frame /\ pin'[slot'] = 0
        /\ ~ Resident(call[t].page)'
    BY <1>1, <1>2, <1>3 DEF PoolInv, TypeOK, CallTypes, Resident, frameVars
  <2> QED
    BY <1>3, <2>1, <2>2 DEF SectionInv, CoreLabels, FlushLabels, Resident
<1>8. IdleInv' /\ GuardShowsItsPage' /\ PinsCountGuards'
  BY <1>1, <1>3, PinsKept DEF PoolInv, IdleInv, GuardShowsItsPage, frameVars,
       guardVars
<1>9. FramesAccountedFor'
  <2>1. \A g : ~ Filling(g) /\ (Filling(g)' <=> g = f)
    BY <1>1, <1>3, PoolAssumption DEF PoolInv, TypeOK, CallTypes, Filling
  <2> QED
    BY <1>1, <1>3, <2>1 DEF PoolInv, FramesAccountedFor, Resident, frameVars
<1> QED
  BY <1>4, <1>5, <1>6, <1>7, <1>8, <1>9 DEF PoolInv

(* Errors and the end of a flush: core is unlocked, the frames stay.       *)
LEMMA LeaveSteps ==
  ASSUME PoolInv, NEW t \in Thread,
         Exhausted(t) \/ WriteFail(t) \/ FlushEnd(t)
  PROVE  PoolInv'
<1> USE DEF Exhausted, WriteFail, FlushEnd
<1>0. /\ core = t /\ Unlock /\ pc[t] \in {"sweep", "latch", "flush_loop"}
      /\ \/ Finish(t)
         \/ call[t].op = "checkpoint" /\ Goto(t, "sync") /\ UNCHANGED <<call, goal>>
      /\ UNCHANGED <<frameVars, coreVars, guardVars, durable>>
  BY DEF storeVars
<1>1. StoreTypes'
  BY VersionFacts DEF PoolInv, TypeOK, StoreTypes, SectionInv, FlushLabels,
       storeVars
<1>2. CallTypes' /\ HistoryTypes'
  <2>1. CASE Finish(t)
    BY <1>0, <2>1, ReturnTypes DEF Unlock
  <2>2. CASE Goto(t, "sync") /\ UNCHANGED <<call, goal>>
    BY <1>0, <2>2 DEF PoolInv, TypeOK, CallTypes, HistoryTypes, Unlock, Goto,
         Labels
  <2> QED
    BY <1>0, <2>1, <2>2
<1>3. TypeOK'
  BY <1>0, <1>1, <1>2, PoolAssumption DEF PoolInv, TypeOK, FrameTypes, CoreTypes,
       SectionTypes, GuardTypes, Unlock, SweepLimit, frameVars, coreVars, guardVars
<1>4. CoreInv'
  BY <1>0, PoolAssumption DEF PoolInv, TypeOK, CallTypes, CoreInv, CoreLabels,
       Unlock, Finish, Goto
<1>5. CallInv'
  BY <1>0 DEF PoolInv, TypeOK, CallTypes, CallInv, Finish, Goto, NoCall, GuardOps,
       FlushLabels, guardVars
<1>6. SectionInv'
  BY <1>0, <1>4, UnlockedSection DEF Unlock
<1>7. IdleInv' /\ GuardShowsItsPage' /\ PinsCountGuards'
  BY <1>0, PinsKept DEF PoolInv, IdleInv, GuardShowsItsPage, frameVars, coreVars,
       guardVars
<1>8. FramesAccountedFor'
  <2>1. \A g : ~ Filling(g) /\ ~ Filling(g)'
    BY <1>0, PoolAssumption DEF Unlock, Filling
  <2> QED
    BY <1>0, <2>1, FramesKept DEF PoolInv, TypeOK, CoreTypes, frameVars, coreVars
<1> QED
  BY <1>3, <1>4, <1>5, <1>6, <1>7, <1>8 DEF PoolInv

(* A failed read: the frame goes back to the free list, unpinned.          *)
LEMMA FetchFailStep ==
  ASSUME PoolInv, NEW t \in Thread, FetchFail(t)
  PROVE  PoolInv'
<1> USE DEF FetchFail
<1>0. /\ core = t /\ pc[t] = "fill" /\ slot \in Frame /\ pin[slot] = 0
      /\ free' = free \cup {slot} /\ Unlock /\ Finish(t)
      /\ UNCHANGED <<id, pin, map, hand, guardVars>>
  BY DEF PoolInv, SectionInv
<1>1. FrameTypes' /\ CallTypes' /\ HistoryTypes'
  BY <1>0, ReturnTypes, VersionFacts DEF PoolInv, TypeOK, FrameTypes, Unlock
<1>2. TypeOK'
  BY <1>0, <1>1, PoolAssumption DEF PoolInv, TypeOK, CoreTypes, SectionTypes,
       GuardTypes, StoreTypes, Unlock, SweepLimit, guardVars, storeVars
<1>3. CoreInv'
  BY <1>0, PoolAssumption DEF PoolInv, TypeOK, CallTypes, CoreInv, CoreLabels,
       Unlock, Finish, Goto
<1>4. CallInv'
  BY <1>0 DEF PoolInv, TypeOK, CallTypes, CallInv, Finish, Goto, NoCall, GuardOps,
       FlushLabels, guardVars
<1>5. SectionInv'
  BY <1>0, <1>3, UnlockedSection DEF Unlock
<1>6. IdleInv' /\ GuardShowsItsPage' /\ PinsCountGuards'
  BY <1>0, PinsKept DEF PoolInv, IdleInv, GuardShowsItsPage, guardVars
<1>7. FramesAccountedFor'
  <2>1. \A g : (Filling(g) <=> g = slot) /\ ~ Filling(g)'
    BY <1>0, PoolAssumption DEF Unlock, Filling
  <2> QED
    BY <1>0, <2>1 DEF PoolInv, FramesAccountedFor, Resident
<1> QED
  BY <1>2, <1>3, <1>4, <1>5, <1>6, <1>7 DEF PoolInv

(* install: the filled frame enters the map under a page that was in no    *)
(* frame, and the one pin it gets is that of the guard returned.           *)
LEMMA FillSteps ==
  ASSUME PoolInv, NEW t \in Thread, FetchLoad(t) \/ NewPageFill(t)
  PROVE  PoolInv'
<1> DEFINE p == call[t].page
           d == call[t].dst
<1>1. /\ p \in Page /\ map[p] = NoFrame
      /\ d \in Handle /\ Owner(d) = t /\ held[d] = NoFrame
      /\ core = t /\ pc[t] = "fill" /\ slot \in Frame /\ pin[slot] = 0
  BY DEF FetchLoad, NewPageFill, PoolInv, CallInv, SectionInv, Resident, GuardOps
<1>2. /\ id' = [id EXCEPT ![slot] = p]
      /\ dirty' \in [Frame -> BOOLEAN] /\ referenced' \in [Frame -> BOOLEAN]
      /\ pin' = [pin EXCEPT ![slot] = 1]
      /\ map' = [map EXCEPT ![p] = slot]
      /\ held' = [held EXCEPT ![d] = slot] /\ asked' = [asked EXCEPT ![d] = p]
      /\ UNCHANGED <<free, hand, borrow, store, durable>>
      /\ Unlock /\ Finish(t)
  BY DEF FetchLoad, NewPageFill, Install, ReturnGuard, storeVars, PoolInv, TypeOK,
       FrameTypes
<1>3. FrameTypes'
  <2>1. store[p] \in Version /\ store[p] + 1 \in Version
    BY <1>1, VersionFacts DEF PoolInv, TypeOK, StoreTypes
  <2>2. content' \in [Frame -> Version]
    BY <2>1 DEF FetchLoad, NewPageFill, PoolInv, TypeOK, FrameTypes
  <2> QED
    BY <1>1, <1>2, <2>2 DEF PoolInv, TypeOK, FrameTypes
<1>4. CoreTypes' /\ GuardTypes'
  BY <1>1, <1>2 DEF PoolInv, TypeOK, CoreTypes, GuardTypes, Unlock
<1>5. CallTypes' /\ HistoryTypes'
  BY <1>2, ReturnTypes DEF Unlock
<1>6. TypeOK'
  BY <1>2, <1>3, <1>4, <1>5, PoolAssumption DEF PoolInv, TypeOK, SectionTypes,
       StoreTypes, Unlock, SweepLimit
<1>7. CoreInv'
  BY <1>1, <1>2, PoolAssumption DEF PoolInv, TypeOK, CallTypes, CoreInv,
       CoreLabels, Unlock, Finish, Goto
<1>8. CallInv'
  BY <1>1, <1>2 DEF PoolInv, TypeOK, CallTypes, GuardTypes, CallInv, Finish,
       Goto, NoCall, GuardOps, FlushLabels
<1>9. SectionInv'
  BY <1>2, <1>7, UnlockedSection DEF Unlock
<1>10. slot \notin free /\ \A q \in Page : map[q] # slot
  BY <1>1, NoFrameIsNone DEF PoolInv, FramesAccountedFor, Filling, Resident
<1>11. \A h \in Handle : held[h] # slot /\ (held[h] # NoFrame => asked[h] # p)
  BY <1>1, NoFrameIsNone, PinnedIfHeld DEF PoolInv, GuardShowsItsPage
<1>12. IdleInv'
  BY <1>1, <1>2, <1>10, NoFrameIsNone DEF PoolInv, TypeOK, FrameTypes, CoreTypes,
       GuardTypes, IdleInv
<1>13. FramesAccountedFor'
  <2>1. \A g : (Filling(g) <=> g = slot) /\ ~ Filling(g)'
    BY <1>1, <1>2, PoolAssumption DEF Unlock, Filling
  <2>2. id'[slot] = p /\ map'[p] = slot /\ slot \notin free'
    BY <1>1, <1>2, <1>10 DEF PoolInv, TypeOK, FrameTypes, CoreTypes
  <2>3. \A g \in Frame \ {slot} : id'[g] = id[g]
    BY <1>2 DEF PoolInv, TypeOK, FrameTypes
  <2>4. \A q \in Page \ {p} : map'[q] = map[q]
    BY <1>2 DEF PoolInv, TypeOK, CoreTypes
  <2> QED
    BY <1>1, <1>2, <1>10, <2>1, <2>2, <2>3, <2>4, NoFrameIsNone DEF PoolInv,
         TypeOK, CoreTypes, FramesAccountedFor, Resident
<1>14. PinsCountGuards'
  <2>1. pin' = [pin EXCEPT ![slot] = pin[slot] + 1]
    BY <1>1, <1>2
  <2> QED
    BY <1>1, <1>2, <2>1, PinOnReturn
<1>15. GuardShowsItsPage'
  BY <1>1, <1>2, <1>11 DEF PoolInv, TypeOK, FrameTypes, CoreTypes, GuardTypes,
       GuardShowsItsPage
<1> QED
  BY <1>6, <1>7, <1>8, <1>9, <1>12, <1>13, <1>14, <1>15 DEF PoolInv

(* One turn of the clock hand; a victim is an unpinned frame, and with the *)
(* free list empty and nothing being filled it is the frame of the page    *)
(* whose id it carries.                                                    *)
LEMMA SweepStep ==
  ASSUME PoolInv, NEW t \in Thread, Sweep(t)
  PROVE  PoolInv'
<1> USE DEF Sweep, Pinned, SecondChance
<1>0. /\ core = t /\ core' = t /\ pc[t] = "sweep" /\ hand \in Frame
      /\ free = {} /\ ~ Resident(call[t].page) /\ call[t].op \in GuardOps
      /\ UNCHANGED <<content, id, pin, dirty, map, free, todo, call, guardVars,
                     storeVars, historyVars>>
  BY DEF PoolInv, TypeOK, CoreTypes, SectionInv, CallInv
<1>1. \/ pc' = pc /\ UNCHANGED <<slot, key>>
      \/ /\ pc' = [pc EXCEPT ![t] = "flush_slot"]
         /\ slot' = hand /\ key' = id[hand] /\ pin[hand] = 0
  BY <1>0 DEF PoolInv, TypeOK, FrameTypes, Goto
<1>2. id[hand] \in Page /\ map[id[hand]] = hand
  BY <1>0 DEF PoolInv, FramesAccountedFor, Filling
<1>3. TypeOK'
  <2>1. FrameTypes'
    BY <1>0 DEF PoolInv, TypeOK, FrameTypes
  <2>2. SectionTypes'
    BY <1>0, <1>1, <1>2, PoolAssumption DEF PoolInv, TypeOK, SectionTypes,
         SweepLimit
  <2>3. CoreTypes' /\ CallTypes'
    BY <1>0, <1>1, HandGoesRound DEF PoolInv, TypeOK, CoreTypes, CallTypes,
         NextHand, Labels
  <2> QED
    BY <1>0, <2>1, <2>2, <2>3 DEF PoolInv, TypeOK, GuardTypes, StoreTypes,
         HistoryTypes, guardVars, storeVars, historyVars
<1>4. CoreInv' /\ CallInv'
  BY <1>0, <1>1 DEF PoolInv, TypeOK, CallTypes, CoreInv, CallInv, CoreLabels,
       FlushLabels, GuardOps, guardVars
<1>5. SectionInv'
  <2>1. \A u \in Thread \ {t} : pc'[u] \notin CoreLabels
    BY <1>0, <1>4 DEF CoreInv
  <2>2. CASE pc' = pc /\ UNCHANGED <<slot, key>>
    BY <1>0, <2>1, <2>2 DEF SectionInv, CoreLabels, FlushLabels, Resident
  <2>3. CASE pc' = [pc EXCEPT ![t] = "flush_slot"] /\ slot' = hand
             /\ key' = id[hand] /\ pin[hand] = 0
    BY <1>0, <1>2, <2>1, <2>3
       DEF PoolInv, TypeOK, CallTypes, SectionInv, CoreLabels, FlushLabels,
           FlushOps, GuardOps, Resident
  <2> QED
    BY <1>1, <2>2, <2>3
<1>6. IdleInv' /\ GuardShowsItsPage' /\ PinsCountGuards'
  BY <1>0, PinsKept DEF PoolInv, IdleInv, GuardShowsItsPage, guardVars
<1>7. FramesAccountedFor'
  <2>1. \A g : ~ Filling(g) /\ ~ Filling(g)'
    BY <1>0, <1>1 DEF PoolInv, TypeOK, CallTypes, Filling
  <2> QED
    BY <1>0, <2>1, FramesKept DEF PoolInv, TypeOK, CoreTypes
<1> QED
  BY <1>3, <1>4, <1>5, <1>6, <1>7 DEF PoolInv

(* Flushing up to the write: the loop of flush_all picks a resident page.  *)
LEMMA FlushSteps ==
  ASSUME PoolInv, NEW t \in Thread,
         FlushNext(t) \/ FlushDirty(t) \/ WritePage(t)
  PROVE  PoolInv'
<1> USE DEF FlushNext, FlushDirty, WritePage, Goto
<1>0. /\ core = t /\ core' = t
      /\ pc[t] \in {"flush_loop", "flush_slot", "latch"}
      /\ pc' \in [Thread -> Labels] /\ pc'[t] \in FlushLabels
      /\ \A u \in Thread \ {t} : pc'[u] = pc[u]
      /\ UNCHANGED <<frameVars, coreVars, call, guardVars, durable, historyVars>>
  BY DEF PoolInv, TypeOK, CallTypes, Labels, FlushLabels, storeVars
<1>1. /\ slot' \in Frame /\ key' \in Page /\ map[key'] = slot'
      /\ pc[t] # "flush_loop" => UNCHANGED <<slot, key>>
      /\ todo' \subseteq todo /\ steps' = steps
  BY DEF PoolInv, TypeOK, CoreTypes, SectionTypes, CallInv, SectionInv,
       FlushLabels, Resident, regVars
<1>2. StoreTypes'
  BY DEF PoolInv, TypeOK, FrameTypes, StoreTypes, SectionInv, FlushLabels,
       storeVars
<1>3. TypeOK'
  BY <1>0, <1>1, <1>2 DEF PoolInv, TypeOK, FrameTypes, CoreTypes, SectionTypes,
       CallTypes, GuardTypes, HistoryTypes, frameVars, coreVars, guardVars,
       historyVars
<1>4. CoreInv' /\ CallInv'
  BY <1>0 DEF PoolInv, TypeOK, CallTypes, CoreInv, CallInv, CoreLabels,
       FlushLabels, FlushOps, GuardOps, guardVars
<1>5. SectionInv'
  <2>1. \A u \in Thread \ {t} : pc'[u] \notin CoreLabels
    BY <1>0, <1>4 DEF CoreInv
  <2>2. pc[t] = "flush_loop" => call[t].op \notin GuardOps
    BY DEF PoolInv, CallInv, FlushOps, GuardOps
  <2> QED
    BY <1>0, <1>1, <2>1, <2>2 DEF PoolInv, SectionInv, CoreLabels, FlushLabels,
         Resident, frameVars, coreVars
<1>6. IdleInv' /\ GuardShowsItsPage' /\ PinsCountGuards'
  BY <1>0, PinsKept DEF PoolInv, IdleInv, GuardShowsItsPage, frameVars, coreVars,
       guardVars
<1>7. FramesAccountedFor'
  <2>1. \A g : ~ Filling(g) /\ ~ Filling(g)'
    BY <1>0 DEF Filling, FlushLabels
  <2> QED
    BY <1>0, <2>1, FramesKept DEF PoolInv, TypeOK, CoreTypes, frameVars, coreVars
<1> QED
  BY <1>3, <1>4, <1>5, <1>6, <1>7 DEF PoolInv

(* flush_slot has succeeded: back to the loop, or, when a victim was       *)
(* flushed, out of the map with it.  No guard is on a victim.              *)
LEMMA FlushedSteps ==
  ASSUME PoolInv, NEW t \in Thread, FlushClean(t) \/ ClearDirty(t)
  PROVE  PoolInv'
<1> USE DEF FlushClean, ClearDirty, AfterFlush, Goto
<1>0. /\ core = t /\ core' = t /\ pc[t] \in {"flush_slot", "clear"}
      /\ slot \in Frame /\ key \in Page /\ map[key] = slot
      /\ call[t].op \in GuardOps \cup FlushOps
      /\ UNCHANGED <<content, id, pin, referenced, free, hand, steps, todo, call,
                     guardVars, storeVars, historyVars>>
  BY DEF PoolInv, SectionInv, CallInv, FlushLabels, frameVars
<1>1. \/ /\ call[t].op \in FlushOps /\ pc' = [pc EXCEPT ![t] = "flush_loop"]
         /\ slot' = NoFrame /\ map' = map
      \/ /\ call[t].op \in GuardOps /\ pc' = [pc EXCEPT ![t] = "fill"]
         /\ slot' = slot /\ map' = [map EXCEPT ![key] = NoFrame]
         /\ pin[slot] = 0 /\ ~ Resident(call[t].page)
  BY <1>0 DEF PoolInv, SectionInv, FlushLabels, FlushOps, GuardOps
<1>2. TypeOK'
  <2>1. FrameTypes'
    BY DEF PoolInv, TypeOK, FrameTypes, frameVars
  <2>2. CoreTypes' /\ SectionTypes' /\ CallTypes'
    BY <1>0, <1>1 DEF PoolInv, TypeOK, CoreTypes, SectionTypes, CallTypes, Labels
  <2> QED
    BY <1>0, <2>1, <2>2 DEF PoolInv, TypeOK, GuardTypes, StoreTypes, HistoryTypes,
         guardVars, storeVars, historyVars
<1>3. CoreInv' /\ CallInv'
  BY <1>0, <1>1 DEF PoolInv, TypeOK, CallTypes, CoreInv, CallInv, CoreLabels,
       FlushLabels, FlushOps, GuardOps, guardVars
<1>4. id[slot] = key /\ slot \notin free
  BY <1>0, NoFrameIsNone DEF PoolInv, FramesAccountedFor, Resident
<1>5. SectionInv'
  <2>1. \A u \in Thread \ {t} : pc'[u] \notin CoreLabels
    BY <1>0, <1>3 DEF CoreInv
  <2>2. CASE call[t].op \in FlushOps
    BY <1>0, <1>1, <2>1, <2>2
       DEF PoolInv, TypeOK, CallTypes, SectionInv, CoreLabels, FlushLabels,
           FlushOps, GuardOps, Resident
  <2>3. CASE call[t].op \in GuardOps
    <3>1. call[t].page \in Page /\ call[t].page # key
      BY <1>0, <1>1, <2>3, NoFrameIsNone
         DEF PoolInv, CallInv, Resident, GuardOps, FlushOps
    <3> QED
      BY <1>0, <1>1, <2>1, <2>3, <3>1
         DEF PoolInv, TypeOK, CallTypes, CoreTypes, SectionInv, CoreLabels,
             FlushLabels, FlushOps, GuardOps, Resident
  <2> QED
    BY <1>0, <2>2, <2>3
<1>6. IdleInv' /\ PinsCountGuards'
  BY <1>0, PinsKept DEF PoolInv, IdleInv, guardVars
<1>7. FramesAccountedFor' /\ GuardShowsItsPage'
  <2>1. CASE call[t].op \in FlushOps
    <3>1. \A g \in Frame \cup {NoFrame} : ~ Filling(g) /\ ~ Filling(g)'
      BY <1>0, <1>1, <2>1 DEF PoolInv, TypeOK, CallTypes, Filling, FlushOps,
           GuardOps
    <3> QED
      BY <1>0, <1>1, <2>1, <3>1, FramesKept DEF PoolInv, TypeOK, CoreTypes,
           FlushOps, GuardOps, GuardShowsItsPage, guardVars
  <2>2. CASE call[t].op \in GuardOps
    <3>1. \A g : ~ Filling(g) /\ (Filling(g)' <=> g = slot)
      BY <1>0, <1>1, <2>2 DEF PoolInv, TypeOK, CallTypes, Filling, FlushOps,
           GuardOps
    <3>2. map'[key] = NoFrame /\ \A q \in Page \ {key} : map'[q] = map[q]
      BY <1>0, <1>1, <2>2 DEF PoolInv, TypeOK, CoreTypes, FlushOps, GuardOps
    <3>3. \A h \in Handle : held[h] # slot
      BY <1>0, <1>1, <2>2, PinnedIfHeld, NoFrameIsNone DEF FlushOps, GuardOps
    <3>4. FramesAccountedFor'
      BY <1>0, <1>4, <3>1, <3>2, NoFrameIsNone
         DEF PoolInv, TypeOK, CoreTypes, FramesAccountedFor, Resident
    <3>5. GuardShowsItsPage'
      BY <1>0, <1>4, <3>2, <3>3 DEF PoolInv, GuardShowsItsPage, guardVars
    <3> QED
      BY <3>4, <3>5
  <2> QED
    BY <1>0, <2>1, <2>2
<1> QED
  BY <1>2, <1>3, <1>5, <1>6, <1>7 DEF PoolInv

-----------------------------------------------------------------------------
(* The theorems.                                                           *)

(* The invariant holds initially: every frame is free, every guard unused. *)
LEMMA PoolInvInit == Init => PoolInv
<1> SUFFICES ASSUME Init PROVE PoolInv
  OBVIOUS
<1>1. store \in [Page -> Version] /\ NoGoal \in [Page -> Version]
  BY VersionFacts DEF Init, NoGoal
<1>2. FrameTypes /\ CoreTypes /\ SectionTypes
  BY FirstFrame, VersionFacts, PoolAssumption DEF Init, FrameTypes, CoreTypes,
       SectionTypes, SweepLimit
<1>3. CallTypes /\ GuardTypes
  BY DEF Init, CallTypes, GuardTypes, Labels, NoCall
<1>4. TypeOK
  BY <1>1, <1>2, <1>3 DEF Init, TypeOK, StoreTypes, HistoryTypes
<1>5. CoreInv /\ CallInv /\ SectionInv /\ IdleInv
  BY PoolAssumption DEF Init, CoreInv, CallInv, SectionInv, IdleInv, CoreLabels,
       FlushLabels, GuardOps, NoCall
<1>6. FramesAccountedFor /\ GuardShowsItsPage
  BY PoolAssumption DEF Init, FramesAccountedFor, GuardShowsItsPage, Filling,
       Resident
<1>7. PinsCountGuards
  <2>1. \A f \in Frame : Holders(f) = {}
    BY NoFrameIsNone DEF Init, Holders
  <2> QED
    BY <2>1, FS_EmptySet DEF Init, PinsCountGuards
<1> QED
  BY <1>4, <1>5, <1>6, <1>7 DEF PoolInv

(* Every step of every thread and guard preserves the invariant.           *)
LEMMA PoolInvStep == PoolInv /\ [Next]_vars => PoolInv'
<1> SUFFICES ASSUME PoolInv, [Next]_vars PROVE PoolInv'
  OBVIOUS
<1>1. ASSUME NEW t \in Thread, PoolStep(t) PROVE PoolInv'
  BY <1>1, HitSteps, EnterSteps, TakeFreeStep, LeaveSteps, FetchFailStep,
     FillSteps, SweepStep, FlushSteps, FlushedSteps, SyncSteps DEF PoolStep
<1>2. ASSUME NEW t \in Thread, NEW o \in Ops, NEW p \in Page \cup {NoPage},
             NEW h \in Handle \cup {NoHandle}, Call(t, o, p, h)
      PROVE  PoolInv'
  BY <1>2, CallStep
<1>3. ASSUME NEW h \in Handle, LatchStep(h) \/ ClientStep(h) PROVE PoolInv'
  BY <1>3, BorrowSteps, DropStep DEF LatchStep, ClientStep
<1>4. CASE UNCHANGED vars
  BY <1>4, PinsKept
     DEF vars, frameVars, coreVars, regVars, guardVars, storeVars, historyVars,
         PoolInv, TypeOK, FrameTypes, CoreTypes, SectionTypes, CallTypes,
         GuardTypes, StoreTypes, HistoryTypes, CoreInv, CallInv, SectionInv,
         IdleInv, FramesAccountedFor, GuardShowsItsPage, Filling, Resident
<1> QED
  BY <1>1, <1>2, <1>3, <1>4 DEF Next

(* The invariant holds in every reachable state.                           *)
THEOREM PoolInvariant == Spec => []PoolInv
BY PoolInvInit, PoolInvStep, PTL DEF Spec

(* Every variable keeps its type: no pin count is decremented below zero,  *)
(* the clock hand stays on the frames, every index is in range.            *)
THEOREM TypeCorrect == Spec => []TypeOK
<1>1. PoolInv => TypeOK
  BY DEF PoolInv
<1> QED
  BY <1>1, PoolInvariant, PTL

(* The pin count of a frame is at every moment the number of guards on it. *)
THEOREM PinsAreExact == Spec => []PinsCountGuards
<1>1. PoolInv => PinsCountGuards
  BY DEF PoolInv
<1> QED
  BY <1>1, PoolInvariant, PTL

(* A pinned page is never evicted: a guard shows the page it was asked for *)
(* until it is dropped, however the other threads fetch, flush and evict.  *)
THEOREM GuardsAreStable == Spec => []GuardShowsItsPage
<1>1. PoolInv => GuardShowsItsPage
  BY DEF PoolInv
<1> QED
  BY <1>1, PoolInvariant, PTL

(* No frame leaks or is used twice.                                        *)
THEOREM FramesAreConserved == Spec => []FramesAccountedFor
<1>1. PoolInv => FramesAccountedFor
  BY DEF PoolInv
<1> QED
  BY <1>1, PoolInvariant, PTL

-----------------------------------------------------------------------------
(* The bytes of pages, on top of PoolInv: a page half-written to the store *)
(* is still in the cache, and, with clients that obey ExclusiveFlush, no   *)
(* change is lost, a checkpoint is durable, and the pool implements        *)
(* PageArray.                                                              *)

-----------------------------------------------------------------------------
(* Facts used throughout.                                                  *)

(* A thread in a critical section is the only one.                         *)
LEMMA CoreAlone ==
  ASSUME PoolInv, NEW t \in Thread, NEW u \in Thread,
         pc[t] \in CoreLabels, pc[u] \in CoreLabels
  PROVE  t = u /\ core = t
BY DEF PoolInv, CoreInv

(* No two pages are in one frame.                                          *)
LEMMA OneFramePerPage ==
  ASSUME PoolInv, NEW p \in Page, NEW q \in Page, Resident(p), map[p] = map[q]
  PROVE  p = q
BY DEF PoolInv, FramesAccountedFor, Resident

(* The frame that is being filled is no page's and no guard's.             *)
LEMMA FilledFrame ==
  ASSUME PoolInv, NEW t \in Thread, pc[t] = "fill"
  PROVE  /\ core = t /\ slot \in Frame
         /\ \A q \in Page : map[q] # slot
         /\ \A h \in Handle : held[h] # slot
<1>1. core = t /\ slot \in Frame /\ pin[slot] = 0 /\ Filling(slot)
  BY DEF PoolInv, CoreInv, CoreLabels, SectionInv, Filling
<1>2. \A q \in Page : map[q] # slot
  BY <1>1, NoFrameIsNone DEF PoolInv, FramesAccountedFor, Resident
<1>3. \A h \in Handle : held[h] # slot
  BY <1>1, PinnedIfHeld, NoFrameIsNone
<1> QED
  BY <1>1, <1>2, <1>3

(* Where the owner of core is when it flushes a frame.                     *)
LEMMA FlushedFrame ==
  ASSUME PoolInv, NEW t \in Thread, pc[t] \in FlushLabels
  PROVE  /\ core = t /\ slot \in Frame /\ key \in Page /\ map[key] = slot
         /\ Resident(key) /\ \A q \in Page : map[q] = slot => q = key
         /\ call[t].op \in GuardOps \cup FlushOps
         /\ call[t].op \in GuardOps => \A h \in Handle : held[h] # slot
<1>1. /\ core = t /\ slot \in Frame /\ key \in Page /\ map[key] = slot
      /\ call[t].op \in GuardOps \cup FlushOps
      /\ call[t].op \in GuardOps => pin[slot] = 0
  BY DEF PoolInv, CoreInv, CoreLabels, FlushLabels, CallInv, SectionInv
<1>2. Resident(key)
  BY <1>1, NoFrameIsNone DEF Resident
<1>3. \A q \in Page : map[q] = slot => q = key
  BY <1>1, <1>2, OneFramePerPage
<1>4. call[t].op \in GuardOps => \A h \in Handle : held[h] # slot
  BY <1>1, PinnedIfHeld, NoFrameIsNone
<1> QED
  BY <1>1, <1>2, <1>3, <1>4

(* The frame of a guard.                                                   *)
LEMMA GuardedFrame ==
  ASSUME PoolInv, NEW h \in Handle, borrow[h] # "none" \/ held[h] # NoFrame
  PROVE  /\ held[h] \in Frame /\ asked[h] \in Page /\ map[asked[h]] = held[h]
         /\ Resident(asked[h])
         /\ \A q \in Page : map[q] = held[h] => q = asked[h]
<1>1. held[h] # NoFrame
  BY DEF PoolInv, IdleInv
<1>2. /\ held[h] \in Frame /\ asked[h] \in Page /\ map[asked[h]] = held[h]
  BY <1>1, PinnedIfHeld DEF PoolInv, GuardShowsItsPage
<1>3. Resident(asked[h])
  BY <1>1, <1>2 DEF Resident
<1> QED
  BY <1>2, <1>3, OneFramePerPage

-----------------------------------------------------------------------------
(* ContentInv.                                                             *)

(* Nothing is resident at first, and no page is torn.                      *)
LEMMA ContentInvInit == Init => ContentInv
BY DEF Init, ContentInv, TornPageStaysDirty, ResidentIsWhole, LatchedInv, Resident,
     Absent, Torn

(* Steps that touch no page, no dirty bit and no flush under way.          *)
LEMMA ContentKept ==
  ASSUME ContentInv, UNCHANGED <<content, map, store, dirty>>,
         \A t \in Thread : pc'[t] \in {"latch", "clear"} =>
           pc[t] = pc'[t] /\ UNCHANGED <<slot, key>>,
         \A t \in Thread, h \in Handle :
           /\ pc[t] = "clear" /\ pc'[t] = "clear"
           /\ held'[h] = slot /\ borrow'[h] \in {"read", "write"}
           => held[h] = slot /\ borrow[h] \in {"read", "write"}
  PROVE  ContentInv'
<1>1. TornPageStaysDirty' /\ ResidentIsWhole'
  BY DEF ContentInv, TornPageStaysDirty, ResidentIsWhole, Resident
<1>2. LatchedInv'
  BY DEF ContentInv, LatchedInv, Unborrowed, Holders
<1> QED
  BY <1>1, <1>2 DEF ContentInv

(* Entering and leaving the pool, the sweep, and the loop of flush_all.    *)
LEMMA ContentQuiet ==
  ASSUME PoolInv, ContentInv, NEW t \in Thread,
         \/ NewPageHit(t) \/ TakeFree(t) \/ StartSweep(t) \/ Sweep(t)
         \/ Exhausted(t) \/ FlushStart(t) \/ FlushNext(t) \/ FlushEnd(t)
         \/ SyncOk(t) \/ SyncFail(t)
  PROVE  ContentInv'
<1>1. UNCHANGED <<content, map, store, dirty, guardVars>>
  BY DEF NewPageHit, TakeFree, StartSweep, Sweep, Exhausted, FlushStart, FlushNext,
       FlushEnd, SyncOk, SyncFail, frameVars, coreVars, guardVars, storeVars
<1>2. /\ pc'[t] \notin {"latch", "clear"}
      /\ \A u \in Thread \ {t} : pc'[u] = pc[u]
  BY DEF NewPageHit, TakeFree, StartSweep, Sweep, Exhausted, FlushStart, FlushNext,
       FlushEnd, SyncOk, SyncFail, Finish, Goto, PoolInv, TypeOK, CallTypes
<1>3. \/ core = NoThread \/ core = t \/ UNCHANGED regVars
  BY DEF NewPageHit, TakeFree, StartSweep, Sweep, Exhausted, FlushStart, FlushNext,
       FlushEnd, SyncOk, SyncFail, AtLock
<1>4. \A u \in Thread \ {t} : pc[u] \in {"latch", "clear"} => UNCHANGED <<slot, key>>
  BY <1>3, PoolAssumption DEF PoolInv, CoreInv, CoreLabels, regVars
<1> QED
  BY <1>1, <1>2, <1>4, ContentKept DEF guardVars

(* A call, and the steps of a guard that leave the bytes and the dirty bit *)
(* alone.  Nobody takes a latch that the flush has.                        *)
LEMMA ContentGuards ==
  ASSUME PoolInv, ContentInv, NEW h \in Handle,
         CallRead(h) \/ TakeRead(h) \/ TakeWrite(h) \/ EndBorrow(h) \/ Drop(h)
  PROVE  ContentInv'
<1>1. UNCHANGED <<content, map, store, dirty, pc, slot, key>>
  BY DEF CallRead, TakeRead, TakeWrite, EndBorrow, Drop, guardUnchanged, coreVars,
       regVars, storeVars
<1>2. ASSUME NEW t \in Thread, NEW g \in Handle, pc[t] = "clear",
             held'[g] = slot, borrow'[g] \in {"read", "write"}
      PROVE  held[g] = slot /\ borrow[g] \in {"read", "write"}
  <2>1. Flushing(slot) /\ slot \in Frame
    BY <1>2, FlushedFrame DEF Flushing, FlushLabels
  <2> QED
    BY <1>2, <2>1, NoFrameIsNone
       DEF PoolInv, TypeOK, GuardTypes, CallRead, TakeRead, TakeWrite, EndBorrow,
           Drop, SetBorrow, guardUnchanged, CanReadLatch, CanWriteLatch
<1> QED
  BY <1>1, <1>2, ContentKept

(* A call moves no bytes and takes no latch.                               *)
LEMMA ContentCall ==
  ASSUME PoolInv, ContentInv, NEW t \in Thread, NEW o \in Ops,
         NEW p \in Page \cup {NoPage}, NEW h \in Handle \cup {NoHandle},
         Call(t, o, p, h)
  PROVE  ContentInv'
<1>1. UNCHANGED <<content, map, store, dirty, slot, key, held, borrow>>
  BY DEF Call, frameVars, coreVars, regVars, guardVars, storeVars
<1>2. \A u \in Thread : pc'[u] \in {"latch", "clear"} => pc[u] = pc'[u]
  BY DEF Call, Goto, PoolInv, TypeOK, CallTypes
<1> QED
  BY <1>1, <1>2, ContentKept

(* fetch of a resident page: the new guard borrows nothing yet.            *)
LEMMA ContentFetchHit ==
  ASSUME PoolInv, ContentInv, NEW t \in Thread, FetchHit(t)
  PROVE  ContentInv'
<1>1. /\ call[t].dst \in Handle /\ held[call[t].dst] = NoFrame
      /\ borrow[call[t].dst] = "none" /\ core = NoThread
  BY DEF FetchHit, AtLock, PoolInv, CallInv, GuardOps, IdleInv
<1>2. UNCHANGED <<content, map, store, dirty, borrow>>
  BY DEF FetchHit, ReturnGuard, coreVars, storeVars
<1>3. \A u \in Thread : pc[u] \notin {"latch", "clear"}
  BY <1>1, PoolAssumption DEF PoolInv, CoreInv, CoreLabels
<1>4. \A u \in Thread : pc'[u] \notin {"latch", "clear"}
  BY <1>3 DEF FetchHit, ReturnGuard, Finish, Goto, PoolInv, TypeOK, CallTypes
<1> QED
  BY <1>2, <1>3, <1>4, ContentKept

(* With core unlocked again, no flush is under way.                        *)
LEMMA UnlockedLatched ==
  ASSUME PoolInv, PoolInv', NEW t \in Thread, Unlock
  PROVE  LatchedInv'
<1>1. \A u \in Thread : pc'[u] \notin {"latch", "clear"}
  BY PoolAssumption DEF PoolInv, CoreInv, CoreLabels, Unlock
<1> QED
  BY <1>1 DEF LatchedInv

(* new_page of a resident page: one change more, and dirty.                *)
LEMMA ContentReset ==
  ASSUME PoolInv, PoolInv', ContentInv, NEW t \in Thread, ResetResident(t)
  PROVE  ContentInv'
<1>1. slot \in Frame /\ Unlock /\ UNCHANGED <<map, store>>
  BY DEF ResetResident, ReturnGuard, PoolInv, SectionInv, coreVars, storeVars
<1>2. TornPageStaysDirty'
  BY <1>1 DEF ResetResident, ContentInv, TornPageStaysDirty, Resident, PoolInv,
       TypeOK, FrameTypes, CoreTypes
<1>3. ResidentIsWhole'
  BY <1>1 DEF ResetResident, ContentInv, ResidentIsWhole, Resident, PoolInv, TypeOK,
       FrameTypes, CoreTypes, Absent
<1> QED
  BY <1>1, <1>2, <1>3, UnlockedLatched DEF ContentInv

(* A frame is filled from the store, or with a blank page: a page that is  *)
(* not resident is not torn.                                               *)
LEMMA ContentFill ==
  ASSUME PoolInv, PoolInv', ContentInv, NEW t \in Thread,
         FetchLoad(t) \/ NewPageFill(t)
  PROVE  ContentInv'
<1> DEFINE p == call[t].page
<1>1. /\ p \in Page /\ ~ Resident(p) /\ store[p] # Torn
  BY DEF FetchLoad, NewPageFill, PoolInv, CallInv, GuardOps, SectionInv, ContentInv,
       TornPageStaysDirty
<1>2. /\ slot \in Frame /\ \A q \in Page : map[q] # slot
  BY FilledFrame DEF FetchLoad, NewPageFill
<1>3. /\ map' = [map EXCEPT ![p] = slot] /\ store' = store /\ Unlock
      /\ dirty' \in [Frame -> BOOLEAN]
      /\ \A f \in Frame \ {slot} : dirty'[f] = dirty[f] /\ content'[f] = content[f]
  BY DEF FetchLoad, NewPageFill, Install, ReturnGuard, storeVars, PoolInv, TypeOK,
       FrameTypes
<1>4. content'[slot] \in Nat \ {Absent}
  <2>1. store[p] \in Nat
    BY <1>1 DEF PoolInv, TypeOK, StoreTypes, Version
  <2>2. CASE FetchLoad(t)
    BY <1>2, <2>1, <2>2 DEF FetchLoad, PoolInv, TypeOK, FrameTypes
  <2>3. CASE NewPageFill(t)
    BY <1>2, <2>1, <2>3 DEF NewPageFill, PoolInv, TypeOK, FrameTypes, Absent
  <2> QED
    BY <2>2, <2>3
<1>5. map'[p] = slot /\ \A q \in Page \ {p} : map'[q] = map[q]
  BY <1>1, <1>3 DEF PoolInv, TypeOK, CoreTypes
<1>6. \A q \in Page \ {p} : map[q] # NoFrame => map[q] \in Frame \ {slot}
  BY <1>2 DEF PoolInv, TypeOK, CoreTypes
<1>7. TornPageStaysDirty'
  BY <1>1, <1>3, <1>5, <1>6 DEF ContentInv, TornPageStaysDirty, Resident
<1>8. ResidentIsWhole'
  BY <1>3, <1>4, <1>5, <1>6 DEF ContentInv, ResidentIsWhole, Resident
<1> QED
  BY <1>3, <1>7, <1>8, UnlockedLatched DEF ContentInv

(* A failed read spoils a frame that is nobody's.                          *)
LEMMA ContentFetchFail ==
  ASSUME PoolInv, PoolInv', ContentInv, NEW t \in Thread, FetchFail(t)
  PROVE  ContentInv'
<1>1. /\ slot \in Frame /\ \A q \in Page : map[q] # slot
      /\ Unlock /\ UNCHANGED <<map, store, dirty>>
  BY FilledFrame DEF FetchFail, storeVars
<1>2. \A q \in Page : map[q] # NoFrame => content'[map[q]] = content[map[q]]
  BY <1>1 DEF FetchFail, PoolInv, TypeOK, CoreTypes, FrameTypes
<1>3. TornPageStaysDirty' /\ ResidentIsWhole'
  BY <1>1, <1>2 DEF ContentInv, TornPageStaysDirty, ResidentIsWhole, Resident
<1> QED
  BY <1>1, <1>3, UnlockedLatched DEF ContentInv

(* flush_slot found the dirty bit set; only the owner of core clears it.   *)
LEMMA ContentFlushDirty ==
  ASSUME PoolInv, ContentInv, NEW t \in Thread, FlushDirty(t)
  PROVE  ContentInv'
<1>1. /\ core = t /\ pc[t] = "flush_slot" /\ dirty[slot]
      /\ pc' = [pc EXCEPT ![t] = "latch"]
      /\ UNCHANGED <<frameVars, map, slot, key, guardVars, store>>
  BY DEF FlushDirty, Goto, coreVars, regVars, storeVars
<1>2. \A u \in Thread \ {t} : pc[u] \notin {"latch", "clear"}
  BY <1>1 DEF PoolInv, CoreInv, CoreLabels
<1>3. TornPageStaysDirty' /\ ResidentIsWhole'
  BY <1>1 DEF ContentInv, TornPageStaysDirty, ResidentIsWhole, Resident, frameVars
<1>4. LatchedInv'
  BY <1>1, <1>2 DEF LatchedInv, PoolInv, TypeOK, CallTypes, frameVars
<1> QED
  BY <1>3, <1>4 DEF ContentInv

(* The page is written: nobody has a borrow of it, nobody gets one.        *)
LEMMA ContentWritePage ==
  ASSUME PoolInv, ContentInv, NEW t \in Thread, WritePage(t)
  PROVE  ContentInv'
<1>1. /\ core = t /\ pc[t] = "latch" /\ Unborrowed(slot)
      /\ store' = [store EXCEPT ![key] = content[slot]]
      /\ pc' = [pc EXCEPT ![t] = "clear"]
      /\ UNCHANGED <<frameVars, map, slot, key, guardVars>>
  BY DEF WritePage, CanWriteLatch, Goto, coreVars, regVars
<1>2. \A u \in Thread \ {t} : pc[u] \notin {"latch", "clear"}
  BY <1>1 DEF PoolInv, CoreInv, CoreLabels
<1>3. key \in Page /\ map[key] = slot /\ Resident(key)
  BY <1>1, FlushedFrame DEF FlushLabels
<1>4. content[slot] # Torn /\ dirty[slot]
  BY <1>1, <1>3 DEF ContentInv, ResidentIsWhole, LatchedInv, Torn
<1>5. TornPageStaysDirty' /\ ResidentIsWhole'
  BY <1>1, <1>4 DEF ContentInv, TornPageStaysDirty, ResidentIsWhole, Resident,
       frameVars, PoolInv, TypeOK, StoreTypes
<1>6. LatchedInv'
  BY <1>1, <1>2, <1>3, <1>4 DEF LatchedInv, Unborrowed, Holders, PoolInv, TypeOK,
       CallTypes, StoreTypes, frameVars, guardVars
<1> QED
  BY <1>5, <1>6 DEF ContentInv

(* The write fails and may tear the page: it is resident and dirty.        *)
LEMMA ContentWriteFail ==
  ASSUME PoolInv, PoolInv', ContentInv, NEW t \in Thread, WriteFail(t)
  PROVE  ContentInv'
<1>1. /\ pc[t] = "latch" /\ Unlock /\ UNCHANGED <<frameVars, map>>
      /\ \E left \in {store[key], Torn} : store' = [store EXCEPT ![key] = left]
  BY DEF WriteFail, coreVars
<1>2. key \in Page /\ map[key] = slot /\ Resident(key) /\ dirty[slot]
  BY <1>1, FlushedFrame DEF FlushLabels, ContentInv, LatchedInv
<1>3. TornPageStaysDirty' /\ ResidentIsWhole'
  BY <1>1, <1>2 DEF ContentInv, TornPageStaysDirty, ResidentIsWhole, Resident,
       frameVars, PoolInv, TypeOK, StoreTypes
<1> QED
  BY <1>1, <1>3, UnlockedLatched DEF ContentInv

(* flush_slot returns Ok: the store has the whole page, so its frame may   *)
(* be given away.                                                          *)
LEMMA ContentFlushed ==
  ASSUME PoolInv, ContentInv, NEW t \in Thread, FlushClean(t) \/ ClearDirty(t)
  PROVE  ContentInv'
<1>1. /\ core = t /\ pc[t] \in FlushLabels /\ UNCHANGED <<content, store>>
      /\ slot \in Frame /\ key \in Page /\ map[key] = slot /\ Resident(key)
      /\ \A q \in Page : map[q] = slot => q = key
  BY FlushedFrame DEF FlushClean, ClearDirty, FlushLabels, frameVars, storeVars
<1>2. store[key] # Torn
  BY <1>1 DEF FlushClean, ClearDirty, ContentInv, TornPageStaysDirty,
       ResidentIsWhole, LatchedInv, Torn
<1>3. \A f \in Frame \ {slot} : dirty'[f] = dirty[f]
  BY DEF FlushClean, ClearDirty, frameVars, PoolInv, TypeOK, FrameTypes
<1>4. map' = map \/ map' = [map EXCEPT ![key] = NoFrame]
  BY DEF FlushClean, ClearDirty, AfterFlush
<1>5. TornPageStaysDirty' /\ ResidentIsWhole'
  BY <1>1, <1>2, <1>3, <1>4 DEF ContentInv, TornPageStaysDirty, ResidentIsWhole,
       Resident, PoolInv, TypeOK, CoreTypes
<1>6. \A u \in Thread : pc'[u] \notin {"latch", "clear"}
  <2>1. \A u \in Thread \ {t} : pc[u] \notin {"latch", "clear"}
    BY <1>1 DEF PoolInv, CoreInv, CoreLabels
  <2> QED
    BY <2>1 DEF FlushClean, ClearDirty, AfterFlush, Goto, PoolInv, TypeOK, CallTypes
<1> QED
  BY <1>5, <1>6 DEF ContentInv, LatchedInv

(* write() sets a dirty bit; the client changes bytes it has borrowed,     *)
(* which no flush is writing.                                              *)
LEMMA ContentWriters ==
  ASSUME PoolInv, ContentInv, NEW h \in Handle, CallWrite(h) \/ Mutate(h)
  PROVE  ContentInv'
<1>1. held[h] \in Frame /\ UNCHANGED <<map, store, pc, slot, key, held>>
  BY GuardedFrame DEF CallWrite, Mutate, MayBorrow, guardUnchanged, coreVars, regVars,
       guardVars, storeVars
<1>2. CASE CallWrite(h)
  <2>1. /\ UNCHANGED content /\ dirty' = [dirty EXCEPT ![held[h]] = TRUE]
        /\ borrow' = [borrow EXCEPT ![h] = "want_write"]
    BY <1>2 DEF CallWrite, SetBorrow, guardUnchanged
  <2>2. TornPageStaysDirty' /\ ResidentIsWhole'
    BY <1>1, <2>1 DEF ContentInv, TornPageStaysDirty, ResidentIsWhole, Resident,
         PoolInv, TypeOK, FrameTypes, CoreTypes
  <2>3. LatchedInv'
    BY <1>1, <2>1 DEF ContentInv, LatchedInv, Unborrowed, Holders, PoolInv, TypeOK,
         FrameTypes, GuardTypes, SectionInv, FlushLabels
  <2> QED
    BY <2>2, <2>3 DEF ContentInv
<1>3. CASE Mutate(h)
  <2>1. /\ borrow[h] = "write" /\ UNCHANGED <<dirty, borrow>>
        /\ content' = [content EXCEPT ![held[h]] = content[held[h]] + 1]
    BY <1>3 DEF Mutate, guardVars
  <2>2. TornPageStaysDirty' /\ ResidentIsWhole'
    BY <1>1, <2>1 DEF ContentInv, TornPageStaysDirty, ResidentIsWhole, Resident,
         PoolInv, TypeOK, FrameTypes, CoreTypes, Absent
  <2>3. \A t \in Thread : pc[t] = "clear" => held[h] # slot
    BY <2>1 DEF ContentInv, LatchedInv, Unborrowed, Holders
  <2>4. LatchedInv'
    BY <1>1, <2>1, <2>3 DEF ContentInv, LatchedInv, Unborrowed, Holders, PoolInv,
         TypeOK, FrameTypes, SectionInv, FlushLabels
  <2> QED
    BY <2>2, <2>4 DEF ContentInv
<1> QED
  BY <1>2, <1>3

(* ContentInv is inductive, on top of PoolInv.                             *)
LEMMA ContentInvStep == PoolInv /\ PoolInv' /\ ContentInv /\ [Next]_vars => ContentInv'
<1> SUFFICES ASSUME PoolInv, PoolInv', ContentInv, [Next]_vars PROVE ContentInv'
  OBVIOUS
<1>1. ASSUME NEW t \in Thread, PoolStep(t) PROVE ContentInv'
  BY <1>1, ContentQuiet, ContentFetchHit, ContentReset, ContentFill,
     ContentFetchFail, ContentFlushDirty, ContentWritePage, ContentWriteFail,
     ContentFlushed DEF PoolStep
<1>2. ASSUME NEW t \in Thread, NEW o \in Ops, NEW p \in Page \cup {NoPage},
             NEW h \in Handle \cup {NoHandle}, Call(t, o, p, h)
      PROVE  ContentInv'
  BY <1>2, ContentCall
<1>3. ASSUME NEW h \in Handle, LatchStep(h) \/ ClientStep(h) PROVE ContentInv'
  BY <1>3, ContentGuards, ContentWriters DEF LatchStep, ClientStep
<1>4. CASE UNCHANGED vars
  BY <1>4, ContentKept DEF vars, frameVars, coreVars, regVars, guardVars, storeVars
<1> QED
  BY <1>1, <1>2, <1>3, <1>4 DEF Next

(* What is in the cache and in the store fits together, whatever the       *)
(* clients do.                                                             *)
THEOREM ContentInvariant == Spec => []ContentInv
BY ContentInvInit, ContentInvStep, PoolInvariant, PTL DEF Spec

(* When a write has failed half-way, the only whole copy of the page is    *)
(* in the cache and still dirty: it is not evicted before a flush of it    *)
(* has succeeded.                                                          *)
THEOREM TornPagesAreKept == Spec => []TornPageStaysDirty
<1>1. ContentInv => TornPageStaysDirty
  BY DEF ContentInv
<1> QED
  BY <1>1, ContentInvariant, PTL

-----------------------------------------------------------------------------
(* DirtyInv, with clients that keep flushes and calls of write() apart.    *)

(* Nobody writes at first.                                                 *)
LEMMA DirtyInvInit == Init => DirtyInv
BY DEF Init, DirtyInv, NoWriterWaits, WritersAreDirty, ChangesAreDirty, Resident

(* No step but write() and a call of a flush can bring a flush and a       *)
(* waiting writer together.                                                *)
LEMMA WaitersKept ==
  ASSUME NoWriterWaits,
         \A t \in Thread : call'[t].op \in FlushOps => call[t].op \in FlushOps,
         \A h \in Handle : borrow'[h] = "want_write" => borrow[h] = "want_write"
  PROVE  NoWriterWaits'
BY DEF NoWriterWaits

(* What a step of a thread inside the pool does to calls and borrows.      *)
LEMMA PoolStepCalls ==
  ASSUME PoolInv, NEW t \in Thread, PoolStep(t)
  PROVE  /\ UNCHANGED borrow
         /\ \A u \in Thread : call'[u].op \in FlushOps => call[u].op \in FlushOps
         /\ \A h \in Handle : borrow[h] # "none" => held'[h] = held[h]
<1>1. CASE \/ FetchHit(t) \/ ResetResident(t) \/ FetchLoad(t) \/ NewPageFill(t)
  <2>1. /\ held' = [held EXCEPT ![call[t].dst] = held'[call[t].dst]]
        /\ Finish(t) /\ UNCHANGED borrow
    BY <1>1 DEF FetchHit, ResetResident, FetchLoad, NewPageFill, Install, ReturnGuard,
         PoolInv, TypeOK, GuardTypes
  <2>2. call[t].dst \in Handle /\ borrow[call[t].dst] = "none"
    BY <1>1 DEF FetchHit, ResetResident, FetchLoad, NewPageFill, AtLock, PoolInv,
         CallInv, GuardOps, IdleInv
  <2> QED
    BY <2>1, <2>2 DEF Finish, NoCall, FlushOps, PoolInv, TypeOK, CallTypes, GuardTypes
<1>2. CASE ~ (\/ FetchHit(t) \/ ResetResident(t) \/ FetchLoad(t) \/ NewPageFill(t))
  <2>1. UNCHANGED guardVars /\ (UNCHANGED call \/ Finish(t))
    BY <1>2 DEF PoolStep, NewPageHit, TakeFree, StartSweep, Sweep, Exhausted, FetchFail,
         FlushStart, FlushNext, FlushEnd, FlushClean, FlushDirty, WritePage, WriteFail,
         ClearDirty, SyncOk, SyncFail
  <2> QED
    BY <2>1 DEF Finish, NoCall, FlushOps, PoolInv, TypeOK, CallTypes, guardVars
<1> QED
  BY <1>1, <1>2

(* Steps inside the pool that touch no bytes, no dirty bit and no mapping. *)
LEMMA DirtyQuiet ==
  ASSUME PoolInv, DirtyInv, NEW t \in Thread,
         \/ FetchHit(t) \/ NewPageHit(t) \/ TakeFree(t) \/ StartSweep(t) \/ Sweep(t)
         \/ Exhausted(t) \/ FlushStart(t) \/ FlushNext(t) \/ FlushEnd(t)
         \/ FlushDirty(t) \/ SyncOk(t) \/ SyncFail(t)
  PROVE  DirtyInv'
<1>1. UNCHANGED <<content, map, store, dirty>>
  BY DEF FetchHit, NewPageHit, TakeFree, StartSweep, Sweep, Exhausted, FlushStart,
       FlushNext, FlushEnd, FlushDirty, SyncOk, SyncFail, frameVars, coreVars,
       storeVars
<1>2. /\ UNCHANGED borrow
      /\ \A u \in Thread : call'[u].op \in FlushOps => call[u].op \in FlushOps
      /\ \A h \in Handle : borrow[h] # "none" => held'[h] = held[h]
  BY PoolStepCalls DEF PoolStep
<1>3. NoWriterWaits'
  BY <1>2, WaitersKept DEF DirtyInv
<1>4. WritersAreDirty' /\ ChangesAreDirty'
  BY <1>1, <1>2 DEF DirtyInv, WritersAreDirty, ChangesAreDirty, Resident
<1> QED
  BY <1>3, <1>4 DEF DirtyInv

(* A frame gets new bytes: it is nobody's yet and equals the store, or it  *)
(* becomes dirty.                                                          *)
LEMMA DirtyFills ==
  ASSUME PoolInv, DirtyInv, NEW t \in Thread,
         \/ ResetResident(t) \/ FetchLoad(t) \/ NewPageFill(t) \/ FetchFail(t)
  PROVE  DirtyInv'
<1>1. /\ UNCHANGED borrow
      /\ \A u \in Thread : call'[u].op \in FlushOps => call[u].op \in FlushOps
      /\ \A h \in Handle : borrow[h] # "none" => held'[h] = held[h]
  BY PoolStepCalls DEF PoolStep
<1>2. NoWriterWaits'
  BY <1>1, WaitersKept DEF DirtyInv
<1>3. \A h \in Handle : borrow[h] # "none" => held[h] \in Frame
  BY GuardedFrame
<1>4. CASE ResetResident(t)
  <2>1. /\ slot \in Frame /\ UNCHANGED <<map, store>>
        /\ dirty' = [dirty EXCEPT ![slot] = TRUE]
        /\ \A f \in Frame \ {slot} : content'[f] = content[f]
    BY <1>4 DEF ResetResident, PoolInv, TypeOK, FrameTypes, SectionInv, coreVars,
         storeVars
  <2>2. WritersAreDirty'
    BY <1>1, <1>3, <2>1 DEF DirtyInv, WritersAreDirty, PoolInv, TypeOK, FrameTypes
  <2>3. ChangesAreDirty'
    BY <2>1 DEF DirtyInv, ChangesAreDirty, Resident, PoolInv, TypeOK, FrameTypes,
         CoreTypes
  <2> QED
    BY <1>2, <2>2, <2>3 DEF DirtyInv
<1>5. CASE FetchLoad(t) \/ NewPageFill(t) \/ FetchFail(t)
  <2>1. /\ slot \in Frame /\ \A q \in Page : map[q] # slot
        /\ \A h \in Handle : held[h] # slot
    BY <1>5, FilledFrame DEF FetchLoad, NewPageFill, FetchFail
  <2>2. /\ store' = store
        /\ \A f \in Frame \ {slot} : dirty'[f] = dirty[f] /\ content'[f] = content[f]
    BY <1>5 DEF FetchLoad, NewPageFill, FetchFail, Install, storeVars, PoolInv, TypeOK,
         FrameTypes
  <2>3. WritersAreDirty'
    BY <1>1, <1>3, <2>1, <2>2 DEF DirtyInv, WritersAreDirty
  <2>4. CASE FetchFail(t)
    <3>1. map' = map /\ \A q \in Page : map[q] # NoFrame => map[q] \in Frame \ {slot}
      BY <2>1, <2>4 DEF FetchFail, PoolInv, TypeOK, CoreTypes
    <3>2. ChangesAreDirty'
      BY <2>2, <3>1 DEF DirtyInv, ChangesAreDirty, Resident
    <3> QED
      BY <1>2, <2>3, <3>2 DEF DirtyInv
  <2>5. CASE FetchLoad(t) \/ NewPageFill(t)
    <3>1. /\ call[t].page \in Page
          /\ map' = [map EXCEPT ![call[t].page] = slot]
          /\ content'[slot] = store[call[t].page] \/ dirty'[slot]
      BY <2>1, <2>5 DEF FetchLoad, NewPageFill, Install, PoolInv, CallInv, GuardOps,
           TypeOK, FrameTypes
    <3>2. ChangesAreDirty'
      BY <2>1, <2>2, <3>1 DEF DirtyInv, ChangesAreDirty, Resident, PoolInv, TypeOK,
           CoreTypes
    <3> QED
      BY <1>2, <2>3, <3>2 DEF DirtyInv
  <2> QED
    BY <1>5, <2>4, <2>5
<1> QED
  BY <1>4, <1>5

(* Flushing: the store gets the bytes, and only then the bit is cleared,   *)
(* when no writer is on the frame and none is waiting for it.              *)
LEMMA DirtyFlush ==
  ASSUME PoolInv, ContentInv, DirtyInv, NEW t \in Thread,
         WritePage(t) \/ WriteFail(t) \/ FlushClean(t) \/ ClearDirty(t)
  PROVE  DirtyInv'
<1>1. /\ UNCHANGED borrow
      /\ \A u \in Thread : call'[u].op \in FlushOps => call[u].op \in FlushOps
      /\ \A h \in Handle : borrow[h] # "none" => held'[h] = held[h]
  BY PoolStepCalls DEF PoolStep
<1>2. NoWriterWaits'
  BY <1>1, WaitersKept DEF DirtyInv
<1>3. /\ pc[t] \in FlushLabels /\ slot \in Frame /\ key \in Page
      /\ map[key] = slot /\ Resident(key)
      /\ \A q \in Page : map[q] = slot => q = key
      /\ call[t].op \in GuardOps \cup FlushOps
      /\ call[t].op \in GuardOps => \A h \in Handle : held[h] # slot
  BY FlushedFrame DEF WritePage, WriteFail, FlushClean, ClearDirty, FlushLabels
<1>4. \A h \in Handle : borrow[h] # "none" => held[h] \in Frame
  BY GuardedFrame
<1>5. CASE WritePage(t) \/ WriteFail(t)
  <2>1. /\ UNCHANGED <<content, map, dirty>>
        /\ \A q \in Page \ {key} : store'[q] = store[q]
        /\ dirty[slot]
    BY <1>5 DEF WritePage, WriteFail, frameVars, coreVars, PoolInv, TypeOK, StoreTypes,
         ContentInv, LatchedInv
  <2>2. WritersAreDirty' /\ ChangesAreDirty'
    BY <1>1, <1>3, <2>1 DEF DirtyInv, WritersAreDirty, ChangesAreDirty, Resident
  <2> QED
    BY <1>2, <2>2 DEF DirtyInv
<1>6. CASE FlushClean(t) \/ ClearDirty(t)
  <2>1. /\ UNCHANGED <<content, store>>
        /\ map' = map \/ map' = [map EXCEPT ![key] = NoFrame]
        /\ \A f \in Frame \ {slot} : dirty'[f] = dirty[f]
    BY <1>6 DEF FlushClean, ClearDirty, AfterFlush, frameVars, storeVars, PoolInv,
         TypeOK, FrameTypes
  <2>2. dirty' = dirty \/ content[slot] = store[key]
    BY <1>6 DEF FlushClean, ClearDirty, frameVars, ContentInv, LatchedInv
  <2>3. ChangesAreDirty'
    BY <1>3, <2>1, <2>2 DEF DirtyInv, ChangesAreDirty, Resident, PoolInv, TypeOK,
         CoreTypes
  <2>4. WritersAreDirty'
    <3>1. CASE FlushClean(t)
      BY <1>1, <3>1 DEF FlushClean, frameVars, DirtyInv, WritersAreDirty
    <3>2. CASE ClearDirty(t)
      <4>1. \A h \in Handle : borrow[h] \in {"want_write", "write"} => held[h] # slot
        BY <1>3, <3>2 DEF ClearDirty, DirtyInv, NoWriterWaits, ContentInv, LatchedInv,
             Unborrowed, Holders
      <4> QED
        BY <1>1, <1>4, <2>1, <4>1 DEF DirtyInv, WritersAreDirty
    <3> QED
      BY <1>6, <3>1, <3>2
  <2> QED
    BY <1>2, <2>3, <2>4 DEF DirtyInv
<1> QED
  BY <1>5, <1>6

(* The steps of clients: ExclusiveFlush keeps flushes and writers apart,   *)
(* and a change is made through a guard whose frame is dirty.              *)
LEMMA DirtyClients ==
  ASSUME PoolInv, DirtyInv, NEW h \in Handle, LatchStep(h) \/ ClientStep(h),
         ExclusiveFlush
  PROVE  DirtyInv'
<1>1. UNCHANGED <<map, store, call>>
  BY DEF LatchStep, ClientStep, CallRead, TakeRead, CallWrite, TakeWrite, Mutate,
       EndBorrow, Drop, guardUnchanged, coreVars, storeVars
<1>2. \A g \in Handle : borrow[g] # "none" => held[g] \in Frame
  BY GuardedFrame
<1>3. CASE CallRead(h) \/ TakeRead(h) \/ TakeWrite(h) \/ EndBorrow(h) \/ Drop(h)
  <2>1. /\ UNCHANGED <<content, dirty>>
        /\ \A g \in Handle :
             /\ borrow'[g] = "want_write" => borrow[g] = "want_write"
             /\ borrow'[g] \in {"want_write", "write"} =>
                  borrow[g] \in {"want_write", "write"} /\ held'[g] = held[g]
    BY <1>3 DEF CallRead, TakeRead, TakeWrite, EndBorrow, Drop, SetBorrow,
         guardUnchanged, PoolInv, TypeOK, GuardTypes
  <2>2. NoWriterWaits'
    BY <1>1, <2>1, WaitersKept DEF DirtyInv
  <2>3. WritersAreDirty' /\ ChangesAreDirty'
    BY <1>1, <2>1 DEF DirtyInv, WritersAreDirty, ChangesAreDirty, Resident
  <2> QED
    BY <2>2, <2>3 DEF DirtyInv
<1>4. CASE CallWrite(h)
  <2>1. /\ \A t \in Thread : call[t].op \notin FlushOps
        /\ held[h] \in Frame /\ UNCHANGED <<content, held>>
        /\ dirty' = [dirty EXCEPT ![held[h]] = TRUE]
        /\ borrow' = [borrow EXCEPT ![h] = "want_write"]
    BY <1>4, GuardedFrame DEF CallWrite, MayBorrow, SetBorrow, guardUnchanged
  <2>2. NoWriterWaits'
    BY <1>1, <2>1 DEF NoWriterWaits
  <2>3. WritersAreDirty'
    BY <1>2, <2>1 DEF DirtyInv, WritersAreDirty, PoolInv, TypeOK, FrameTypes,
         GuardTypes
  <2>4. ChangesAreDirty'
    BY <1>1, <2>1 DEF DirtyInv, ChangesAreDirty, Resident, PoolInv, TypeOK,
         FrameTypes, CoreTypes
  <2> QED
    BY <2>2, <2>3, <2>4 DEF DirtyInv
<1>5. CASE Mutate(h)
  <2>1. /\ held[h] \in Frame /\ dirty[held[h]] /\ UNCHANGED <<dirty, held, borrow>>
        /\ \A f \in Frame \ {held[h]} : content'[f] = content[f]
    BY <1>2, <1>5 DEF Mutate, guardVars, DirtyInv, WritersAreDirty, PoolInv, TypeOK,
         FrameTypes
  <2>2. NoWriterWaits'
    BY <1>1, <2>1 DEF DirtyInv, NoWriterWaits
  <2>3. WritersAreDirty' /\ ChangesAreDirty'
    BY <1>1, <2>1 DEF DirtyInv, WritersAreDirty, ChangesAreDirty, Resident, PoolInv,
         TypeOK, CoreTypes
  <2> QED
    BY <2>2, <2>3 DEF DirtyInv
<1> QED
  BY <1>3, <1>4, <1>5 DEF LatchStep, ClientStep

(* A flush is called only while no writer waits for a latch.               *)
LEMMA DirtyCall ==
  ASSUME PoolInv, DirtyInv, NEW t \in Thread, NEW o \in Ops,
         NEW p \in Page \cup {NoPage}, NEW h \in Handle \cup {NoHandle},
         Call(t, o, p, h), ExclusiveFlush
  PROVE  DirtyInv'
<1>1. UNCHANGED <<content, map, store, dirty, held, borrow>>
  BY DEF Call, frameVars, coreVars, guardVars, storeVars
<1>2. NoWriterWaits'
  BY <1>1 DEF Call, DirtyInv, NoWriterWaits, PoolInv, TypeOK, CallTypes
<1>3. WritersAreDirty' /\ ChangesAreDirty'
  BY <1>1 DEF DirtyInv, WritersAreDirty, ChangesAreDirty, Resident
<1> QED
  BY <1>2, <1>3 DEF DirtyInv

(* DirtyInv is inductive, on top of PoolInv and ContentInv.                *)
LEMMA DirtyInvStep ==
  ExclusiveFlush /\ PoolInv /\ ContentInv /\ DirtyInv /\ [Next]_vars => DirtyInv'
<1> SUFFICES ASSUME ExclusiveFlush, PoolInv, ContentInv, DirtyInv, [Next]_vars
             PROVE  DirtyInv'
  OBVIOUS
<1>1. ASSUME NEW t \in Thread, PoolStep(t) PROVE DirtyInv'
  BY <1>1, DirtyQuiet, DirtyFills, DirtyFlush DEF PoolStep
<1>2. ASSUME NEW t \in Thread, NEW o \in Ops, NEW p \in Page \cup {NoPage},
             NEW h \in Handle \cup {NoHandle}, Call(t, o, p, h)
      PROVE  DirtyInv'
  BY <1>2, DirtyCall
<1>3. ASSUME NEW h \in Handle, LatchStep(h) \/ ClientStep(h) PROVE DirtyInv'
  BY <1>3, DirtyClients
<1>4. CASE UNCHANGED vars
  BY <1>4 DEF vars, frameVars, coreVars, guardVars, storeVars, DirtyInv, NoWriterWaits,
       WritersAreDirty, ChangesAreDirty, Resident
<1> QED
  BY <1>1, <1>2, <1>3, <1>4 DEF Next

(* With ExclusiveFlush, no flush ever meets a call of write() that waits,  *)
(* and every writer's frame is dirty.                                      *)
THEOREM DirtyInvariant == ExclusiveFlush => (Spec => []DirtyInv)
<1> SUFFICES ASSUME ExclusiveFlush PROVE Spec => []DirtyInv
  OBVIOUS
<1>1. PoolInv /\ ContentInv /\ DirtyInv /\ [Next]_vars => DirtyInv'
  BY DirtyInvStep
<1> QED
  BY <1>1, DirtyInvInit, PoolInvariant, ContentInvariant, PTL DEF Spec

(* If no call of write() overlaps a flush, whatever the store does not     *)
(* have yet is marked dirty, at every moment: no change can be evicted     *)
(* without being written.                                                  *)
THEOREM NoChangeIsForgotten == ExclusiveFlush => (Spec => []ChangesAreDirty)
<1>1. DirtyInv => ChangesAreDirty
  BY DEF DirtyInv
<1> QED
  BY <1>1, DirtyInvariant, PTL

-----------------------------------------------------------------------------
(* The pool implements PageArray: the abstract view of every step.         *)

(* Every page a reader can reach is whole.                                 *)
LEMMA ViewTypes ==
  ASSUME PoolInv, ContentInv
  PROVE  view \in [Page -> Nat]
<1>1. ASSUME NEW p \in Page PROVE view[p] \in Nat
  <2>1. CASE Resident(p)
    BY <2>1 DEF view, ContentInv, ResidentIsWhole
  <2>2. CASE ~ Resident(p)
    BY <2>2 DEF view, ContentInv, TornPageStaysDirty, PoolInv, TypeOK, StoreTypes, Version
  <2> QED
    BY <2>1, <2>2
<1> QED
  BY <1>1 DEF view

(* The view stays when each page keeps the bytes its reader would find.    *)
LEMMA ViewKept ==
  ASSUME \A p \in Page : IF map'[p] # NoFrame
                           THEN IF map[p] # NoFrame
                                  THEN content'[map'[p]] = content[map[p]]
                                  ELSE content'[map'[p]] = store[p]
                           ELSE IF map[p] # NoFrame
                                  THEN store'[p] = content[map[p]]
                                  ELSE store'[p] = store[p]
  PROVE  view' = view
BY DEF view, Resident

(* The view changes by one at page p.                                      *)
LEMMA ViewChanged ==
  ASSUME NEW p \in Page, map'[p] \in Frame,
         content'[map'[p]] = view[p] + 1,
         \A q \in Page \ {p} : IF map[q] # NoFrame
                                 THEN map'[q] = map[q] /\ content'[map[q]] = content[map[q]]
                                 ELSE map'[q] = NoFrame /\ store'[q] = store[q]
  PROVE  Array!Changed(p)
<1>1. view'[p] = view[p] + 1
  BY NoFrameIsNone DEF view, Resident
<1>2. \A q \in Page \ {p} : view'[q] = view[q]
  BY DEF view, Resident
<1>3. /\ view = [q \in Page |-> view[q]]
      /\ view' = [q \in Page |-> view'[q]]
  BY DEF view
<1>4. view' = [view EXCEPT ![p] = view[p] + 1]
  BY <1>1, <1>2, <1>3
<1> QED
  BY <1>4 DEF Array!Changed

(* Most steps are invisible: they move no bytes and open no guard.         *)
LEMMA ViewQuiet ==
  ASSUME \/ \E t \in Thread :
              \/ NewPageHit(t) \/ TakeFree(t) \/ StartSweep(t) \/ Sweep(t)
              \/ Exhausted(t) \/ FlushStart(t) \/ FlushNext(t) \/ FlushEnd(t)
              \/ FlushDirty(t) \/ SyncOk(t) \/ SyncFail(t)
         \/ \E t \in Thread, o \in Ops, p \in Page \cup {NoPage},
               h \in Handle \cup {NoHandle} : Call(t, o, p, h)
         \/ \E h \in Handle :
              CallRead(h) \/ TakeRead(h) \/ CallWrite(h) \/ TakeWrite(h) \/ EndBorrow(h)
         \/ UNCHANGED vars
  PROVE  UNCHANGED Array!arrayVars
<1>1. UNCHANGED <<content, map, store, asked>>
  BY DEF NewPageHit, TakeFree, StartSweep, Sweep, Exhausted, FlushStart, FlushNext,
       FlushEnd, FlushDirty, SyncOk, SyncFail, Call, CallRead, TakeRead, CallWrite,
       TakeWrite, EndBorrow, guardUnchanged, vars, frameVars, coreVars, guardVars,
       storeVars
<1> QED
  BY <1>1, ViewKept DEF Array!arrayVars

(* The guard a fetch or new_page returns was not in use.                   *)
LEMMA DestinationIsFree ==
  ASSUME PoolInv, NEW t \in Thread, call[t].op \in GuardOps
  PROVE  /\ call[t].page \in Page /\ call[t].dst \in Handle
         /\ asked[call[t].dst] = NoPage
BY DEF PoolInv, CallInv, IdleInv

(* fetch, of a resident page or from the store, opens a guard on the page  *)
(* as it was.                                                              *)
LEMMA ViewFetch ==
  ASSUME PoolInv, ContentInv, NEW t \in Thread, FetchHit(t) \/ FetchLoad(t)
  PROVE  \E g \in Handle, p \in Page : Array!Fetch(g, p)
<1> DEFINE p == call[t].page
           g == call[t].dst
<1>1. /\ p \in Page /\ g \in Handle /\ asked[g] = NoPage
      /\ asked' = [asked EXCEPT ![g] = p]
  BY DestinationIsFree DEF FetchHit, FetchLoad, AtLock, GuardOps, Install, ReturnGuard
<1>2. CASE FetchHit(t)
  <2>1. view' = view
    BY <1>2, ViewKept DEF FetchHit, coreVars, storeVars
  <2>2. view[p] # 0
    BY <1>1, <1>2 DEF FetchHit, view, ContentInv, ResidentIsWhole, Absent
  <2> QED
    BY <1>1, <2>1, <2>2 DEF Array!Fetch
<1>3. CASE FetchLoad(t)
  <2>1. /\ slot \in Frame /\ \A q \in Page : map[q] # slot
        /\ map' = [map EXCEPT ![p] = slot] /\ store' = store
        /\ content' = [content EXCEPT ![slot] = store[p]]
        /\ ~ Resident(p) /\ store[p] # 0
    BY <1>3, FilledFrame DEF FetchLoad, Install, storeVars, PoolInv, SectionInv, Absent
  <2>2. \A q \in Page : map[q] # NoFrame => map[q] \in Frame \ {slot}
    BY <2>1 DEF PoolInv, TypeOK, CoreTypes
  <2>3. view' = view
    BY <1>1, <2>1, <2>2, ViewKept, NoFrameIsNone DEF Resident, PoolInv, TypeOK,
         FrameTypes, CoreTypes
  <2>4. view[p] # 0
    BY <1>1, <2>1 DEF view
  <2> QED
    BY <1>1, <2>3, <2>4 DEF Array!Fetch
<1> QED
  BY <1>2, <1>3

(* new_page opens a guard on the page's next version.                      *)
LEMMA ViewNewPage ==
  ASSUME PoolInv, NEW t \in Thread, ResetResident(t) \/ NewPageFill(t)
  PROVE  \E g \in Handle, p \in Page : Array!NewPage(g, p)
<1> DEFINE p == call[t].page
           g == call[t].dst
<1>1. call[t].op = "new_page"
  BY DEF ResetResident, NewPageFill, PoolInv, CallInv
<1>2. /\ p \in Page /\ g \in Handle /\ asked[g] = NoPage
      /\ asked' = [asked EXCEPT ![g] = p]
  BY <1>1, DestinationIsFree
     DEF ResetResident, NewPageFill, GuardOps, Install, ReturnGuard
<1>3. CASE ResetResident(t)
  <2>1. /\ slot \in Frame /\ map[p] = slot /\ UNCHANGED <<map, store>>
        /\ content' = [content EXCEPT ![slot] = content[slot] + 1]
    BY <1>3 DEF ResetResident, PoolInv, SectionInv, coreVars, storeVars
  <2>2. Resident(p) /\ view[p] = content[slot]
    BY <1>2, <2>1, NoFrameIsNone DEF Resident, view
  <2>3. \A q \in Page \ {p} : map[q] # slot
    BY <1>2, <2>1, <2>2, OneFramePerPage
  <2>4. Array!Changed(p)
    BY <1>2, <2>1, <2>2, <2>3, ViewChanged DEF PoolInv, TypeOK, FrameTypes, CoreTypes
  <2> QED
    BY <1>2, <2>4 DEF Array!NewPage
<1>4. CASE NewPageFill(t)
  <2>1. /\ slot \in Frame /\ \A q \in Page : map[q] # slot
        /\ map' = [map EXCEPT ![p] = slot] /\ store' = store
        /\ content' = [content EXCEPT ![slot] = store[p] + 1]
        /\ ~ Resident(p)
    BY <1>4, FilledFrame DEF NewPageFill, Install, storeVars, PoolInv, SectionInv
  <2>2. view[p] = store[p]
    BY <1>2, <2>1 DEF view
  <2>3. Array!Changed(p)
    BY <1>2, <2>1, <2>2, ViewChanged DEF PoolInv, TypeOK, FrameTypes, CoreTypes
  <2> QED
    BY <1>2, <2>3 DEF Array!NewPage
<1> QED
  BY <1>3, <1>4

(* A failed read, a write to the store that succeeds or fails, and the     *)
(* end of a flush change nothing a reader sees: what leaves the map is in  *)
(* the store.                                                              *)
LEMMA ViewFlush ==
  ASSUME PoolInv, ContentInv, ChangesAreDirty, NEW t \in Thread,
         \/ FetchFail(t) \/ WritePage(t) \/ WriteFail(t) \/ FlushClean(t)
         \/ ClearDirty(t)
  PROVE  UNCHANGED Array!arrayVars
<1>1. UNCHANGED asked
  BY DEF FetchFail, WritePage, WriteFail, FlushClean, ClearDirty, guardVars
<1>2. CASE FetchFail(t)
  <2>1. /\ \A q \in Page : map[q] # NoFrame => map[q] \in Frame \ {slot}
        /\ UNCHANGED <<map, store>>
        /\ \A f \in Frame \ {slot} : content'[f] = content[f]
    BY <1>2, FilledFrame DEF FetchFail, storeVars, PoolInv, TypeOK, FrameTypes,
         CoreTypes
  <2>2. view' = view
    BY <2>1, ViewKept
  <2> QED
    BY <1>1, <2>2 DEF Array!arrayVars
<1>3. CASE WritePage(t) \/ WriteFail(t)
  <2>1. /\ UNCHANGED <<content, map>> /\ map[key] # NoFrame
        /\ \A q \in Page \ {key} : store'[q] = store[q]
    BY <1>3, FlushedFrame DEF WritePage, WriteFail, FlushLabels, frameVars, coreVars,
         PoolInv, TypeOK, StoreTypes, Resident
  <2>2. view' = view
    BY <2>1, ViewKept
  <2> QED
    BY <1>1, <2>2 DEF Array!arrayVars
<1>4. CASE FlushClean(t) \/ ClearDirty(t)
  <2>1. key \in Page /\ map[key] = slot /\ Resident(key)
    BY <1>4, FlushedFrame DEF FlushClean, ClearDirty, FlushLabels
  <2>2. content[slot] = store[key]
    BY <1>4, <2>1 DEF FlushClean, ClearDirty, ChangesAreDirty, ContentInv, LatchedInv
  <2>3. /\ UNCHANGED <<content, store>>
        /\ map' = map \/ map' = [map EXCEPT ![key] = NoFrame]
    BY <1>4 DEF FlushClean, ClearDirty, AfterFlush, frameVars, storeVars
  <2>4. view' = view
    BY <2>1, <2>2, <2>3, ViewKept DEF PoolInv, TypeOK, CoreTypes
  <2> QED
    BY <1>1, <2>4 DEF Array!arrayVars
<1> QED
  BY <1>2, <1>3, <1>4

(* The client changes a page, or drops a guard.                            *)
LEMMA ViewClient ==
  ASSUME PoolInv, NEW h \in Handle, Mutate(h) \/ Drop(h)
  PROVE  Array!Write(h) \/ Array!Drop(h)
<1>1. /\ held[h] \in Frame /\ asked[h] \in Page /\ map[asked[h]] = held[h]
      /\ Resident(asked[h])
      /\ \A q \in Page : map[q] = held[h] => q = asked[h]
  BY GuardedFrame DEF Mutate, Drop
<1>2. asked[h] # NoPage
  BY <1>1, PoolAssumption
<1>3. CASE Mutate(h)
  <2>1. /\ UNCHANGED <<map, store, asked>>
        /\ content' = [content EXCEPT ![held[h]] = content[held[h]] + 1]
    BY <1>3 DEF Mutate, coreVars, storeVars, guardVars
  <2>2. view[asked[h]] = content[held[h]]
    BY <1>1 DEF view
  <2>3. Array!Changed(asked[h])
    BY <1>1, <2>1, <2>2, ViewChanged DEF PoolInv, TypeOK, FrameTypes, CoreTypes
  <2> QED
    BY <1>2, <2>1, <2>3 DEF Array!Write
<1>4. CASE Drop(h)
  <2>1. view' = view
    BY <1>4, ViewKept DEF Drop, coreVars, storeVars
  <2> QED
    BY <1>2, <1>4, <2>1 DEF Drop, Array!Drop
<1> QED
  BY <1>3, <1>4

(* Every step of the pool is a step of the array, or invisible.            *)
LEMMA ArrayStep ==
  PoolInv /\ ContentInv /\ ChangesAreDirty /\ [Next]_vars => [Array!Next]_(Array!arrayVars)
<1> SUFFICES ASSUME PoolInv, ContentInv, ChangesAreDirty, [Next]_vars
             PROVE  Array!Next \/ UNCHANGED Array!arrayVars
  OBVIOUS
<1>1. ASSUME NEW t \in Thread, PoolStep(t)
      PROVE  Array!Next \/ UNCHANGED Array!arrayVars
  <2>1. CASE FetchHit(t) \/ FetchLoad(t)
    BY <2>1, ViewFetch DEF Array!Next
  <2>2. CASE ResetResident(t) \/ NewPageFill(t)
    BY <2>2, ViewNewPage DEF Array!Next
  <2>3. CASE \/ FetchFail(t) \/ WritePage(t) \/ WriteFail(t) \/ FlushClean(t)
             \/ ClearDirty(t)
    BY <2>3, ViewFlush
  <2>4. CASE \/ NewPageHit(t) \/ TakeFree(t) \/ StartSweep(t) \/ Sweep(t)
             \/ Exhausted(t) \/ FlushStart(t) \/ FlushNext(t) \/ FlushEnd(t)
             \/ FlushDirty(t) \/ SyncOk(t) \/ SyncFail(t)
    BY <2>4, ViewQuiet
  <2> QED
    BY <1>1, <2>1, <2>2, <2>3, <2>4 DEF PoolStep
<1>2. ASSUME NEW h \in Handle, LatchStep(h) \/ ClientStep(h)
      PROVE  Array!Next \/ UNCHANGED Array!arrayVars
  <2>1. CASE Mutate(h) \/ Drop(h)
    BY <2>1, ViewClient DEF Array!Next
  <2>2. CASE CallRead(h) \/ TakeRead(h) \/ CallWrite(h) \/ TakeWrite(h) \/ EndBorrow(h)
    BY <2>2, ViewQuiet
  <2> QED
    BY <1>2, <2>1, <2>2 DEF LatchStep, ClientStep
<1>3. ASSUME \/ UNCHANGED vars
             \/ \E t \in Thread, o \in Ops, p \in Page \cup {NoPage},
                   h \in Handle \cup {NoHandle} : Call(t, o, p, h)
      PROVE  Array!Next \/ UNCHANGED Array!arrayVars
  BY <1>3, ViewQuiet
<1> QED
  BY <1>1, <1>2, <1>3 DEF Next

(* The initial states are those of the array, with no guard open.          *)
LEMMA ArrayInit == Init => Array!Init
<1> SUFFICES ASSUME Init PROVE Array!Init
  OBVIOUS
<1>1. view \in [Page -> Nat]
  BY PoolInvInit, ContentInvInit, ViewTypes
<1> QED
  BY <1>1 DEF Init, Array!Init

(* If no call of write() overlaps a flush, the pool is the plain array of  *)
(* pages PageArray describes: no eviction, flush, failure or reload is     *)
(* visible through a guard, and every change is made through one.          *)
THEOREM PoolIsAnArray == ExclusiveFlush => (Spec => CacheIsTransparent)
<1> SUFFICES ASSUME ExclusiveFlush PROVE Spec => CacheIsTransparent
  OBVIOUS
<1>1. Spec => []ChangesAreDirty
  BY NoChangeIsForgotten
<1>2. Spec => [][Array!Next]_(Array!arrayVars)
  BY <1>1, ArrayStep, PoolInvariant, ContentInvariant, PTL DEF Spec
<1> QED
  BY <1>2, ArrayInit, PTL DEF Spec, CacheIsTransparent, Array!Spec

-----------------------------------------------------------------------------
(* checkpoint.                                                             *)

(* No checkpoint is under way at first.                                    *)
LEMMA GoalInvInit == Init => GoalInv
BY DEF Init, GoalInv, NoCall

(* Changes are never undone: the version of a page only grows.             *)
LEMMA ViewGrows ==
  ASSUME PoolInv, ContentInv, ChangesAreDirty, [Next]_vars, NEW p \in Page
  PROVE  view[p] \in Nat /\ view'[p] \in Nat /\ view'[p] >= view[p]
<1>1. view \in [Page -> Nat]
  BY ViewTypes
<1>2. Array!Next \/ UNCHANGED Array!arrayVars
  BY ArrayStep
<1>3. (\E q : Array!Changed(q)) \/ UNCHANGED view
  BY <1>2 DEF Array!Next, Array!arrayVars, Array!Fetch, Array!NewPage, Array!Write,
       Array!Drop
<1> QED
  BY <1>1, <1>3 DEF Array!Changed

(* The store gets what the view shows, keeps what it has, or is torn.      *)
LEMMA StoreGrows ==
  ASSUME PoolInv, [Next]_vars, NEW p \in Page
  PROVE  store'[p] \in {store[p], view[p], Torn}
<1>1. ASSUME NEW t \in Thread, WritePage(t) \/ WriteFail(t)
      PROVE  store'[p] \in {store[p], view[p], Torn}
  <2>1. key \in Page /\ map[key] = slot /\ Resident(key)
    BY <1>1, FlushedFrame DEF WritePage, WriteFail, FlushLabels
  <2>2. view[key] = content[slot]
    BY <2>1 DEF view
  <2> QED
    BY <1>1, <2>1, <2>2 DEF WritePage, WriteFail, PoolInv, TypeOK, StoreTypes
<1>2. ASSUME NEW t \in Thread, PoolStep(t), ~ WritePage(t), ~ WriteFail(t)
      PROVE  store' = store
  BY <1>2 DEF PoolStep, FetchHit, NewPageHit, ResetResident, TakeFree, StartSweep,
       Sweep, Exhausted, FetchLoad, FetchFail, NewPageFill, FlushStart, FlushNext,
       FlushEnd, FlushClean, FlushDirty, ClearDirty, SyncOk, SyncFail, storeVars
<1>3. ASSUME NEW t \in Thread, NEW o \in Ops, NEW q \in Page \cup {NoPage},
             NEW h \in Handle \cup {NoHandle}, Call(t, o, q, h)
      PROVE  store' = store
  BY <1>3 DEF Call, storeVars
<1>4. ASSUME NEW h \in Handle, LatchStep(h) \/ ClientStep(h) PROVE store' = store
  BY <1>4 DEF LatchStep, ClientStep, CallRead, TakeRead, CallWrite, TakeWrite, Mutate,
       EndBorrow, Drop, guardUnchanged, storeVars
<1>5. CASE UNCHANGED vars
  BY <1>5 DEF vars, storeVars
<1> QED
  BY <1>1, <1>2, <1>3, <1>4, <1>5 DEF Next

(* A checkpoint passes a page only when the store has what the view shows. *)
LEMMA NewlyFlushed ==
  ASSUME PoolInv, ContentInv, ChangesAreDirty, NEW u \in Thread, PoolStep(u),
         NEW t \in Thread, call[t].op = "checkpoint", call'[t].op = "checkpoint",
         NEW p \in Page, Flushed(t, p)', ~ Flushed(t, p)
  PROVE  store'[p] = view[p]
<1>1. pc[t] # "sync" /\ (pc'[t] = "sync" \/ pc'[t] \in CoreLabels)
  BY DEF Flushed, CoreLabels, FlushLabels
<1>2. u = t
  <2> SUFFICES ASSUME u # t PROVE FALSE
    OBVIOUS
  <2>1. pc'[t] = pc[t]
    BY DEF PoolStep, FetchHit, NewPageHit, ResetResident, TakeFree, StartSweep,
         Sweep, Exhausted, FetchLoad, FetchFail, NewPageFill, FlushStart, FlushNext,
         FlushEnd, FlushClean, FlushDirty, WritePage, WriteFail, ClearDirty, SyncOk,
         SyncFail, Install, ReturnGuard, Finish, AfterFlush, Goto, PoolInv, TypeOK,
         CallTypes
  <2>2. pc[t] \in CoreLabels
    BY <1>1, <2>1
  <2>3. core = t
    BY <2>2 DEF PoolInv, CoreInv
  <2>4. SyncOk(u) \/ SyncFail(u)
    BY <2>3, PoolAssumption DEF PoolStep, FetchHit, NewPageHit, ResetResident, TakeFree,
         StartSweep, Sweep, Exhausted, FetchLoad, FetchFail, NewPageFill, FlushStart,
         FlushNext, FlushEnd, FlushClean, FlushDirty, WritePage, WriteFail, ClearDirty,
         AtLock
  <2>5. UNCHANGED <<todo, key>>
    BY <2>4 DEF SyncOk, SyncFail, regVars
  <2> QED
    BY <2>1, <2>5 DEF Flushed
<1>3. ~ Finish(t)
  BY DEF Finish, NoCall, PoolInv, TypeOK, CallTypes
<1>4. CASE FlushStart(t)
  <2>1. ~ Resident(p) /\ store' = store
    BY <1>4 DEF FlushStart, Flushed, Goto, PoolInv, TypeOK, CallTypes, storeVars,
         FlushLabels
  <2> QED
    BY <2>1 DEF view
<1>5. CASE FlushNext(t) \/ FlushEnd(t) \/ FlushDirty(t) \/ WritePage(t)
  BY <1>1, <1>5 DEF FlushNext, FlushEnd, FlushDirty, WritePage, Flushed, FlushLabels,
       Goto, PoolInv, TypeOK, CallTypes, regVars
<1>6. CASE FlushClean(t) \/ ClearDirty(t)
  <2>1. key \in Page /\ map[key] = slot /\ Resident(key) /\ store' = store
    BY <1>6, FlushedFrame DEF FlushClean, ClearDirty, FlushLabels, storeVars
  <2>2. content[slot] = store[key]
    BY <1>6, <2>1 DEF FlushClean, ClearDirty, ChangesAreDirty, ContentInv, LatchedInv
  <2>3. p = key
    BY <1>6 DEF FlushClean, ClearDirty, AfterFlush, Flushed, FlushLabels, FlushOps, Goto,
         PoolInv, TypeOK, CallTypes
  <2> QED
    BY <2>1, <2>2, <2>3 DEF view
<1>7. CASE \/ NewPageHit(t) \/ TakeFree(t) \/ StartSweep(t) \/ Sweep(t)
  BY <1>7 DEF NewPageHit, TakeFree, StartSweep, Sweep, AtLock, PoolInv, CallInv, GuardOps
<1> QED
  BY <1>2, <1>3, <1>4, <1>5, <1>6, <1>7 DEF PoolStep, FetchHit, ResetResident, Exhausted,
     FetchLoad, FetchFail, NewPageFill, WriteFail, SyncOk, SyncFail, Install, ReturnGuard

(* What a checkpoint is for does not change while it runs, and outside     *)
(* the pool's own steps nothing is flushed.                                *)
LEMMA GoalsKept ==
  ASSUME PoolInv, [Next]_vars, NEW t \in Thread,
         call'[t].op = "checkpoint", call[t].op = "checkpoint"
  PROVE  /\ goal'[t] = goal[t]
         /\ \/ \E u \in Thread : PoolStep(u)
            \/ \A p \in Page : Flushed(t, p)' => Flushed(t, p)
<1>1. ASSUME NEW u \in Thread, PoolStep(u) PROVE goal'[t] = goal[t]
  <2>1. UNCHANGED goal \/ Finish(u)
    BY <1>1 DEF PoolStep, FetchHit, NewPageHit, ResetResident, TakeFree, StartSweep,
         Sweep, Exhausted, FetchLoad, FetchFail, NewPageFill, FlushStart, FlushNext,
         FlushEnd, FlushClean, FlushDirty, WritePage, WriteFail, ClearDirty, SyncOk,
         SyncFail, Install, ReturnGuard, historyVars
  <2>2. Finish(u) => u # t
    BY DEF Finish, NoCall, PoolInv, TypeOK, CallTypes
  <2> QED
    BY <2>1, <2>2 DEF Finish, PoolInv, TypeOK, HistoryTypes
<1>2. ASSUME NEW u \in Thread, NEW o \in Ops, NEW q \in Page \cup {NoPage},
             NEW h \in Handle \cup {NoHandle}, Call(u, o, q, h)
      PROVE  goal'[t] = goal[t] /\ \A p \in Page : Flushed(t, p)' => Flushed(t, p)
  <2>1. u # t
    BY <1>2 DEF Call, InClient, PoolInv, CallInv
  <2>2. pc'[t] = pc[t] /\ goal'[t] = goal[t] /\ UNCHANGED <<todo, key>>
    BY <1>2, <2>1 DEF Call, Goto, regVars, PoolInv, TypeOK, CallTypes, HistoryTypes
  <2> QED
    BY <2>2 DEF Flushed
<1>3. ASSUME \/ \E h \in Handle : LatchStep(h) \/ ClientStep(h)
             \/ UNCHANGED vars
      PROVE  goal'[t] = goal[t] /\ \A p \in Page : Flushed(t, p)' => Flushed(t, p)
  <2>1. UNCHANGED <<pc, todo, key, goal>>
    BY <1>3 DEF LatchStep, ClientStep, CallRead, TakeRead, CallWrite, TakeWrite, Mutate,
         EndBorrow, Drop, guardUnchanged, vars, regVars, historyVars
  <2> QED
    BY <2>1 DEF Flushed
<1> QED
  BY <1>1, <1>2, <1>3 DEF Next

(* Where a new checkpoint comes from, and what it starts with.             *)
LEMMA GoalSet ==
  ASSUME PoolInv, [Next]_vars, NEW t \in Thread,
         call'[t].op = "checkpoint", call[t].op # "checkpoint"
  PROVE  goal'[t] = view /\ \A p \in Page : ~ Flushed(t, p)'
<1>1. ASSUME NEW u \in Thread, PoolStep(u) PROVE FALSE
  <2>1. UNCHANGED call \/ Finish(u)
    BY <1>1 DEF PoolStep, FetchHit, NewPageHit, ResetResident, TakeFree, StartSweep,
         Sweep, Exhausted, FetchLoad, FetchFail, NewPageFill, FlushStart, FlushNext,
         FlushEnd, FlushClean, FlushDirty, WritePage, WriteFail, ClearDirty, SyncOk,
         SyncFail, Install, ReturnGuard
  <2> QED
    BY <2>1 DEF Finish, NoCall, PoolInv, TypeOK, CallTypes
<1>2. \/ \E h \in Handle : LatchStep(h) \/ ClientStep(h)
      \/ UNCHANGED vars
      => UNCHANGED call
  BY DEF LatchStep, ClientStep, CallRead, TakeRead, CallWrite, TakeWrite, Mutate,
       EndBorrow, Drop, guardUnchanged, vars
<1>3. PICK u \in Thread, o \in Ops, q \in Page \cup {NoPage},
           h \in Handle \cup {NoHandle} : Call(u, o, q, h)
  BY <1>1, <1>2 DEF Next
<1>4. u = t /\ o = "checkpoint"
  BY <1>3 DEF Call, PoolInv, TypeOK, CallTypes
<1> QED
  BY <1>3, <1>4 DEF Call, Goto, Flushed, FlushLabels, PoolInv, TypeOK, CallTypes,
     HistoryTypes

(* GoalInv is inductive.                                                   *)
LEMMA GoalInvStep ==
  PoolInv /\ ContentInv /\ ChangesAreDirty /\ GoalInv /\ [Next]_vars => GoalInv'
<1> SUFFICES ASSUME PoolInv, ContentInv, ChangesAreDirty, GoalInv, [Next]_vars,
                    NEW t \in Thread, call'[t].op = "checkpoint", NEW p \in Page
             PROVE  /\ view'[p] >= goal'[t][p]
                    /\ Flushed(t, p)' => store'[p] >= goal'[t][p] \/ store'[p] = Torn
  BY DEF GoalInv
<1>1. view[p] \in Nat /\ view'[p] \in Nat /\ view'[p] >= view[p]
  BY ViewGrows
<1>2. CASE call[t].op # "checkpoint"
  BY <1>1, <1>2, GoalSet
<1>3. CASE call[t].op = "checkpoint"
  <2>1. goal'[t] = goal[t] /\ goal[t][p] \in Int /\ store[p] \in Int
    BY <1>3, GoalsKept DEF PoolInv, TypeOK, HistoryTypes, StoreTypes, Version, Torn
  <2>2. view[p] >= goal[t][p]
    BY <1>3 DEF GoalInv
  <2>3. ASSUME Flushed(t, p)'
        PROVE  store'[p] >= goal[t][p] \/ store'[p] = Torn
    <3>1. CASE Flushed(t, p)
      <4>1. store[p] >= goal[t][p] \/ store[p] = Torn
        BY <1>3, <3>1 DEF GoalInv
      <4>2. store'[p] \in {store[p], view[p], Torn}
        BY StoreGrows
      <4> QED
        BY <2>2, <4>1, <4>2
    <3>2. CASE ~ Flushed(t, p)
      <4>1. \E u \in Thread : PoolStep(u)
        BY <1>3, <2>3, <3>2, GoalsKept
      <4>2. store'[p] = view[p]
        BY <1>3, <2>3, <3>2, <4>1, NewlyFlushed
      <4> QED
        BY <2>2, <4>2
    <3> QED
      BY <3>1, <3>2
  <2> QED
    BY <1>1, <2>1, <2>2, <2>3
<1> QED
  BY <1>2, <1>3

(* If no call of write() overlaps a flush, a checkpoint that returns Ok    *)
(* has made durable whatever readers saw when it was called, although      *)
(* other threads evict, flush and change pages meanwhile.                  *)
THEOREM CheckpointsAreDurable == ExclusiveFlush => (Spec => CheckpointDurable)
<1> SUFFICES ASSUME ExclusiveFlush PROVE Spec => CheckpointDurable
  OBVIOUS
<1>1. Spec => []ChangesAreDirty
  BY NoChangeIsForgotten
<1>2. Spec => []GoalInv
  BY <1>1, GoalInvInit, GoalInvStep, PoolInvariant, ContentInvariant, PTL DEF Spec
<1>3. ASSUME GoalInv, NEW t \in Thread, SyncOk(t), call[t].op = "checkpoint",
             NEW p \in Page
      PROVE  durable'[p] >= goal[t][p] \/ durable'[p] = Torn
  BY <1>3 DEF GoalInv, SyncOk, Flushed
<1>4. GoalInv => [\A t \in Thread :
                    SyncOk(t) /\ call[t].op = "checkpoint" =>
                      \A p \in Page : durable'[p] >= goal[t][p] \/ durable'[p] = Torn]_vars
  BY <1>3
<1> QED
  BY <1>2, <1>4, PTL DEF CheckpointDurable

-----------------------------------------------------------------------------
(* The clock sweep of find_victim, with guards being dropped under the     *)
(* hand, and who waits for whom.                                           *)

-----------------------------------------------------------------------------
(* The hand and the frames it has passed.                                  *)

(* The hand moves to the next frame, from the last one to the first.       *)
LEMMA HandMoves ==
  ASSUME hand \in Frame
  PROVE  NextHand = IF hand + 1 = capacity THEN 0 ELSE hand + 1
<1>1. hand + 1 \in Nat /\ hand + 1 <= capacity
  BY PoolAssumption DEF Frame
<1>2. CASE hand + 1 = capacity
  BY <1>2, PoolAssumption DEF NextHand
<1>3. CASE hand + 1 < capacity
  BY <1>1, <1>3, PoolAssumption DEF NextHand
<1> QED
  BY <1>1, <1>2, <1>3, PoolAssumption

(* Nothing is passed when a sweep begins, everything is after one round,   *)
(* everything twice after two.                                             *)
LEMMA PassedBounds ==
  ASSUME hand \in Frame, steps \in 0 .. SweepLimit
  PROVE  /\ steps = 0 => Swept = {} /\ SweptTwice = {}
         /\ hand \in Swept => Swept = Frame
         /\ steps = SweepLimit => SweptTwice = Frame
BY PoolAssumption DEF Swept, SweptTwice, Passed, Frame, SweepLimit

(* A step of the hand passes the frame it was on.                          *)
LEMMA PassedStep ==
  ASSUME hand \in Frame, steps \in 0 .. SweepLimit, hand' = NextHand,
         steps' = steps + 1
  PROVE  /\ Swept' = Swept \cup {hand}
         /\ SweptTwice' = SweptTwice \cup (Swept \cap {hand})
<1>1. hand' = IF hand + 1 = capacity THEN 0 ELSE hand + 1
  BY HandMoves
<1>2. capacity \in Nat \ {0} /\ hand \in 0 .. capacity - 1 /\ steps \in Nat
  BY PoolAssumption DEF Frame, SweepLimit
<1>3. ASSUME NEW f \in Frame PROVE f \in Swept' <=> f \in Swept \cup {hand}
  <2>1. f \in 0 .. capacity - 1
    BY DEF Frame
  <2> QED
    BY <1>1, <1>2, <2>1 DEF Swept, Passed, Frame
<1>4. ASSUME NEW f \in Frame
      PROVE  f \in SweptTwice' <=> f \in SweptTwice \cup (Swept \cap {hand})
  <2>1. f \in 0 .. capacity - 1
    BY DEF Frame
  <2> QED
    BY <1>1, <1>2, <2>1 DEF Swept, SweptTwice, Passed, Frame
<1>5. Swept' \subseteq Frame /\ SweptTwice' \subseteq Frame
  BY DEF Swept, SweptTwice, Passed, Frame
<1> QED
  BY <1>3, <1>4, <1>5 DEF Swept, SweptTwice, Passed

-----------------------------------------------------------------------------
(* ClockInv.                                                               *)

(* No frame is pinned at first.                                            *)
LEMMA ClockInvInit == Init => ClockInv
BY DEF Init, ClockInv, PinnedIsReferenced, StepsCleared, SweepInv, VictimWasCold, NoCall

(* The labels at which a call relies on a sweep.                           *)
SweepLabels == {"sweep"} \cup FlushLabels

(* Outside a sweep only the reference bits matter.                         *)
LEMMA ClockIdle ==
  ASSUME PinnedIsReferenced', StepsCleared',
         \A t \in Thread : pc'[t] \in SweepLabels =>
           pc'[t] # "sweep" /\ call'[t].op \in FlushOps
  PROVE  ClockInv'
BY DEF ClockInv, SweepInv, VictimWasCold, SweepLabels, FlushLabels, FlushOps

(* A sweep survives whatever leaves the clock alone and lowers pins.       *)
LEMMA ClockKept ==
  ASSUME ClockInv, UNCHANGED <<core, hand, steps, slot, pinned0, cold0, referenced>>,
         cold0 \subseteq Frame, pin \in [Frame -> Nat], pin' \in [Frame -> Nat],
         \A f \in Frame : pin'[f] <= pin[f],
         \A t \in Thread : core = t /\ pc'[t] \in SweepLabels =>
           /\ pc[t] \in SweepLabels /\ call'[t].op = call[t].op
           /\ pc'[t] = "sweep" => pc[t] = "sweep"
           /\ pc[t] = "sweep" => pc'[t] = "sweep",
         \A t \in Thread : pc'[t] = "sweep" => core = t
  PROVE  ClockInv'
<1>1. PinnedIsReferenced' /\ StepsCleared'
  BY DEF ClockInv, PinnedIsReferenced, StepsCleared
<1>2. Swept' = Swept /\ SweptTwice' = SweptTwice
  BY DEF Swept, SweptTwice, Passed
<1>3. \A f \in Frame : pin[f] = 0 => pin'[f] = 0
  OBVIOUS
<1>4. ASSUME NEW t \in Thread, pc'[t] = "sweep"
      PROVE  /\ \A f \in Frame \ pinned0 : pin'[f] = 0
             /\ \A f \in Swept \ pinned0 : ~ referenced[f]
             /\ SweptTwice \subseteq pinned0
             /\ \A f \in cold0 : f \notin Swept /\ pin[f] = 0 /\ ~ referenced[f]
             /\ \A f \in Frame \ (Swept \cup cold0) : referenced[f]
  <2>1. pc[t] = "sweep"
    BY <1>4 DEF SweepLabels
  <2> QED
    BY <1>3, <2>1 DEF ClockInv, SweepInv
<1>5. SweepInv'
  BY <1>2, <1>4, <1>3 DEF SweepInv
<1>6. VictimWasCold'
  BY DEF ClockInv, VictimWasCold, SweepLabels, FlushLabels
<1> QED
  BY <1>1, <1>5, <1>6 DEF ClockInv

(* Calls, guards and syncs, during another thread's sweep or not.          *)
LEMMA ClockOutside ==
  ASSUME PoolInv, PoolInv', ClockInv,
         \/ \E t \in Thread : SyncOk(t) \/ SyncFail(t)
         \/ \E t \in Thread, o \in Ops, p \in Page \cup {NoPage},
               h \in Handle \cup {NoHandle} : Call(t, o, p, h)
         \/ \E h \in Handle : LatchStep(h) \/ ClientStep(h)
         \/ UNCHANGED vars
  PROVE  ClockInv'
<1>1. UNCHANGED <<core, hand, steps, slot, pinned0, cold0, referenced>>
  BY DEF SyncOk, SyncFail, Call, LatchStep, ClientStep, CallRead, TakeRead, CallWrite,
       TakeWrite, Mutate, EndBorrow, Drop, guardUnchanged, vars, frameVars, coreVars,
       regVars, historyVars
<1>2. \A f \in Frame : pin'[f] <= pin[f]
  BY DEF SyncOk, SyncFail, Call, LatchStep, ClientStep, CallRead, TakeRead, CallWrite,
       TakeWrite, Mutate, EndBorrow, Drop, guardUnchanged, vars, frameVars, PoolInv,
       TypeOK, FrameTypes, GuardTypes
<1>3. ASSUME NEW t \in Thread, core = t
      PROVE  pc'[t] = pc[t] /\ call'[t] = call[t]
  <2>1. pc[t] \in CoreLabels
    BY <1>3 DEF PoolInv, CoreInv
  <2>2. pc[t] # "sync" /\ pc[t] # "client"
    BY <2>1 DEF CoreLabels
  <2> QED
    BY <2>2 DEF SyncOk, SyncFail, Finish, Call, InClient, Goto, LatchStep, ClientStep,
         CallRead, TakeRead, CallWrite, TakeWrite, Mutate, EndBorrow, Drop,
         guardUnchanged, vars, PoolInv, TypeOK, CallTypes
<1>4. \A t \in Thread : pc'[t] = "sweep" => core = t
  BY <1>1 DEF PoolInv, CoreInv, CoreLabels
<1> QED
  BY <1>1, <1>2, <1>3, <1>4, ClockKept DEF PoolInv, TypeOK, FrameTypes, HistoryTypes

(* A guard comes with a set reference bit, and core is unlocked.           *)
LEMMA ClockReturns ==
  ASSUME PoolInv, PoolInv', ClockInv, NEW t \in Thread,
         \/ FetchHit(t) \/ ResetResident(t) \/ FetchLoad(t) \/ NewPageFill(t)
         \/ FetchFail(t) \/ Exhausted(t) \/ FlushEnd(t) \/ WriteFail(t)
  PROVE  ClockInv'
<1>1. Unlock
  BY DEF FetchHit, ResetResident, FetchLoad, NewPageFill, FetchFail, Exhausted, FlushEnd,
       WriteFail, Install, ReturnGuard
<1>2. \A u \in Thread : pc'[u] \notin SweepLabels
  BY <1>1, PoolAssumption DEF Unlock, PoolInv, CoreInv, CoreLabels, SweepLabels, FlushLabels
<1>3. StepsCleared'
  BY <1>1 DEF Unlock, StepsCleared
<1>4. PinnedIsReferenced'
  <2>1. ASSUME NEW f \in Frame
        PROVE  \/ referenced'[f]
               \/ referenced'[f] = referenced[f] /\ pin'[f] = pin[f]
    BY DEF FetchHit, ResetResident, FetchLoad, NewPageFill, FetchFail, Exhausted, FlushEnd,
         WriteFail, Install, Pin, frameVars, PoolInv, TypeOK, FrameTypes
  <2> QED
    BY <2>1 DEF ClockInv, PinnedIsReferenced
<1> QED
  BY <1>2, <1>3, <1>4, ClockIdle

(* Entering a critical section that does not sweep, and the loop of        *)
(* flush_all.                                                              *)
LEMMA ClockEnters ==
  ASSUME PoolInv, PoolInv', ClockInv, NEW t \in Thread,
         NewPageHit(t) \/ TakeFree(t) \/ FlushStart(t) \/ FlushNext(t)
  PROVE  ClockInv'
<1>1. /\ UNCHANGED <<pin, referenced, steps>>
      /\ core' = t
      /\ pc'[t] \in SweepLabels => pc'[t] # "sweep" /\ call'[t].op \in FlushOps
  BY DEF NewPageHit, TakeFree, FlushStart, FlushNext, AtLock, Goto, frameVars, SweepLabels,
       FlushLabels, PoolInv, TypeOK, CallTypes, CallInv
<1>2. PinnedIsReferenced' /\ StepsCleared'
  BY <1>1, PoolAssumption DEF ClockInv, PinnedIsReferenced, StepsCleared
<1>3. \A u \in Thread : pc'[u] \in SweepLabels => u = t
  BY <1>1 DEF PoolInv, CoreInv, CoreLabels, SweepLabels, FlushLabels
<1> QED
  BY <1>1, <1>2, <1>3, ClockIdle

(* The sweep begins: it has passed nothing, and whatever is not cold has   *)
(* its reference bit.                                                      *)
LEMMA ClockStarts ==
  ASSUME PoolInv, PoolInv', ClockInv, NEW t \in Thread, StartSweep(t)
  PROVE  ClockInv'
<1>1. /\ UNCHANGED <<pin, referenced, hand, steps>> /\ core = NoThread /\ core' = t
      /\ pinned0' = {f \in Frame : pin[f] > 0}
      /\ cold0' = {f \in Frame : pin[f] = 0 /\ ~ referenced[f]}
      /\ pc'[t] = "sweep"
  BY DEF StartSweep, AtLock, Goto, frameVars, coreVars, regVars, PoolInv, TypeOK, CallTypes
<1>2. steps = 0 /\ steps' = 0 /\ hand' \in Frame
  BY <1>1 DEF ClockInv, StepsCleared, PoolInv, TypeOK, CoreTypes
<1>3. Swept' = {} /\ SweptTwice' = {}
  <2>1. Swept = {} /\ SweptTwice = {}
    BY <1>2, PassedBounds DEF PoolInv, TypeOK, CoreTypes, SectionTypes
  <2> QED
    BY <1>1, <2>1 DEF Swept, SweptTwice, Passed
<1>4. PinnedIsReferenced' /\ StepsCleared'
  BY <1>1, <1>2, PoolAssumption DEF ClockInv, PinnedIsReferenced, StepsCleared
<1>5. \A f \in Frame : pin[f] \in Nat /\ (pin[f] > 0 => referenced[f])
  BY DEF PoolInv, TypeOK, FrameTypes, ClockInv, PinnedIsReferenced
<1>6. SweepInv'
  BY <1>1, <1>3, <1>5 DEF SweepInv
<1>7. VictimWasCold'
  BY <1>1 DEF VictimWasCold, PoolInv, CoreInv
<1> QED
  BY <1>4, <1>6, <1>7 DEF ClockInv

(* One turn of the hand.                                                   *)
LEMMA ClockSweeps ==
  ASSUME PoolInv, PoolInv', ClockInv, NEW t \in Thread, Sweep(t)
  PROVE  ClockInv'
<1>1. /\ core = t /\ core' = t /\ pc[t] = "sweep" /\ hand \in Frame
      /\ steps \in 0 .. SweepLimit
      /\ UNCHANGED <<pin, pinned0, cold0, call>>
  BY DEF Sweep, PoolInv, TypeOK, CoreTypes, SectionTypes, historyVars
<1>2. /\ Swept' = Swept \cup {hand}
      /\ SweptTwice' = SweptTwice \cup (Swept \cap {hand})
  BY <1>1, PassedStep DEF Sweep
<1>3. /\ \A f \in Frame \ pinned0 : pin[f] = 0
      /\ \A f \in Swept \ pinned0 : ~ referenced[f]
      /\ SweptTwice \subseteq pinned0
      /\ \A f \in cold0 : f \notin Swept /\ pin[f] = 0 /\ ~ referenced[f]
      /\ \A f \in Frame \ (Swept \cup cold0) : referenced[f]
  BY <1>1 DEF ClockInv, SweepInv
<1>4. Swept \subseteq Frame /\ cold0 \subseteq Frame /\ referenced \in [Frame -> BOOLEAN]
  BY DEF Swept, Passed, PoolInv, TypeOK, HistoryTypes, FrameTypes
<1>5. \A u \in Thread : core' = u => u = t
  BY <1>1
<1>6. StepsCleared'
  BY <1>1, PoolAssumption DEF StepsCleared
<1>7. \A u \in Thread : pc'[u] = "sweep" => u = t
  BY <1>5 DEF PoolInv, CoreInv, CoreLabels
<1>8. CASE Pinned(hand)
  <2>1. UNCHANGED <<referenced, pc>> /\ pin[hand] > 0
    BY <1>8 DEF Sweep, Pinned
  <2>2. PinnedIsReferenced'
    BY <1>1, <2>1 DEF ClockInv, PinnedIsReferenced
  <2>3. hand \in pinned0 /\ hand \notin cold0
    BY <1>1, <1>3, <2>1
  <2>4. SweepInv'
    BY <1>1, <1>2, <1>3, <2>1, <2>3 DEF SweepInv
  <2>5. VictimWasCold'
    BY <1>1, <2>1 DEF VictimWasCold
  <2> QED
    BY <1>6, <2>2, <2>4, <2>5 DEF ClockInv
<1>9. CASE ~ Pinned(hand) /\ SecondChance(hand)
  <2>1. /\ referenced' = [referenced EXCEPT ![hand] = FALSE]
        /\ UNCHANGED pc /\ pin[hand] = 0 /\ referenced[hand]
    BY <1>1, <1>9 DEF Sweep, Pinned, SecondChance, PoolInv, TypeOK, FrameTypes
  <2>2. PinnedIsReferenced'
    BY <1>1, <1>4, <2>1 DEF ClockInv, PinnedIsReferenced
  <2>3. hand \in Swept => hand \in pinned0
    BY <1>3, <2>1
  <2>4. hand \notin cold0
    BY <1>3, <2>1
  <2>5. SweepInv'
    BY <1>1, <1>2, <1>3, <1>4, <2>1, <2>3, <2>4 DEF SweepInv
  <2>6. VictimWasCold'
    BY <1>1, <2>1 DEF VictimWasCold
  <2> QED
    BY <1>6, <2>2, <2>5, <2>6 DEF ClockInv
<1>10. CASE ~ Pinned(hand) /\ ~ SecondChance(hand)
  <2>1. /\ UNCHANGED referenced /\ slot' = hand /\ pc'[t] = "flush_slot"
        /\ ~ referenced[hand]
    BY <1>10 DEF Sweep, Goto, SecondChance, PoolInv, TypeOK, CallTypes
  <2>2. PinnedIsReferenced'
    BY <1>1, <2>1 DEF ClockInv, PinnedIsReferenced
  <2>3. SweepInv'
    BY <1>7, <2>1 DEF SweepInv
  <2>4. VictimWasCold'
    <3>1. hand \in cold0 \/ cold0 = {}
      <4>1. hand \in Swept => cold0 = {}
        BY <1>1, <1>3, <1>4, PassedBounds
      <4> QED
        BY <1>1, <1>3, <2>1, <4>1
    <3> QED
      BY <1>1, <2>1, <3>1 DEF VictimWasCold
  <2> QED
    BY <1>6, <2>2, <2>3, <2>4 DEF ClockInv
<1> QED
  BY <1>8, <1>9, <1>10

(* The flush of a victim, or of a page flush_all has come to.              *)
LEMMA ClockFlushes ==
  ASSUME PoolInv, PoolInv', ClockInv, NEW t \in Thread,
         FlushClean(t) \/ FlushDirty(t) \/ WritePage(t) \/ ClearDirty(t)
  PROVE  ClockInv'
<1>1. /\ core = t /\ core' = t /\ pc[t] \in FlushLabels
      /\ UNCHANGED <<pin, referenced, steps, pinned0, cold0, call>>
  BY DEF FlushClean, FlushDirty, WritePage, ClearDirty, FlushLabels, frameVars, regVars,
       historyVars
<1>2. /\ pc'[t] # "sweep"
      /\ pc'[t] \in FlushLabels => slot' = slot
  BY DEF FlushClean, FlushDirty, WritePage, ClearDirty, AfterFlush, FlushLabels, Goto,
       regVars, PoolInv, TypeOK, CallTypes
<1>3. PinnedIsReferenced' /\ StepsCleared'
  BY <1>1, PoolAssumption DEF ClockInv, PinnedIsReferenced, StepsCleared
<1>4. \A u \in Thread : pc'[u] = "sweep" => u = t
  BY <1>1 DEF PoolInv, CoreInv, CoreLabels
<1>5. SweepInv'
  BY <1>2, <1>4 DEF SweepInv
<1>6. VictimWasCold'
  BY <1>1, <1>2 DEF ClockInv, VictimWasCold, FlushLabels
<1> QED
  BY <1>3, <1>5, <1>6 DEF ClockInv

(* ClockInv is inductive, on top of PoolInv.                               *)
LEMMA ClockInvStep == PoolInv /\ PoolInv' /\ ClockInv /\ [Next]_vars => ClockInv'
<1> SUFFICES ASSUME PoolInv, PoolInv', ClockInv, [Next]_vars PROVE ClockInv'
  OBVIOUS
<1>1. ASSUME NEW t \in Thread, PoolStep(t) PROVE ClockInv'
  BY <1>1, ClockOutside, ClockReturns, ClockEnters, ClockStarts, ClockSweeps,
     ClockFlushes DEF PoolStep
<1>2. CASE ~ \E t \in Thread : PoolStep(t)
  BY <1>2, ClockOutside DEF Next
<1> QED
  BY <1>1, <1>2

(* What a sweep knows of the frames it has passed, whatever guards are     *)
(* dropped meanwhile.                                                      *)
THEOREM ClockInvariant == Spec => []ClockInv
BY ClockInvInit, ClockInvStep, PoolInvariant, PTL DEF Spec

(* find_victim returns BufferPoolExhausted after two rounds only if all    *)
(* frames were pinned when it started.                                     *)
THEOREM ExhaustionIsReal == Spec => []ExhaustedMeansAllPinned
<1>1. PoolInv /\ ClockInv => ExhaustedMeansAllPinned
  <2> SUFFICES ASSUME PoolInv, ClockInv, NEW t \in Thread,
                      pc[t] = "sweep", steps = SweepLimit
               PROVE  pinned0 = Frame
    BY DEF ExhaustedMeansAllPinned
  <2>1. SweptTwice = Frame
    BY PassedBounds DEF PoolInv, TypeOK, CoreTypes, SectionTypes
  <2> QED
    BY <2>1 DEF ClockInv, SweepInv, PoolInv, TypeOK, HistoryTypes
<1> QED
  BY <1>1, PoolInvariant, ClockInvariant, PTL

(* The victim was unpinned and unreferenced when the sweep began, if any   *)
(* frame was.                                                              *)
THEOREM VictimsAreCold == Spec => []VictimWasCold
<1>1. ClockInv => VictimWasCold
  BY DEF ClockInv
<1> QED
  BY <1>1, ClockInvariant, PTL

-----------------------------------------------------------------------------
(* Who waits for whom, when clients hold no borrow while they enter the    *)
(* pool or ask for another one.                                            *)

(* Nobody has a borrow at first.                                           *)
LEMMA OneBorrowInit == Init => OneBorrow
BY DEF Init, OneBorrow

(* OneBorrow is inductive, on top of PoolInv.                              *)
LEMMA OneBorrowStep ==
  ShortBorrows /\ PoolInv /\ OneBorrow /\ [Next]_vars => OneBorrow'
<1> SUFFICES ASSUME ShortBorrows, PoolInv, OneBorrow, [Next]_vars PROVE OneBorrow'
  OBVIOUS
<1>1. ASSUME NEW t \in Thread, PoolStep(t) PROVE OneBorrow'
  <2>1. pc[t] # "client"
    BY <1>1 DEF PoolStep, FetchHit, NewPageHit, ResetResident, TakeFree, StartSweep,
         Sweep, Exhausted, FetchLoad, FetchFail, NewPageFill, FlushStart, FlushNext,
         FlushEnd, FlushClean, FlushDirty, WritePage, WriteFail, ClearDirty, SyncOk,
         SyncFail, AtLock
  <2>2. UNCHANGED borrow /\ \A u \in Thread \ {t} : pc'[u] = pc[u]
    BY <1>1 DEF PoolStep, FetchHit, NewPageHit, ResetResident, TakeFree, StartSweep,
         Sweep, Exhausted, FetchLoad, FetchFail, NewPageFill, FlushStart, FlushNext,
         FlushEnd, FlushClean, FlushDirty, WritePage, WriteFail, ClearDirty, SyncOk,
         SyncFail, Install, ReturnGuard, Finish, AfterFlush, Goto, guardVars, PoolInv,
         TypeOK, CallTypes
  <2> QED
    BY <2>1, <2>2, HandleOwner DEF OneBorrow
<1>2. ASSUME NEW t \in Thread,
             InClient(t), Borrows(t) = {}, NEW h \in Handle, Owner(h) = t
      PROVE  borrow[h] = "none"
  BY <1>2 DEF InClient, Borrows, PoolInv, TypeOK, GuardTypes
<1>3. ASSUME NEW t \in Thread, NEW o \in Ops, NEW p \in Page \cup {NoPage},
             NEW h \in Handle \cup {NoHandle}, Call(t, o, p, h)
      PROVE  OneBorrow'
  <2>1. /\ InClient(t) /\ Borrows(t) = {} /\ UNCHANGED borrow
        /\ \A u \in Thread \ {t} : pc'[u] = pc[u]
    BY <1>3 DEF Call, Goto, guardVars, PoolInv, TypeOK, CallTypes
  <2> QED
    BY <1>2, <2>1, HandleOwner DEF OneBorrow
<1>4. ASSUME NEW h \in Handle, CallRead(h) \/ CallWrite(h) PROVE OneBorrow'
  <2>1. /\ InClient(Owner(h)) /\ Borrows(Owner(h)) = {} /\ pc' = pc
        /\ \A g \in Handle \ {h} : borrow'[g] = borrow[g]
    BY <1>4 DEF CallRead, CallWrite, MayBorrow, SetBorrow, guardUnchanged, PoolInv,
         TypeOK, GuardTypes
  <2>2. pc[Owner(h)] = "client"
    BY <2>1 DEF InClient
  <2>3. \A g \in Handle : Owner(g) = Owner(h) => borrow[g] = "none"
    BY <1>2, <2>1, HandleOwner
  <2> QED
    BY <2>1, <2>2, <2>3, HandleOwner DEF OneBorrow
<1>5. ASSUME NEW h \in Handle,
             TakeRead(h) \/ TakeWrite(h) \/ Mutate(h) \/ EndBorrow(h) \/ Drop(h)
      PROVE  OneBorrow'
  <2>1. /\ pc' = pc
        /\ \A g \in Handle : borrow'[g] # "none" => borrow[g] # "none"
    BY <1>5 DEF TakeRead, TakeWrite, Mutate, EndBorrow, Drop, SetBorrow, guardUnchanged,
         guardVars, PoolInv, TypeOK, GuardTypes
  <2> QED
    BY <2>1 DEF OneBorrow
<1>6. CASE UNCHANGED vars
  BY <1>6 DEF vars, guardVars, OneBorrow
<1> QED
  BY <1>1, <1>3, <1>4, <1>5, <1>6 DEF Next, LatchStep, ClientStep

(* The owner of core waits for nobody, or for a thread that waits for      *)
(* nobody.                                                                 *)
LEMMA OneBorrowNoDeadlock == PoolInv /\ OneBorrow => CoreNotDeadlocked
<1> SUFFICES ASSUME PoolInv, OneBorrow, NEW D \in SUBSET Thread, core \in D
             PROVE  \E t \in D : WaitsFor(t) \cap D = {}
  BY DEF CoreNotDeadlocked
<1>1. core \in Thread /\ pc[core] \in CoreLabels
  BY DEF PoolInv, CoreInv
<1>2. pc[core] # "client" /\ pc[core] # "lock"
  BY <1>1 DEF CoreLabels
<1>3. ASSUME NEW u \in WaitsFor(core)
      PROVE  \E h \in Handle : Owner(h) = u /\ borrow[h] \in {"read", "write"}
  <2>1. \A h \in Handle : Owner(h) = core => borrow[h] = "none"
    BY <1>2 DEF OneBorrow
  <2>2. /\ pc[core] \in {"latch", "reset", "fill"}
        /\ u \in LatchHolders(slot, {"read", "write"})
    BY <1>2, <1>3, <2>1 DEF WaitsFor
  <2> QED
    BY <2>2 DEF LatchHolders, Holders
<1>4. ASSUME NEW h \in Handle, borrow[h] \in {"read", "write"}
      PROVE  WaitsFor(Owner(h)) = {}
  <2>1. /\ pc[Owner(h)] = "client" /\ Owner(h) # core
        /\ \A g \in Handle : Owner(g) = Owner(h) =>
             borrow[g] # "want_read" /\ borrow[g] # "want_write"
    BY <1>2, <1>4 DEF OneBorrow
  <2>2. /\ {g \in Handle : Owner(g) = Owner(h) /\ borrow[g] = "want_read"} = {}
        /\ {g \in Handle : Owner(g) = Owner(h) /\ borrow[g] = "want_write"} = {}
    BY <2>1
  <2> QED
    BY <2>1, <2>2 DEF WaitsFor
<1>5. CASE WaitsFor(core) \cap D = {}
  BY <1>5
<1>6. CASE WaitsFor(core) \cap D # {}
  BY <1>3, <1>4, <1>6
<1> QED
  BY <1>5, <1>6

(* If clients hold no borrow when they enter the pool or borrow again, the *)
(* thread that has core locked is never in a set of threads that all wait  *)
(* for one another, for any number of threads, guards and frames.          *)
THEOREM CoreIsNotDeadlocked == ShortBorrows => (Spec => []CoreNotDeadlocked)
<1> SUFFICES ASSUME ShortBorrows PROVE Spec => []CoreNotDeadlocked
  OBVIOUS
<1>1. PoolInv /\ OneBorrow /\ [Next]_vars => OneBorrow'
  BY OneBorrowStep
<1> QED
  BY <1>1, OneBorrowInit, OneBorrowNoDeadlock, PoolInvariant, PTL DEF Spec

=============================================================================
