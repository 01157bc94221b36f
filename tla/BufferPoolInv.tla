---------------------------- MODULE BufferPoolInv ----------------------------
(***************************************************************************)
(* The inductive invariants behind the properties of BufferPool: what is   *)
(* true between the steps of a critical section, and not only when core is *)
(* unlocked.  The others build on PoolInv.                                 *)
(***************************************************************************)
EXTENDS BufferPool

(* The labels at which a thread has core locked.                           *)
CoreLabels == {"reset", "fill", "sweep", "flush_loop", "flush_slot", "latch",
               "clear"}
FlushLabels == {"flush_slot", "latch", "clear"}
GuardOps == {"fetch", "new_page"}

(* One thread at a time is in a critical section, and it owns core.        *)
CoreInv ==
  \A t \in Thread : core = t <=> pc[t] \in CoreLabels

(* A call has its arguments, and where it is fits what it is.              *)
CallInv ==
  \A t \in Thread :
     /\ pc[t] = "client" <=> call[t].op = "none"
     /\ pc[t] \in {"fill", "sweep"} => call[t].op \in GuardOps
     /\ pc[t] = "reset" => call[t].op = "new_page"
     /\ pc[t] = "flush_loop" => call[t].op \in FlushOps
     /\ pc[t] \in FlushLabels => call[t].op \in GuardOps \cup FlushOps
     /\ call[t].op \in GuardOps => /\ call[t].page \in Page
                                   /\ call[t].dst \in Handle
                                   /\ Owner(call[t].dst) = t
                                   /\ held[call[t].dst] = NoFrame

(* What the owner of core relies on from one step to the next.             *)
SectionInv ==
  \A t \in Thread :
     /\ pc[t] = "reset" => slot \in Frame /\ map[call[t].page] = slot
     /\ pc[t] = "fill" => /\ slot \in Frame /\ pin[slot] = 0
                          /\ ~ Resident(call[t].page)
     /\ pc[t] = "sweep" => free = {} /\ ~ Resident(call[t].page)
     /\ pc[t] \in FlushLabels =>
          /\ slot \in Frame /\ key \in Page /\ map[key] = slot
          /\ call[t].op \in GuardOps =>
               pin[slot] = 0 /\ free = {} /\ ~ Resident(call[t].page)
     /\ pc[t] \in FlushLabels \cup {"flush_loop"} /\ call[t].op \in FlushOps =>
          \A p \in todo : Resident(p)

(* An unused guard points nowhere; a free frame is not pinned.             *)
IdleInv ==
  /\ \A h \in Handle :
       held[h] = NoFrame => asked[h] = NoPage /\ borrow[h] = "none"
  /\ \A f \in free : pin[f] = 0

PoolInv ==
  /\ TypeOK
  /\ CoreInv /\ CallInv /\ SectionInv /\ IdleInv
  /\ FramesAccountedFor
  /\ PinsCountGuards
  /\ GuardShowsItsPage

-----------------------------------------------------------------------------
(* What is in the frames and in the store.                                 *)

(* The bytes of a resident page are a page.                                *)
ResidentIsWhole ==
  \A p \in Page : Resident(p) => content[map[p]] \in Nat \ {Absent}

(* From its look at the dirty bit until it clears the bit a flush is alone *)
(* with it; with the latch it is alone with the bytes, too.                *)
LatchedInv ==
  \A t \in Thread :
     /\ pc[t] \in {"latch", "clear"} => dirty[slot]
     /\ pc[t] = "clear" => store[key] = content[slot] /\ Unborrowed(slot)

ContentInv == TornPageStaysDirty /\ ResidentIsWhole /\ LatchedInv

(* With clients that keep flushes and calls of write() apart: whoever may  *)
(* change a page has set its dirty bit, and it is still set.               *)
NoWriterWaits ==
  (\E t \in Thread : call[t].op \in FlushOps)
     => \A h \in Handle : borrow[h] # "want_write"

WritersAreDirty ==
  \A h \in Handle : borrow[h] \in {"want_write", "write"} => dirty[held[h]]

DirtyInv == NoWriterWaits /\ WritersAreDirty /\ ChangesAreDirty

(* What a checkpoint has already dealt with is in the store, as new as     *)
(* when it was called, and stays so.                                       *)
Flushed(t, p) ==
  \/ pc[t] = "sync"
  \/ pc[t] = "flush_loop" /\ p \notin todo
  \/ pc[t] \in FlushLabels /\ p \notin todo \cup {key}

GoalInv ==
  \A t \in Thread : call[t].op = "checkpoint" =>
    \A p \in Page :
      /\ view[p] >= goal[t][p]
      /\ Flushed(t, p) => store[p] >= goal[t][p] \/ store[p] = Torn

-----------------------------------------------------------------------------
(* The sweep.                                                              *)

(* The frames the hand has passed in this sweep, and those it has passed   *)
(* twice.                                                                  *)
Passed(laps) ==
  {f \in Frame : \/ f < hand /\ f >= hand + (laps - 1) * capacity - steps
                 \/ f >= hand + laps * capacity - steps}
Swept      == Passed(1)
SweptTwice == Passed(2)

(* A page in use has its reference bit.                                    *)
PinnedIsReferenced == \A f \in Frame : pin[f] > 0 => referenced[f]

(* What a sweep knows of the frames the hand has passed and has yet to     *)
(* pass, although guards are dropped meanwhile.                            *)
SweepInv ==
  \A t \in Thread : pc[t] = "sweep" =>
    /\ \A f \in Frame \ pinned0 : pin[f] = 0
    /\ \A f \in Swept \ pinned0 : ~ referenced[f]
    /\ SweptTwice \subseteq pinned0
    /\ \A f \in cold0 : f \notin Swept /\ pin[f] = 0 /\ ~ referenced[f]
    /\ \A f \in Frame \ (Swept \cup cold0) : referenced[f]

(* Whoever locks core finds the steps of the last sweep cleared.           *)
StepsCleared == core = NoThread => steps = 0

ClockInv == PinnedIsReferenced /\ StepsCleared /\ SweepInv /\ VictimWasCold

-----------------------------------------------------------------------------
(* With clients that hold no borrow when they enter the pool or take       *)
(* another one: a thread has one borrow at most, and is not in the pool.   *)
OneBorrow ==
  \A h \in Handle : borrow[h] # "none" =>
    /\ pc[Owner(h)] = "client"
    /\ \A g \in Handle : Owner(g) = Owner(h) /\ borrow[g] # "none" => g = h

=============================================================================
