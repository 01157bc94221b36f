------------------------ MODULE PageAllocatorProofs -------------------------
(***************************************************************************)
(* Proofs about PageAllocator, for every width of an id, every number of   *)
(* clients and every data they write: ids are exclusive, and what sync     *)
(* wrote out is what the next open finds.                                  *)
(***************************************************************************)
EXTENDS PageAllocator, FiniteSetTheorems, TLAPS

(* No id is on the list twice.                                             *)
Distinct(s) == \A i, j \in DOMAIN s : s[i] = s[j] => i = j

(* Who has the state mutex, and where the callers are.                     *)
ThreadInv ==
  /\ \A c \in Client : lock = c <=> pc[c] = "persist"
  /\ lock = NoClient => written = 0
  /\ mode # "open" => lock = NoClient /\ \A c \in Client : pc[c] = "idle"

(* What the walk has collected is a free list already.                     *)
WalkInv ==
  mode = "walking" =>
    /\ head \in 0 .. NO_PAGE /\ free_count \in 0 .. NO_PAGE /\ cur \in 0 .. NO_PAGE
    /\ ids \in Seq(Id) /\ Distinct(ids)
    /\ \A i \in DOMAIN ids : ids[i] < next_new

(* The inductive invariant of ids: who owns them does not depend on what   *)
(* the store holds.                                                        *)
IdInv == AllocTypeOK /\ ThreadInv /\ WalkInv /\ IdsAreExclusive

(* File f holds the free list s and the mark n, as sync writes them.       *)
After(s, i) == IF i < Len(s) THEN s[i + 1] ELSE NO_PAGE
First(s)    == IF s = <<>> THEN NO_PAGE ELSE s[1]

Holds(f, s, n) ==
  /\ f[0] = Superblock(First(s), n, Len(s))
  /\ \A i \in DOMAIN s : f[s[i]] = Word(After(s, i))

savedList == persisted[1]
savedMark == persisted[2]

(* A saved state is in the file, and, if it is stable, on the disk.        *)
StoreInv ==
  /\ Saved =>
       /\ persisted = <<savedList, savedMark>>
       /\ savedList \in Seq(Id) /\ savedMark \in Id /\ Distinct(savedList)
       /\ \A i \in DOMAIN savedList : savedList[i] < savedMark
       /\ Holds(file, savedList, savedMark)
  /\ stable # NoState => stable = persisted /\ Holds(disk, savedList, savedMark)

(* While sync has the lock nothing counts as saved, and the links it has   *)
(* written are in the file.                                                *)
PersistInv ==
  lock # NoClient =>
    /\ persisted = NoState /\ stable = NoState
    /\ \A i \in 1 .. written : file[free_list[i]] = Word(NextId(i))

(* An open of a saved state is on the way to it.                           *)
ReopenInv ==
  Saved =>
    /\ mode # "refused"
    /\ mode = "open" => State = persisted
    /\ mode = "walking" =>
         /\ head = First(savedList) /\ next_new = savedMark
         /\ free_count = Len(savedList) /\ Len(ids) <= Len(savedList)
         /\ \A i \in DOMAIN ids : ids[i] = savedList[i]
         /\ cur = IF Len(ids) = Len(savedList) THEN NO_PAGE
                                               ELSE savedList[Len(ids) + 1]
         /\ result = "walking" \/ (result = "ok" /\ Len(ids) = Len(savedList))

SyncInv == StoreInv /\ PersistInv /\ ReopenInv

-----------------------------------------------------------------------------
(* Facts used throughout.                                                  *)

(* What can be read off a slot.                                            *)
LEMMA ContentKinds ==
  ASSUME NEW c \in Content
  PROVE  /\ c[1] = "super" => c[2] \in 0 .. NO_PAGE /\ c[3] \in Id /\ c[4] \in 0 .. NO_PAGE
         /\ c[1] = "page" => c[2] \in 0 .. NO_PAGE
         /\ c \in {Absent, Torn} => c[1] \notin {"super", "page"}
BY DEF Content, Absent, Torn, Word, Superblock

(* What can be put into a slot.                                            *)
LEMMA ContentMembers ==
  /\ Absent \in Content /\ Torn \in Content
  /\ \A v \in 0 .. NO_PAGE : Word(v) \in Content
  /\ \A h \in 0 .. NO_PAGE, n \in Id, k \in 0 .. NO_PAGE : Superblock(h, n, k) \in Content
BY DEF Content

(* Page ids leave out 0 and the end marker.                                *)
LEMMA IdFacts ==
  /\ 1 \in Id /\ Id \subseteq Slot /\ 0 \in Slot /\ NO_PAGE \in Nat
  /\ \A p \in Id : p \in Nat /\ p # 0 /\ p < NO_PAGE
  /\ \A n \in Id : \A p \in 1 .. n - 1 : p \in Id
BY AllocatorAssumption DEF Id, Slot

(* The size of an initial interval.                                        *)
LEMMA IntervalSize ==
  ASSUME NEW k \in Nat
  PROVE  IsFiniteSet(1 .. k) /\ Cardinality(1 .. k) = k
<1>1. 1 \in Int /\ k \in Int
  OBVIOUS
<1>2. IsFiniteSet(1 .. k) /\ Cardinality(1 .. k) = IF 1 > k THEN 0 ELSE k - 1 + 1
  BY <1>1, FS_Interval, Zenon
<1> QED
  BY <1>2

(* A list without repeats is shorter than the mark its ids are below.      *)
LEMMA ShortList ==
  ASSUME NEW s \in Seq(Id), Distinct(s), NEW n \in Id, \A i \in DOMAIN s : s[i] < n
  PROVE  Len(s) < n
<1>1. /\ Len(s) \in Nat /\ n \in Nat /\ DOMAIN s = 1 .. Len(s)
      /\ s \in [1 .. Len(s) -> 1 .. n - 1]
  BY IdFacts DEF Id
<1>2. IsFiniteSet(1 .. Len(s)) /\ Cardinality(1 .. Len(s)) = Len(s)
  BY <1>1, IntervalSize
<1>4. IsFiniteSet(1 .. n - 1) /\ Cardinality(1 .. n - 1) = n - 1
  <2>1. n - 1 \in Nat
    BY AllocatorAssumption DEF Id
  <2> QED
    BY <2>1, IntervalSize
<1>3. CASE Len(s) >= n
  <2>1. \E x, y \in 1 .. Len(s) : x # y /\ s[x] = s[y]
    <3>1. Cardinality(1 .. n - 1) < Cardinality(1 .. Len(s))
      BY <1>1, <1>2, <1>3, <1>4
    <3> QED
      BY <1>1, <1>2, <1>4, <3>1, FS_PigeonHole
  <2> QED
    BY <1>1, <2>1 DEF Distinct
<1> QED
  BY <1>1, <1>3

(* IdsAreExclusive in terms of single ids.                                 *)
LEMMA ExclusiveIds ==
  ASSUME AllocTypeOK
  PROVE  IdsAreExclusive <=>
           (mode = "open" =>
              /\ Distinct(free_list)
              /\ \A i \in DOMAIN free_list : free_list[i] \notin owned /\ free_list[i] < next_new
              /\ \A p \in owned : p < next_new
              /\ \A p \in 1 .. next_new - 1 :
                   p \in owned \/ \E i \in DOMAIN free_list : free_list[i] = p)
<1>1. /\ \A i \in DOMAIN free_list : free_list[i] \in Id
      /\ next_new \in Id /\ owned \subseteq Id
  BY DEF AllocTypeOK
<1>2. \A p \in Id : p \in 1 .. next_new - 1 <=> p < next_new
  BY <1>1, AllocatorAssumption DEF Id
<1>3. \A p \in 1 .. next_new - 1 : p \in Id
  BY <1>1, IdFacts
<1> QED
  BY <1>1, <1>2, <1>3 DEF IdsAreExclusive, Elems, Distinct

-----------------------------------------------------------------------------
(* IdInv.                                                                  *)

(* The first process has nothing.                                          *)
LEMMA IdInvInit == Init => IdInv
<1> SUFFICES ASSUME Init PROVE IdInv
  OBVIOUS
<1>1. AllocTypeOK
  <2>1. Word(0) \in Content /\ Absent \in Content
    BY ContentMembers, AllocatorAssumption
  <2>2. file \in [Slot -> Content] /\ disk \in [Slot -> Content]
    BY <2>1 DEF Init
  <2> QED
    BY <2>2, IdFacts DEF Init, AllocTypeOK
<1>2. ThreadInv
  BY AllocatorAssumption DEF Init, ThreadInv
<1> QED
  BY <1>1, <1>2 DEF Init, IdInv, WalkInv, IdsAreExclusive

(* Whatever is written to the store, by whom, and when.                    *)
LEMMA IdInvStore ==
  ASSUME IdInv, file' \in [Slot -> Content], disk' \in [Slot -> Content],
         UNCHANGED <<mode, allocVars, threadVars, owned, walkVars>>,
         error' \in {"none", "InvalidSuperblock", "unreadable"}
  PROVE  IdInv'
BY DEF IdInv, AllocTypeOK, ThreadInv, WalkInv, IdsAreExclusive, Elems, Distinct, allocVars,
     threadVars, walkVars

(* The store's own steps keep its type.                                    *)
LEMMA StoreSteps ==
  ASSUME IdInv
  PROVE  /\ \A p \in Slot, c \in Content : Write(p, c) =>
              file' \in [Slot -> Content] /\ disk' \in [Slot -> Content]
         /\ \A p \in Slot : WriteError(p) =>
              file' \in [Slot -> Content] /\ disk' \in [Slot -> Content]
         /\ \A p \in Slot : WriteBack(p) =>
              file' \in [Slot -> Content] /\ disk' \in [Slot -> Content]
BY ContentMembers DEF IdInv, AllocTypeOK, Write, WriteError, WriteBack

(* The process ends.                                                       *)
LEMMA IdInvGone ==
  ASSUME IdInv, Crash \/ Close
  PROVE  IdInv'
<1>1. file' \in [Slot -> Content] /\ disk' \in [Slot -> Content]
  BY ContentMembers DEF IdInv, AllocTypeOK, Crash, Close, storeVars
<1>2. Gone
  BY DEF Crash, Close
<1>3. AllocTypeOK'
  BY <1>1, <1>2, IdFacts DEF Gone, AllocTypeOK
<1>4. ThreadInv'
  BY <1>2, AllocatorAssumption DEF Gone, ThreadInv
<1> QED
  BY <1>2, <1>3, <1>4 DEF Gone, IdInv, WalkInv, IdsAreExclusive

(* new() before the walk: nothing is handed out yet.                       *)
LEMMA IdInvOpening ==
  ASSUME IdInv, ReadSuperblock \/ RefuseSuperblock \/ Initialize \/ InitializeError
  PROVE  IdInv'
<1>1. mode = "closed" /\ UNCHANGED threadVars
  BY DEF ReadSuperblock, RefuseSuperblock, Initialize, InitializeError, openUnchanged
<1>2. ThreadInv'
  BY <1>1 DEF IdInv, ThreadInv, threadVars
<1>3. lock = NoClient /\ written = 0
  BY <1>1 DEF IdInv, ThreadInv
<1>4. CASE ReadSuperblock
  <2>1. /\ file[0][2] \in 0 .. NO_PAGE /\ file[0][3] \in Id /\ file[0][4] \in 0 .. NO_PAGE
    BY <1>4, IdFacts, ContentKinds DEF ReadSuperblock, IdInv, AllocTypeOK
  <2>2. AllocTypeOK'
    BY <1>4, <2>1 DEF ReadSuperblock, IdInv, AllocTypeOK, threadVars, storeVars
  <2>3. WalkInv' /\ IdsAreExclusive'
    BY <1>4, <2>1 DEF ReadSuperblock, WalkInv, IdsAreExclusive, Distinct
  <2> QED
    BY <1>2, <2>2, <2>3 DEF IdInv
<1>5. CASE RefuseSuperblock \/ InitializeError
  <2>1. mode' = "refused" /\ error' \in {"InvalidSuperblock", "unreadable"}
    BY <1>5 DEF RefuseSuperblock, InitializeError, Refuse
  <2>2. file' \in [Slot -> Content] /\ disk' \in [Slot -> Content]
    BY <1>5, StoreSteps, IdFacts DEF RefuseSuperblock, InitializeError, openUnchanged,
         storeVars, IdInv, AllocTypeOK
  <2>3. AllocTypeOK'
    BY <1>1, <1>5, <2>1, <2>2 DEF RefuseSuperblock, InitializeError, openUnchanged,
         allocVars, threadVars, IdInv, AllocTypeOK
  <2> QED
    BY <1>2, <2>1, <2>3 DEF IdInv, WalkInv, IdsAreExclusive
<1>6. CASE Initialize
  <2>1. Superblock(NO_PAGE, 1, 0) \in Content
    BY ContentMembers, IdFacts
  <2>2. file' \in [Slot -> Content] /\ disk' \in [Slot -> Content]
    BY <1>6, <2>1, StoreSteps, IdFacts DEF Initialize
  <2>3. AllocTypeOK'
    BY <1>3, <1>6, <2>2, IdFacts DEF Initialize, threadVars, IdInv, AllocTypeOK
  <2>4. WalkInv' /\ IdsAreExclusive'
    BY <1>6 DEF Initialize, WalkInv, IdsAreExclusive, Elems
  <2> QED
    BY <1>2, <2>3, <2>4 DEF IdInv
<1> QED
  BY <1>4, <1>5, <1>6

(* One turn of walk_free_chain.                                            *)
LEMMA IdInvWalk ==
  ASSUME IdInv, Walk
  PROVE  IdInv'
<1>1. /\ mode = "walking" /\ mode' = "walking"
      /\ UNCHANGED <<error, allocVars, threadVars, owned, storeVars, head, free_count>>
  BY DEF Walk, openUnchanged, Chain!Step, Chain!Reject, Chain!Follow, Chain!End, Chain!input
<1>2. AllocTypeOK' /\ ThreadInv' /\ IdsAreExclusive'
  BY <1>1 DEF IdInv, AllocTypeOK, ThreadInv, IdsAreExclusive, allocVars, threadVars,
       storeVars
<1>3. CASE Chain!Reject \/ Chain!End
  BY <1>1, <1>2, <1>3 DEF Chain!Reject, Chain!End, IdInv, WalkInv, Distinct, allocVars
<1>4. CASE Chain!Follow
  <2>1. /\ cur \in Nat /\ cur # 0 /\ cur < next_new /\ cur \notin Chain!Seen
        /\ ids \in Seq(Id) /\ Distinct(ids) /\ next_new \in Id
        /\ \A i \in DOMAIN ids : ids[i] < next_new
        /\ head \in 0 .. NO_PAGE /\ free_count \in 0 .. NO_PAGE /\ cur \in 0 .. NO_PAGE
    BY <1>1, <1>4 DEF Chain!Follow, Chain!Acceptable, IdInv, WalkInv, AllocTypeOK
  <2>2. cur \in Id
    BY <2>1, AllocatorAssumption DEF Id
  <2>3. \A i \in DOMAIN ids : ids[i] # cur
    BY <2>1 DEF Chain!Seen
  <2>4. /\ ids' \in Seq(Id) /\ Len(ids') = Len(ids) + 1
        /\ DOMAIN ids = 1 .. Len(ids) /\ DOMAIN ids' = 1 .. Len(ids) + 1
        /\ \A i \in 1 .. Len(ids) : ids'[i] = ids[i]
        /\ ids'[Len(ids) + 1] = cur
    BY <1>4, <2>1, <2>2 DEF Chain!Follow
  <2>5. Distinct(ids') /\ \A i \in DOMAIN ids' : ids'[i] < next_new
    BY <2>1, <2>3, <2>4 DEF Distinct
  <2>6. cur' \in 0 .. NO_PAGE
    <3>1. link[cur] # -1 => link[cur] \in 0 .. NO_PAGE
      <4>1. file[cur] \in Content
        BY <2>2, IdFacts DEF IdInv, AllocTypeOK
      <4>2. link[cur] = IF file[cur][1] = "page" THEN file[cur][2] ELSE -1
        BY <2>2 DEF link
      <4> QED
        BY <4>1, <4>2, ContentKinds
    <3> QED
      BY <1>4, <2>1, <3>1 DEF Chain!Follow, Chain!Unreadable
  <2>7. WalkInv'
    BY <1>1, <2>1, <2>4, <2>5, <2>6 DEF WalkInv, allocVars
  <2> QED
    BY <1>2, <2>7 DEF IdInv
<1> QED
  BY <1>3, <1>4 DEF Walk, Chain!Step

(* The walk is over: every id below the mark is free or in use.            *)
LEMMA IdInvWalked ==
  ASSUME IdInv, Opened \/ WalkRefused
  PROVE  IdInv'
<1>1. /\ mode = "walking" /\ UNCHANGED <<next_new, threadVars, storeVars>>
      /\ next_new \in Id
  BY DEF Opened, WalkRefused, openUnchanged, allocVars, IdInv, AllocTypeOK
<1>2. ThreadInv' /\ lock = NoClient /\ written = 0
  BY <1>1 DEF Opened, WalkRefused, Refuse, IdInv, ThreadInv, threadVars
<1>3. CASE Opened
  <2>1. ids \in Seq(Id) /\ Distinct(ids) /\ \A i \in DOMAIN ids : ids[i] < next_new
    BY <1>1 DEF IdInv, WalkInv
  <2>2. /\ free_list' = ids /\ mode' = "open" /\ error' = error
        /\ owned' = (1 .. next_new - 1) \ {ids[i] : i \in DOMAIN ids}
    BY <1>3 DEF Opened, Elems
  <2>3. AllocTypeOK'
    BY <1>1, <1>2, <2>1, <2>2, IdFacts DEF IdInv, AllocTypeOK, threadVars, storeVars
  <2>4. \A i \in DOMAIN ids : ids[i] \in 1 .. next_new - 1
    BY <1>1, <2>1, AllocatorAssumption DEF Id
  <2>5. IdsAreExclusive'
    BY <1>1, <2>1, <2>2, <2>4 DEF IdsAreExclusive, Elems, Distinct
  <2>6. WalkInv'
    BY <2>2 DEF WalkInv
  <2> QED
    BY <1>2, <2>3, <2>5, <2>6 DEF IdInv
<1>4. CASE WalkRefused
  <2>1. /\ mode' = "refused" /\ error' \in {"InvalidSuperblock", "unreadable"}
        /\ UNCHANGED <<allocVars, owned>>
    BY <1>4 DEF WalkRefused, Refuse, openUnchanged
  <2>2. AllocTypeOK'
    BY <1>1, <2>1 DEF IdInv, AllocTypeOK, allocVars, threadVars, storeVars
  <2> QED
    BY <1>2, <2>1, <2>2 DEF IdInv, WalkInv, IdsAreExclusive
<1> QED
  BY <1>3, <1>4

(* allocate and free move one id.                                          *)
LEMMA IdInvMoves ==
  ASSUME IdInv, Reuse \/ Extend \/ \E p \in owned : Free(p)
  PROVE  IdInv'
<1>1. /\ mode = "open" /\ mode' = "open" /\ lock = NoClient /\ written = 0
      /\ UNCHANGED <<error, threadVars, storeVars>>
  BY DEF Reuse, Extend, Free, Usable, threadUnchanged, IdInv, ThreadInv
<1>2. ThreadInv' /\ WalkInv'
  BY <1>1 DEF IdInv, ThreadInv, WalkInv, threadVars
<1>3. /\ free_list \in Seq(Id) /\ Len(free_list) \in Nat
      /\ DOMAIN free_list = 1 .. Len(free_list)
      /\ next_new \in Id /\ owned \subseteq Id /\ Distinct(free_list)
      /\ \A i \in DOMAIN free_list : free_list[i] \notin owned /\ free_list[i] < next_new
      /\ \A p \in owned : p < next_new
      /\ \A p \in 1 .. next_new - 1 :
           p \in owned \/ \E i \in DOMAIN free_list : free_list[i] = p
  BY <1>1, ExclusiveIds DEF IdInv, AllocTypeOK
<1>4. ASSUME free_list' \in Seq(Id), next_new' \in Id, owned' \subseteq Id
      PROVE  AllocTypeOK'
  BY <1>1, <1>4 DEF IdInv, AllocTypeOK, threadVars, storeVars
<1>5. CASE Reuse
  <2> DEFINE n == Len(free_list)
             p == free_list[n]
  <2>1. /\ n \in 1 .. Len(free_list) /\ p \in Id /\ p < next_new
        /\ owned' = owned \cup {p} /\ next_new' = next_new
        /\ free_list' = SubSeq(free_list, 1, n - 1)
    BY <1>3, <1>5 DEF Reuse
  <2>2. /\ free_list' \in Seq(Id) /\ DOMAIN free_list' = 1 .. n - 1
        /\ \A i \in 1 .. n - 1 : free_list'[i] = free_list[i]
    BY <1>3, <2>1
  <2>3. \A i \in 1 .. n - 1 : free_list[i] # p
    BY <1>3, <2>1 DEF Distinct
  <2>4. AllocTypeOK'
    BY <1>3, <1>4, <2>1, <2>2
  <2>5. IdsAreExclusive'
    <3> HIDE DEF n, p
    <3>1. Distinct(free_list')
      BY <1>3, <2>1, <2>2 DEF Distinct
    <3>2. \A i \in DOMAIN free_list' : free_list'[i] \notin owned' /\ free_list'[i] < next_new'
      BY <1>3, <2>1, <2>2, <2>3
    <3>3. \A q \in 1 .. next_new' - 1 :
            q \in owned' \/ \E i \in DOMAIN free_list' : free_list'[i] = q
      <4> SUFFICES ASSUME NEW q \in 1 .. next_new - 1, q \notin owned'
                   PROVE  \E i \in 1 .. n - 1 : free_list[i] = q
        BY <2>1, <2>2
      <4>1. PICK i \in 1 .. Len(free_list) : free_list[i] = q
        BY <1>3, <2>1
      <4>2. i # n
        BY <2>1, <4>1 DEF p
      <4>3. i \in 1 .. n - 1
        <5>1. n \in Nat /\ i \in 1 .. n
          BY <1>3 DEF n
        <5> QED
          BY <4>2, <5>1
      <4> QED
        BY <4>1, <4>3, Zenon
    <3>4. \A i \in DOMAIN free_list' : free_list'[i] \in 1 .. next_new' - 1
      <4> SUFFICES ASSUME NEW i \in DOMAIN free_list'
                   PROVE  free_list'[i] \in 1 .. next_new' - 1
        OBVIOUS
      <4>1. i \in 1 .. n - 1 /\ free_list'[i] = free_list[i] /\ free_list'[i] < next_new'
        BY <2>2, <3>2, Zenon
      <4>2. i \in 1 .. Len(free_list)
        BY <1>3, <4>1 DEF n
      <4>3. free_list'[i] \in Id
        BY <1>3, <4>1, <4>2
      <4>4. next_new' \in Id
        BY <1>3, <2>1
      <4> QED
        BY <4>1, <4>3, <4>4, AllocatorAssumption DEF Id
    <3>5. \A q \in owned' : q \in 1 .. next_new' - 1
      BY <1>3, <2>1, AllocatorAssumption DEF Id
    <3> QED
      BY <3>1, <3>2, <3>3, <3>4, <3>5 DEF IdsAreExclusive, Elems, Distinct
  <2> QED
    BY <1>2, <2>4, <2>5 DEF IdInv
<1>6. CASE Extend
  <2>1. /\ free_list = <<>> /\ free_list' = free_list /\ owned' = owned \cup {next_new}
        /\ next_new' = next_new + 1 /\ next_new + 1 < NO_PAGE
    BY <1>3, <1>6, IdFacts DEF Extend, Room
  <2>2. next_new' \in Id /\ next_new \in Nat
    BY <1>3, <2>1, IdFacts DEF Id
  <2>3. AllocTypeOK'
    BY <1>3, <1>4, <2>1, <2>2
  <2>4. owned = 1 .. next_new - 1
    <3>1. owned \subseteq 1 .. next_new - 1
      BY <1>3, AllocatorAssumption DEF Id
    <3>2. DOMAIN free_list = {}
      BY <2>1
    <3> QED
      BY <1>3, <3>1, <3>2
  <2>5. owned' = 1 .. next_new' - 1
    BY <1>3, <2>1, <2>2, <2>4 DEF Id
  <2>6. IdsAreExclusive'
    BY <2>1, <2>5 DEF IdsAreExclusive, Elems
  <2> QED
    BY <1>2, <2>3, <2>6 DEF IdInv
<1>7. ASSUME NEW p \in owned, Free(p) PROVE IdInv'
  <2> DEFINE n == Len(free_list)
  <2>1. /\ p \in Id /\ p < next_new /\ owned' = owned \ {p} /\ next_new' = next_new
        /\ free_list' = Append(free_list, p)
    BY <1>3, <1>7 DEF Free
  <2>2. /\ free_list' \in Seq(Id) /\ DOMAIN free_list' = 1 .. n + 1
        /\ \A i \in 1 .. n : free_list'[i] = free_list[i]
        /\ free_list'[n + 1] = p
    BY <1>3, <2>1
  <2>3. AllocTypeOK'
    BY <1>3, <1>4, <2>1, <2>2
  <2>4. IdsAreExclusive'
    <3> HIDE DEF n
    <3>1. \A i \in 1 .. n : free_list[i] # p
      BY <1>3 DEF n
    <3>2. Distinct(free_list')
      BY <1>3, <2>2, <3>1 DEF Distinct, n
    <3>3. \A i \in DOMAIN free_list' : free_list'[i] \notin owned' /\ free_list'[i] < next_new'
      BY <1>3, <2>1, <2>2 DEF n
    <3>4. \A q \in 1 .. next_new' - 1 :
            q \in owned' \/ \E i \in DOMAIN free_list' : free_list'[i] = q
      BY <1>3, <2>1, <2>2 DEF n
    <3>5. \A i \in DOMAIN free_list' : free_list'[i] \in 1 .. next_new' - 1
      <4>1. \A i \in DOMAIN free_list' : free_list'[i] \in Id
        BY <2>3 DEF AllocTypeOK
      <4>2. \A q \in Id : q < next_new' => q \in 1 .. next_new' - 1
        BY <1>3, <2>1, AllocatorAssumption DEF Id
      <4> QED
        BY <3>3, <4>1, <4>2
    <3>6. \A q \in owned' : q \in 1 .. next_new' - 1
      BY <1>3, <2>1, AllocatorAssumption DEF Id
    <3> QED
      BY <3>2, <3>3, <3>4, <3>5, <3>6 DEF IdsAreExclusive, Elems, Distinct
  <2> QED
    BY <1>2, <2>3, <2>4 DEF IdInv
<1> QED
  BY <1>5, <1>6, <1>7

(* sync moves no id.                                                       *)
LEMMA IdInvSync ==
  ASSUME IdInv, NEW c \in Client, Sync(c)
  PROVE  IdInv'
<1>1. UNCHANGED <<mode, error, allocVars, owned, walkVars>>
  BY DEF Sync, SyncStart, WriteLink, WriteSuperblock, PersistError, SyncStore, SyncError,
       syncUnchanged
<1>2. WalkInv' /\ IdsAreExclusive'
  BY <1>1 DEF IdInv, WalkInv, IdsAreExclusive, allocVars, walkVars
<1>3. mode = "open"
  BY AllocatorAssumption DEF Sync, SyncStart, WriteLink, WriteSuperblock, PersistError,
       SyncStore, SyncError, Usable, Persisting, IdInv, ThreadInv
<1>4. /\ free_list \in Seq(Id) /\ Len(free_list) \in Nat /\ next_new \in Id
      /\ DOMAIN free_list = 1 .. Len(free_list)
      /\ written \in 0 .. Len(free_list)
  BY DEF IdInv, AllocTypeOK
<1>5. Len(free_list) < next_new
  BY <1>3, <1>4, ShortList, ExclusiveIds DEF IdInv
<1>6. /\ lock' \in Client \cup {NoClient}
      /\ pc' \in [Client -> {"idle", "persist", "sync"}]
      /\ \/ written' \in {written, 0}
         \/ written < Len(free_list) /\ written' = written + 1
  <2>1. lock \in Client \cup {NoClient} /\ pc \in [Client -> {"idle", "persist", "sync"}]
    BY DEF IdInv, AllocTypeOK
  <2>2. \/ UNCHANGED pc
        \/ \E l \in {"idle", "persist", "sync"} : pc' = [pc EXCEPT ![c] = l]
    BY DEF Sync, SyncStart, WriteLink, WriteSuperblock, PersistError, SyncStore, SyncError
  <2>3. /\ lock' \in {lock, c, NoClient}
        /\ \/ written' \in {written, 0}
           \/ written < Len(free_list) /\ written' = written + 1
    BY DEF Sync, SyncStart, WriteLink, WriteSuperblock, PersistError, SyncStore, SyncError
  <2> QED
    BY <2>1, <2>2, <2>3
<1>7. file' \in [Slot -> Content] /\ disk' \in [Slot -> Content]
  <2>1. CASE SyncStart(c) \/ SyncStore(c) \/ SyncError(c)
    BY <2>1 DEF SyncStart, SyncStore, SyncError, storeVars, IdInv, AllocTypeOK
  <2>2. CASE WriteLink(c)
    <3>1. /\ written + 1 \in 1 .. Len(free_list) /\ written' = written + 1
      BY <1>4, <2>2 DEF WriteLink
    <3>2. free_list[written'] \in Slot /\ NextId(written') \in 0 .. NO_PAGE
      BY <1>4, <3>1, IdFacts DEF NextId
    <3> QED
      BY <2>2, <3>2, StoreSteps, ContentMembers DEF WriteLink
  <2>3. CASE WriteSuperblock(c)
    <3>1. FirstId \in 0 .. NO_PAGE /\ Len(free_list) \in 0 .. NO_PAGE
      BY <1>4, <1>5, IdFacts DEF FirstId
    <3> QED
      BY <1>4, <2>3, <3>1, IdFacts, StoreSteps, ContentMembers DEF WriteSuperblock
  <2>4. CASE PersistError(c)
    <3>1. (IF written < Len(free_list) THEN free_list[written + 1] ELSE 0) \in Slot
      BY <1>4, IdFacts
    <3> QED
      BY <2>4, <3>1, StoreSteps DEF PersistError
  <2> QED
    BY <2>1, <2>2, <2>3, <2>4 DEF Sync
<1>8. AllocTypeOK'
  BY <1>1, <1>4, <1>6, <1>7 DEF IdInv, AllocTypeOK, allocVars
<1>9. ThreadInv'
  BY <1>1, <1>3, AllocatorAssumption DEF Sync, SyncStart, WriteLink, WriteSuperblock,
       PersistError, SyncStore, SyncError, Usable, Persisting, IdInv, AllocTypeOK, ThreadInv
<1> QED
  BY <1>2, <1>8, <1>9 DEF IdInv

(* The steps of the allocator and the store, all but the clients' writes.  *)
AllocStep ==
  \/ Open \/ Close \/ Crash \/ Reuse \/ Extend \/ NoRoom
  \/ \E p \in owned : Free(p)
  \/ \E p \in Slot : FreeRefused(p) \/ WriteBack(p)
  \/ \E c \in Client : Sync(c)

(* They preserve IdInv, whatever else is done with the store.              *)
LEMMA IdInvAllocStep ==
  ASSUME IdInv, AllocStep \/ UNCHANGED vars
  PROVE  IdInv'
<1>1. CASE Open
  BY <1>1, IdInvOpening, IdInvWalk, IdInvWalked DEF Open
<1>2. CASE UNCHANGED vars
  BY <1>2, IdInvStore DEF vars, storeVars, IdInv, AllocTypeOK
<1>3. CASE NoRoom \/ \E p \in Slot : FreeRefused(p)
  BY <1>2, <1>3 DEF NoRoom, FreeRefused
<1>4. ASSUME NEW p \in Slot, WriteBack(p) PROVE IdInv'
  <2>1. file' \in [Slot -> Content] /\ disk' \in [Slot -> Content]
    BY <1>4, StoreSteps
  <2> QED
    BY <1>4, <2>1, IdInvStore DEF WriteBack, IdInv, AllocTypeOK
<1> QED
  BY <1>1, <1>2, <1>3, <1>4, IdInvGone, IdInvMoves, IdInvSync DEF AllocStep

(* IdInv is inductive.                                                     *)
LEMMA IdInvStep == IdInv /\ [Next]_vars => IdInv'
<1> SUFFICES ASSUME IdInv, [Next]_vars PROVE IdInv'
  OBVIOUS
<1>1. ASSUME NEW p \in owned, WriteData(p) PROVE IdInv'
  <2>1. p \in Slot /\ \A v \in Data : Word(v) \in Content
    BY IdFacts, ContentMembers, AllocatorAssumption DEF IdInv, AllocTypeOK
  <2>2. file' \in [Slot -> Content] /\ disk' \in [Slot -> Content]
    BY <1>1, <2>1, StoreSteps DEF WriteData
  <2> QED
    BY <1>1, <2>2, IdInvStore DEF WriteData, IdInv, AllocTypeOK
<1> QED
  BY <1>1, IdInvAllocStep DEF Next, AllocStep

(* Who owns an id, who has the lock and what the walk has collected fit    *)
(* together through every failure, crash and reopening.                    *)
THEOREM IdInvariant == Spec => []IdInv
BY IdInvInit, IdInvStep, PTL DEF Spec

(* Every variable has its type; the mark stays below NO_PAGE.              *)
THEOREM AllocatorTypes == Spec => []AllocTypeOK
<1>1. IdInv => AllocTypeOK
  BY DEF IdInv
<1> QED
  BY <1>1, IdInvariant, PTL

(* allocate hands an id out to one owner at a time, and none below the     *)
(* mark is lost, whatever the store forgets or tears.                      *)
THEOREM IdsStayExclusive == Spec => []IdsAreExclusive
<1>1. IdInv => IdsAreExclusive
  BY DEF IdInv
<1> QED
  BY <1>1, IdInvariant, PTL

-----------------------------------------------------------------------------
(* SyncInv.                                                                *)

(* Slots are told apart by what they hold.                                 *)
LEMMA SlotKinds ==
  /\ \A v : Word(v)[1] = "page" /\ Word(v)[2] = v
  /\ \A h, n, k : /\ Superblock(h, n, k)[1] = "super" /\ Superblock(h, n, k)[2] = h
                  /\ Superblock(h, n, k)[3] = n /\ Superblock(h, n, k)[4] = k
                  /\ Superblock(h, n, k) \notin {Absent, Torn}
BY DEF Word, Superblock, Absent, Torn

(* A state is a pair, and never NoState.                                   *)
LEMMA StatePair ==
  \A s, n : <<s, n>> # NoState /\ <<s, n>>[1] = s /\ <<s, n>>[2] = n
BY DEF NoState

(* A file holds a state as long as the pages of its list and page 0 stay.  *)
LEMMA HoldsKept ==
  ASSUME NEW f, NEW g, NEW s, NEW n, Holds(f, s, n), g[0] = f[0],
         \A i \in DOMAIN s : g[s[i]] = f[s[i]]
  PROVE  Holds(g, s, n)
BY DEF Holds

(* A saved state is the superblock it is found by.                         *)
LEMMA SavedSuperblock ==
  ASSUME SyncInv, Saved
  PROVE  /\ file[0][1] = "super" /\ file[0][2] = First(savedList)
         /\ file[0][3] = savedMark /\ file[0][4] = Len(savedList)
         /\ file[0] \notin {Absent, Torn}
BY SlotKinds DEF SyncInv, StoreInv, Holds

(* Nothing is saved at first.                                              *)
LEMMA SyncInvInit == Init => SyncInv
BY DEF Init, SyncInv, StoreInv, PersistInv, ReopenInv, Saved

(* Steps that change neither the store nor what it is compared with.       *)
LEMMA SyncInvKept ==
  ASSUME SyncInv,
         UNCHANGED <<mode, allocVars, lock, written, storeVars, walkVars, historyVars>>
  PROVE  SyncInv'
BY DEF SyncInv, StoreInv, PersistInv, ReopenInv, Saved, State, savedList, savedMark, Holds,
     NextId, allocVars, storeVars, walkVars, historyVars

(* A client, or the pool for it, writes a page it owns, or fails to: no    *)
(* link and no superblock is there.                                        *)
LEMMA SyncInvWrite ==
  ASSUME IdInv, SyncInv, NEW p \in owned, mode = "open",
         UNCHANGED <<mode, allocVars, lock, written, walkVars, historyVars, disk>>,
         \A q \in Slot \ {p} : file'[q] = file[q]
  PROVE  SyncInv'
<1>1. /\ p \in Id /\ p # 0 /\ 0 \in Slot
      /\ free_list \in Seq(Id) /\ \A i \in DOMAIN free_list : free_list[i] \in Slot \ {p}
  BY IdFacts DEF IdInv, AllocTypeOK, IdsAreExclusive, Elems
<1>2. Saved => savedList = free_list
  BY StatePair DEF SyncInv, ReopenInv, State, savedList
<1>3. StoreInv'
  <2>1. UNCHANGED <<persisted, stable, disk>>
    BY DEF historyVars
  <2>2. Saved => Holds(file', savedList, savedMark)
    <3> SUFFICES ASSUME Saved PROVE Holds(file', savedList, savedMark)
      OBVIOUS
    <3>1. /\ file'[0] = file[0]
          /\ \A i \in DOMAIN savedList : file'[savedList[i]] = file[savedList[i]]
      BY <1>1, <1>2
    <3>2. Holds(file, savedList, savedMark)
      BY DEF SyncInv, StoreInv
    <3> QED
      BY <3>1, <3>2, HoldsKept
  <2> QED
    BY <2>1, <2>2 DEF SyncInv, StoreInv, Saved, savedList, savedMark
<1>4. PersistInv'
  <2> SUFFICES ASSUME lock # NoClient, NEW i \in 1 .. written
               PROVE  file'[free_list[i]] = Word(NextId(i))
    BY DEF SyncInv, PersistInv, NextId, allocVars, historyVars
  <2>1. i \in DOMAIN free_list
    BY <1>1 DEF IdInv, AllocTypeOK
  <2> QED
    BY <1>1, <2>1 DEF SyncInv, PersistInv
<1>5. ReopenInv'
  BY DEF SyncInv, ReopenInv, Saved, State, savedList, savedMark, allocVars, walkVars,
       historyVars
<1> QED
  BY <1>3, <1>4, <1>5 DEF SyncInv

(* Writing a page back brings the disk closer to the file.                 *)
LEMMA SyncInvWriteBack ==
  ASSUME IdInv, SyncInv, NEW p \in Slot, WriteBack(p)
  PROVE  SyncInv'
<1>1. /\ UNCHANGED <<mode, allocVars, lock, written, file, walkVars, persisted, stable>>
      /\ disk' = [disk EXCEPT ![p] = file[p]]
  BY DEF WriteBack, threadVars, historyVars
<1>2. \A q \in Slot : disk'[q] \in {disk[q], file[q]}
  BY <1>1 DEF IdInv, AllocTypeOK
<1>3. stable # NoState => Holds(disk', savedList, savedMark)
  <2> SUFFICES ASSUME stable # NoState PROVE Holds(disk', savedList, savedMark)
    OBVIOUS
  <2>1. /\ Saved /\ Holds(file, savedList, savedMark) /\ Holds(disk, savedList, savedMark)
        /\ savedList \in Seq(Id)
    BY DEF SyncInv, StoreInv, Saved
  <2>2. 0 \in Slot /\ \A i \in DOMAIN savedList : savedList[i] \in Slot
    BY <2>1, IdFacts
  <2> QED
    BY <1>2, <2>1, <2>2 DEF Holds
<1>4. StoreInv'
  BY <1>1, <1>3 DEF SyncInv, StoreInv, Saved, savedList, savedMark
<1>5. PersistInv' /\ ReopenInv'
  BY <1>1 DEF SyncInv, PersistInv, ReopenInv, NextId, Saved, State, savedList, savedMark,
       allocVars, walkVars
<1> QED
  BY <1>4, <1>5 DEF SyncInv

(* The process ends; a stable state is in no slot the crash can tear.      *)
LEMMA SyncInvGone ==
  ASSUME IdInv, SyncInv, Crash \/ Close
  PROVE  SyncInv'
<1>1. Gone
  BY DEF Crash, Close
<1>2. PersistInv' /\ ReopenInv'
  BY <1>1 DEF Gone, PersistInv, ReopenInv
<1>3. CASE Close
  BY <1>2, <1>3 DEF Close, SyncInv, StoreInv, Saved, savedList, savedMark, storeVars,
       historyVars
<1>4. CASE Crash
  <2>1. /\ persisted' = stable /\ stable' = stable /\ disk' = file'
    BY <1>4 DEF Crash
  <2>2. \A q \in Slot : disk[q] = file[q] => file'[q] = file[q]
    BY <1>4 DEF Crash
  <2>3. stable # NoState => Holds(file', savedList, savedMark)
    <3> SUFFICES ASSUME stable # NoState PROVE Holds(file', savedList, savedMark)
      OBVIOUS
    <3>1. /\ Saved /\ Holds(file, savedList, savedMark) /\ Holds(disk, savedList, savedMark)
          /\ savedList \in Seq(Id)
      BY DEF SyncInv, StoreInv, Saved
    <3>2. 0 \in Slot /\ \A i \in DOMAIN savedList : savedList[i] \in Slot
      BY <3>1, IdFacts
    <3>3. file'[0] = file[0]
      BY <2>2, <3>1, <3>2 DEF Holds
    <3>4. \A i \in DOMAIN savedList : file'[savedList[i]] = file[savedList[i]]
      BY <2>2, <3>1, <3>2 DEF Holds
    <3> QED
      BY <3>1, <3>3, <3>4, HoldsKept
  <2>4. StoreInv'
    BY <2>1, <2>3 DEF SyncInv, StoreInv, Saved, savedList, savedMark
  <2> QED
    BY <1>2, <2>4 DEF SyncInv
<1> QED
  BY <1>3, <1>4

(* new() before the walk: a saved state has a superblock.                  *)
LEMMA SyncInvOpening ==
  ASSUME IdInv, SyncInv, ReadSuperblock \/ RefuseSuperblock \/ Initialize \/ InitializeError
  PROVE  SyncInv'
<1>1. mode = "closed" /\ lock = NoClient /\ lock' = NoClient
  BY DEF ReadSuperblock, RefuseSuperblock, Initialize, InitializeError, openUnchanged,
       threadVars, IdInv, ThreadInv
<1>2. PersistInv'
  BY <1>1 DEF PersistInv
<1>3. CASE ReadSuperblock
  <2>1. /\ UNCHANGED <<file, disk, persisted, stable>> /\ mode' = "walking"
        /\ head' = file[0][2] /\ next_new' = file[0][3] /\ free_count' = file[0][4]
        /\ cur' = head' /\ ids' = <<>> /\ result' = "walking"
    BY <1>3 DEF ReadSuperblock, storeVars, historyVars
  <2>2. StoreInv'
    BY <2>1 DEF SyncInv, StoreInv, Saved, savedList, savedMark
  <2>3. ReopenInv'
    <3> SUFFICES ASSUME Saved
                 PROVE  /\ head' = First(savedList) /\ next_new' = savedMark
                        /\ free_count' = Len(savedList) /\ Len(ids') <= Len(savedList)
                        /\ \A i \in DOMAIN ids' : ids'[i] = savedList[i]
                        /\ cur' = IF Len(ids') = Len(savedList) THEN NO_PAGE
                                                 ELSE savedList[Len(ids') + 1]
      BY <2>1 DEF ReopenInv, Saved, savedList, savedMark
    <3>1. savedList \in Seq(Id)
      BY DEF SyncInv, StoreInv
    <3>2. Len(ids') = 0 /\ DOMAIN ids' = {}
      BY <2>1
    <3>3. First(savedList) = IF 0 = Len(savedList) THEN NO_PAGE ELSE savedList[1]
      BY <3>1 DEF First
    <3> QED
      BY <2>1, <3>1, <3>2, <3>3, SavedSuperblock
  <2> QED
    BY <1>2, <2>2, <2>3 DEF SyncInv
<1>4. CASE RefuseSuperblock \/ InitializeError
  <2>1. ~ Saved
    BY <1>4, SavedSuperblock, SlotKinds DEF RefuseSuperblock, InitializeError, NewFile
  <2>2. UNCHANGED <<persisted, stable>>
    BY <1>4 DEF RefuseSuperblock, InitializeError, openUnchanged, historyVars
  <2>3. stable = NoState
    BY <2>1 DEF SyncInv, StoreInv, Saved
  <2> QED
    BY <1>2, <2>1, <2>2, <2>3 DEF SyncInv, StoreInv, ReopenInv, Saved
<1>5. CASE Initialize
  <2>1. /\ persisted' = << <<>>, 1>> /\ stable' = NoState /\ mode' = "open"
        /\ free_list' = <<>> /\ next_new' = 1
        /\ file' = [file EXCEPT ![0] = Superblock(NO_PAGE, 1, 0)]
    BY <1>5 DEF Initialize, Write
  <2>2. savedList' = <<>> /\ savedMark' = 1
    BY <2>1, StatePair DEF savedList, savedMark
  <2>3. Holds(file', <<>>, 1)
    BY <2>1, IdFacts DEF Holds, First, IdInv, AllocTypeOK
  <2>4. StoreInv'
    BY <2>1, <2>2, <2>3, IdFacts DEF StoreInv, Distinct
  <2>5. ReopenInv'
    BY <2>1 DEF ReopenInv, State
  <2> QED
    BY <1>2, <2>4, <2>5 DEF SyncInv
<1> QED
  BY <1>3, <1>4, <1>5

(* The walk finds the saved list, id by id.                                *)
LEMMA SyncInvWalk ==
  ASSUME IdInv, SyncInv, Walk
  PROVE  SyncInv'
<1>1. /\ mode = "walking" /\ mode' = "walking"
      /\ UNCHANGED <<next_new, lock, file, disk, persisted, stable, head, free_count>>
  BY DEF Walk, openUnchanged, Chain!Step, Chain!Reject, Chain!Follow, Chain!End,
       Chain!input, allocVars, threadVars, storeVars, historyVars
<1>2. StoreInv'
  BY <1>1 DEF SyncInv, StoreInv, Saved, savedList, savedMark
<1>3. PersistInv'
  BY <1>1 DEF IdInv, ThreadInv, PersistInv
<1>4. ReopenInv'
  <2> SUFFICES ASSUME Saved
               PROVE  /\ Len(ids') <= Len(savedList)
                      /\ \A i \in DOMAIN ids' : ids'[i] = savedList[i]
                      /\ cur' = IF Len(ids') = Len(savedList) THEN NO_PAGE
                                                 ELSE savedList[Len(ids') + 1]
                      /\ \/ result' = "walking"
                         \/ result' = "ok" /\ Len(ids') = Len(savedList)
    BY <1>1 DEF SyncInv, ReopenInv, Saved, savedList, savedMark
  <2>1. /\ savedList \in Seq(Id) /\ DOMAIN savedList = 1 .. Len(savedList)
        /\ Len(savedList) \in Nat /\ Distinct(savedList)
        /\ \A i \in DOMAIN savedList : savedList[i] < savedMark /\ savedList[i] \in Id
        /\ \A i \in DOMAIN savedList : file[savedList[i]] = Word(After(savedList, i))
    BY DEF SyncInv, StoreInv, Holds
  <2>2. /\ next_new = savedMark /\ free_count = Len(savedList)
        /\ Len(ids) <= Len(savedList) /\ \A i \in DOMAIN ids : ids[i] = savedList[i]
        /\ cur = IF Len(ids) = Len(savedList) THEN NO_PAGE ELSE savedList[Len(ids) + 1]
        /\ ids \in Seq(Id) /\ DOMAIN ids = 1 .. Len(ids) /\ Len(ids) \in Nat
    BY <1>1 DEF SyncInv, ReopenInv, IdInv, WalkInv
  <2>3. CASE Len(ids) = Len(savedList)
    <3>1. Chain!End /\ result' = "ok"
      BY <2>2, <2>3 DEF Walk, Chain!Step, Chain!Reject, Chain!Follow, Chain!End
    <3> QED
      BY <2>2, <2>3, <3>1 DEF Chain!End
  <2>4. CASE Len(ids) # Len(savedList)
    <3> DEFINE k == Len(ids) + 1
    <3>12. /\ Len(ids) \in Nat /\ Len(savedList) \in Nat
           /\ Len(ids) < Len(savedList) /\ free_count = Len(savedList)
      <4>1. Len(ids) \in Nat /\ Len(savedList) \in Nat /\ Len(ids) <= Len(savedList)
        BY <2>1, <2>2, Zenon
      <4> QED
        BY <2>2, <2>4, <4>1
    <3>13. k \in 1 .. Len(savedList) /\ cur = savedList[k]
      BY <2>2, <2>4, <3>12
    <3>1. /\ k \in 1 .. Len(savedList) /\ cur = savedList[k] /\ cur \in Id /\ cur < next_new
          /\ k \in Nat
      <4>1. k \in DOMAIN savedList /\ k \in Nat
        BY <2>1, <3>12, <3>13
      <4> HIDE DEF k
      <4> QED
        BY <2>1, <2>2, <3>13, <4>1, Zenon
    <3>2. cur # NO_PAGE /\ cur # 0
      BY <3>1, IdFacts
    <3>3. cur \notin Chain!Seen
      <4>1. ASSUME NEW i \in 1 .. Len(ids) PROVE ids[i] # cur
        <5>1. i \in DOMAIN savedList /\ k \in DOMAIN savedList /\ i # k
          BY <2>1, <3>12, <3>13
        <5>2. ids[i] = savedList[i]
          BY <2>2
        <5> QED
          BY <2>1, <3>13, <5>1, <5>2 DEF Distinct
      <4> QED
        BY <2>2, <4>1 DEF Chain!Seen
    <3>4. Chain!Acceptable
      BY <3>12, <3>1, <3>2, <3>3 DEF Chain!Acceptable
    <3>5. Chain!Follow
      BY <3>2, <3>4 DEF Walk, Chain!Step, Chain!Reject, Chain!End
    <3>6. link[cur] = After(savedList, k)
      BY <2>1, <3>1, SlotKinds DEF link
    <3>7. After(savedList, k) \in Nat
      BY <2>1, <3>1, IdFacts DEF After
    <3>8. /\ ids' = Append(ids, cur) /\ cur' = After(savedList, k) /\ result' = "walking"
      BY <3>5, <3>6, <3>7 DEF Chain!Follow, Chain!Unreadable
    <3>9. /\ Len(ids') = k /\ DOMAIN ids' = 1 .. k
          /\ \A i \in 1 .. Len(ids) : ids'[i] = ids[i]
          /\ ids'[k] = cur
      BY <2>2, <3>1, <3>8
    <3>10. \A i \in DOMAIN ids' : ids'[i] = savedList[i]
      BY <2>2, <3>1, <3>9
    <3>11. cur' = IF k = Len(savedList) THEN NO_PAGE ELSE savedList[k + 1]
      BY <3>12, <3>1, <3>8 DEF After
    <3> QED
      BY <3>1, <3>8, <3>9, <3>10, <3>11
  <2> QED
    BY <2>3, <2>4
<1> QED
  BY <1>2, <1>3, <1>4 DEF SyncInv

(* The walk of a saved list succeeds, with that list.                      *)
LEMMA SyncInvWalked ==
  ASSUME IdInv, SyncInv, Opened \/ WalkRefused
  PROVE  SyncInv'
<1>1. /\ mode = "walking" /\ UNCHANGED <<next_new, lock, file, disk, persisted, stable>>
  BY DEF Opened, WalkRefused, openUnchanged, allocVars, threadVars, storeVars, historyVars
<1>2. StoreInv'
  BY <1>1 DEF SyncInv, StoreInv, Saved, savedList, savedMark
<1>3. PersistInv'
  BY <1>1 DEF IdInv, ThreadInv, PersistInv
<1>4. ReopenInv'
  <2> SUFFICES ASSUME Saved PROVE mode' = "open" /\ State' = persisted
    BY <1>1 DEF ReopenInv, Saved
  <2>1. /\ Len(ids) <= Len(savedList) /\ \A i \in DOMAIN ids : ids[i] = savedList[i]
        /\ next_new = savedMark
        /\ result = "walking" \/ (result = "ok" /\ Len(ids) = Len(savedList))
        /\ ids \in Seq(Id) /\ savedList \in Seq(Id)
        /\ persisted = <<savedList, savedMark>>
    BY <1>1 DEF SyncInv, StoreInv, ReopenInv, IdInv, WalkInv
  <2>2. Opened /\ result = "ok"
    BY <2>1 DEF Opened, WalkRefused
  <2>3. ids = savedList
    BY <2>1, <2>2
  <2> QED
    BY <1>1, <2>1, <2>2, <2>3 DEF Opened, State
<1> QED
  BY <1>2, <1>3, <1>4 DEF SyncInv

(* allocate and free make a new state, which is saved nowhere yet.         *)
LEMMA SyncInvMoves ==
  ASSUME IdInv, Reuse \/ Extend \/ \E p \in owned : Free(p)
  PROVE  SyncInv'
<1>1. Diverge /\ lock' = NoClient
  BY DEF Reuse, Extend, Free, Usable, threadUnchanged, threadVars
<1> QED
  BY <1>1 DEF Diverge, SyncInv, StoreInv, PersistInv, ReopenInv, Saved

(* sync writes the links one by one, none over another, then the           *)
(* superblock: from then on the state is saved.                            *)
LEMMA SyncInvSync ==
  ASSUME IdInv, SyncInv, NEW c \in Client, Sync(c)
  PROVE  SyncInv'
<1>1. UNCHANGED <<mode, allocVars, walkVars>>
  BY DEF Sync, SyncStart, WriteLink, WriteSuperblock, PersistError, SyncStore, SyncError,
       syncUnchanged
<1>2. mode = "open"
  BY AllocatorAssumption DEF Sync, SyncStart, WriteLink, WriteSuperblock, PersistError,
       SyncStore, SyncError, Usable, Persisting, IdInv, ThreadInv
<1>3. /\ free_list \in Seq(Id) /\ DOMAIN free_list = 1 .. Len(free_list)
      /\ Len(free_list) \in Nat /\ written \in 0 .. Len(free_list)
      /\ next_new \in Id /\ Distinct(free_list)
      /\ \A i \in DOMAIN free_list : free_list[i] \in Slot /\ free_list[i] # 0
      /\ \A i \in DOMAIN free_list : free_list[i] < next_new
  BY <1>2, ExclusiveIds, IdFacts DEF IdInv, AllocTypeOK
<1>4. CASE SyncStart(c)
  BY <1>4 DEF SyncStart, Diverge, SyncInv, StoreInv, PersistInv, ReopenInv, Saved
<1>5. ASSUME Persisting(c)
      PROVE  /\ persisted = NoState /\ stable = NoState
             /\ \A i \in 1 .. written : file[free_list[i]] = Word(NextId(i))
  BY <1>5, AllocatorAssumption DEF Persisting, SyncInv, PersistInv
<1>6. CASE WriteLink(c)
  <2>1. /\ Persisting(c) /\ written' = written + 1 /\ written + 1 \in 1 .. Len(free_list)
        /\ UNCHANGED <<persisted, stable>>
        /\ file' = [file EXCEPT ![free_list[written + 1]] = Word(NextId(written + 1))]
    BY <1>3, <1>6 DEF WriteLink, Write, historyVars
  <2>2. ASSUME NEW i \in 1 .. written + 1
        PROVE  file'[free_list[i]] = Word(NextId(i))
    <3>1. written \in Nat /\ Len(free_list) \in Nat /\ written + 1 <= Len(free_list)
      BY <1>3, <2>1
    <3>4. i \in DOMAIN free_list /\ written + 1 \in DOMAIN free_list
      BY <1>3, <3>1
    <3>5. /\ file \in [Slot -> Content]
          /\ free_list[i] \in Slot /\ free_list[written + 1] \in Slot
      BY <1>3, <3>4 DEF IdInv, AllocTypeOK
    <3>2. CASE i = written + 1
      BY <2>1, <3>2, <3>5
    <3>3. CASE i # written + 1
      <4>1. free_list[i] # free_list[written + 1]
        BY <1>3, <3>3, <3>4 DEF Distinct
      <4>2. i \in 1 .. written
        BY <3>1, <3>3
      <4> QED
        BY <1>5, <2>1, <3>5, <4>1, <4>2
    <3> QED
      BY <3>2, <3>3
  <2>3. PersistInv'
    BY <1>1, <1>5, <2>1, <2>2 DEF PersistInv, NextId, allocVars
  <2> QED
    BY <1>5, <2>1, <2>3 DEF SyncInv, StoreInv, ReopenInv, Saved
<1>7. CASE WriteSuperblock(c)
  <2>1. /\ Persisting(c) /\ written = Len(free_list) /\ lock' = NoClient
        /\ persisted' = <<free_list, next_new>> /\ stable' = stable
        /\ file' = [file EXCEPT ![0] = Superblock(FirstId, next_new, Len(free_list))]
    BY <1>7 DEF WriteSuperblock, Write, State
  <2>2. /\ savedList' = free_list /\ savedMark' = next_new
        /\ persisted' = <<savedList', savedMark'>>
    BY <2>1, StatePair DEF savedList, savedMark
  <2>3. Holds(file', free_list, next_new)
    <3>1. file'[0] = Superblock(First(free_list), next_new, Len(free_list))
      BY <2>1, IdFacts DEF FirstId, First, IdInv, AllocTypeOK
    <3>2. \A i \in DOMAIN free_list : file'[free_list[i]] = Word(After(free_list, i))
      BY <1>3, <1>5, <2>1 DEF NextId, After, IdInv, AllocTypeOK
    <3> QED
      BY <3>1, <3>2 DEF Holds
  <2>4. StoreInv'
    BY <1>3, <1>5, <2>1, <2>2, <2>3 DEF StoreInv
  <2>5. PersistInv'
    BY <2>1 DEF PersistInv
  <2>6. ReopenInv'
    BY <1>1, <1>2, <2>1 DEF ReopenInv, State, allocVars
  <2> QED
    BY <2>4, <2>5, <2>6 DEF SyncInv
<1>8. CASE PersistError(c)
  <2>1. /\ Persisting(c) /\ lock' = NoClient /\ UNCHANGED <<persisted, stable>>
    BY <1>8 DEF PersistError, historyVars
  <2> QED
    BY <1>5, <2>1 DEF SyncInv, StoreInv, PersistInv, ReopenInv, Saved
<1>9. CASE SyncStore(c)
  <2>1. /\ disk' = file /\ file' = file /\ stable' = persisted /\ persisted' = persisted
        /\ UNCHANGED <<lock, written>>
    BY <1>9 DEF SyncStore
  <2>2. StoreInv'
    BY <2>1 DEF SyncInv, StoreInv, Saved, savedList, savedMark
  <2>3. PersistInv' /\ ReopenInv'
    BY <1>1, <2>1 DEF SyncInv, PersistInv, ReopenInv, NextId, Saved, State, savedList,
         savedMark, allocVars, walkVars
  <2> QED
    BY <2>2, <2>3 DEF SyncInv
<1>10. CASE SyncError(c)
  BY <1>1, <1>10, SyncInvKept DEF SyncError
<1> QED
  BY <1>4, <1>6, <1>7, <1>8, <1>9, <1>10 DEF Sync

(* The allocator and the store keep SyncInv.                               *)
LEMMA SyncInvAllocStep ==
  ASSUME IdInv, SyncInv, AllocStep \/ UNCHANGED vars
  PROVE  SyncInv'
<1>1. CASE Open
  BY <1>1, SyncInvOpening, SyncInvWalk, SyncInvWalked DEF Open
<1>2. CASE UNCHANGED vars
  BY <1>2, SyncInvKept DEF vars, threadVars
<1>3. CASE NoRoom \/ \E p \in Slot : FreeRefused(p)
  BY <1>2, <1>3 DEF NoRoom, FreeRefused
<1> QED
  BY <1>1, <1>2, <1>3, SyncInvGone, SyncInvMoves, SyncInvSync, SyncInvWriteBack DEF AllocStep

(* SyncInv is inductive, on top of IdInv.                                  *)
LEMMA SyncInvStep == IdInv /\ SyncInv /\ [Next]_vars => SyncInv'
<1> SUFFICES ASSUME IdInv, SyncInv, [Next]_vars PROVE SyncInv'
  OBVIOUS
<1>1. ASSUME NEW p \in owned, WriteData(p) PROVE SyncInv'
  <2>1. /\ mode = "open"
        /\ UNCHANGED <<mode, allocVars, lock, written, walkVars, historyVars, disk>>
        /\ \E v : file' = [file EXCEPT ![p] = v]
    BY <1>1 DEF WriteData, Write, WriteError, threadVars
  <2>2. \A q \in Slot \ {p} : file'[q] = file[q]
    BY <2>1 DEF IdInv, AllocTypeOK
  <2> QED
    BY <2>1, <2>2, SyncInvWrite
<1> QED
  BY <1>1, SyncInvAllocStep DEF Next, AllocStep

(* A state that sync wrote out, and that no allocate, free or sync has     *)
(* changed, is what the next open gives back, and after a completed sync   *)
(* also what the open after any crash gives back; no such open is refused. *)
THEOREM SyncedStateIsFound == Spec => []SyncedStateSurvives
<1>1. Spec => []SyncInv
  BY SyncInvInit, SyncInvStep, IdInvariant, PTL DEF Spec
<1>2. SyncInv => SyncedStateSurvives
  BY DEF SyncInv, ReopenInv, SyncedStateSurvives
<1> QED
  BY <1>1, <1>2, PTL

=============================================================================
