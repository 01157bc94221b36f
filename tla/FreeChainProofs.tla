--------------------------- MODULE FreeChainProofs ---------------------------
(***************************************************************************)
(* walk_free_chain is right for every superblock and every set of links,   *)
(* whatever the width of an id.                                            *)
(***************************************************************************)
EXTENDS FreeChainWalk, LeastNumber, SequenceTheorems, FiniteSetTheorems

(* The ids collected so far are linked, and the last one leads to cur.     *)
LinkedInv ==
  /\ ids = <<>> => cur = head
  /\ ids # <<>> => head = ids[1]
  /\ \A i \in DOMAIN ids :
       i < Len(ids) => link[ids[i]] = ids[i + 1]
  /\ ids # <<>> /\ result # "io" => link[ids[Len(ids)]] = cur
  /\ result = "io" => ids # <<>> /\ link[ids[Len(ids)]] = Unreadable

(* Any well-formed chain there is starts with the ids collected so far.    *)
PrefixInv ==
  result = "walking" =>
    \A s \in Candidates : IsChain(s) =>
      /\ Len(ids) <= Len(s)
      /\ \A i \in DOMAIN ids : ids[i] = s[i]
      /\ cur = IF Len(ids) = Len(s) THEN NO_PAGE ELSE s[Len(ids) + 1]

(* Finished walks: why the result is what it is.                           *)
ResultInv ==
  /\ result = "ok" => cur = NO_PAGE /\ Len(ids) = free_count
  /\ result \in {"invalid", "io"} => \A s \in Candidates : ~ IsChain(s)

WalkInv ==
  /\ WalkTypeOK /\ WalkIsBounded /\ LinkedInv /\ PrefixInv /\ ResultInv

(* The ids collected are finitely many.                                    *)
LEMMA SeenAppend ==
  ASSUME WalkTypeOK, cur \in Slot, ids' = Append(ids, cur)
  PROVE  /\ ids' \in Seq(Slot) /\ Len(ids') = Len(ids) + 1
         /\ DOMAIN ids = 1 .. Len(ids) /\ DOMAIN ids' = 1 .. Len(ids) + 1
         /\ \A i \in 1 .. Len(ids) : ids'[i] = ids[i]
         /\ ids'[Len(ids) + 1] = cur
         /\ Seen' = Seen \cup {cur}
<1>1. /\ ids' \in Seq(Slot) /\ Len(ids') = Len(ids) + 1
      /\ DOMAIN ids = 1 .. Len(ids) /\ DOMAIN ids' = 1 .. Len(ids) + 1
      /\ \A i \in 1 .. Len(ids) : ids'[i] = ids[i]
      /\ ids'[Len(ids) + 1] = cur
  BY DEF WalkTypeOK
<1>2. Seen' = Seen \cup {cur}
  BY <1>1 DEF Seen, WalkTypeOK
<1> QED
  BY <1>1, <1>2

(* A candidate has exactly free_count entries.                             *)
LEMMA CandidateFacts ==
  ASSUME WalkTypeOK, NEW s \in Candidates
  PROVE  /\ s \in Seq(Slot) /\ Len(s) = free_count /\ DOMAIN s = 1 .. Len(s)
         /\ \A i \in DOMAIN s : s[i] \in 1 .. next_new - 1
<1>1. s \in [1 .. free_count -> 1 .. next_new - 1] /\ free_count \in Nat
  BY DEF Candidates, WalkTypeOK, U64
<1>2. \A i \in 1 .. next_new - 1 : i \in Slot
  BY WalkAssumption DEF WalkTypeOK, U64, Slot
<1>3. s \in Seq(Slot)
  BY <1>1, <1>2
<1> QED
  BY <1>1, <1>3

(* Initially nothing has been collected.                                   *)
LEMMA WalkInvInit == Init => WalkInv
<1> SUFFICES ASSUME Init PROVE WalkInv
  OBVIOUS
<1>1. WalkTypeOK
  BY DEF Init, WalkTypeOK, FuzzStore
<1>2. WalkIsBounded
  <2>1. Seen = {}
    BY DEF Init, Seen
  <2> QED
    BY <2>1, FS_EmptySet DEF Init, WalkIsBounded, U64
<1>3. LinkedInv /\ ResultInv
  BY DEF Init, LinkedInv, ResultInv
<1>4. PrefixInv
  <2> SUFFICES ASSUME NEW s \in Candidates, IsChain(s)
               PROVE  /\ 0 <= Len(s)
                      /\ cur = IF 0 = Len(s) THEN NO_PAGE ELSE s[1]
    BY DEF PrefixInv, Init
  <2>1. s \in Seq(Slot) /\ cur = head
    BY <1>1, CandidateFacts DEF Init
  <2> QED
    BY <2>1 DEF IsChain
<1> QED
  BY <1>1, <1>2, <1>3, <1>4 DEF WalkInv

(* An id that fails a test belongs to no well-formed chain.                *)
LEMMA RejectStep ==
  ASSUME WalkInv, Reject
  PROVE  WalkInv'
<1> USE DEF WalkInv, Reject
<1>1. WalkTypeOK' /\ WalkIsBounded' /\ LinkedInv' /\ PrefixInv'
  BY DEF input, WalkTypeOK, WalkIsBounded, LinkedInv, PrefixInv, Seen
<1>2. ASSUME NEW s \in Candidates, IsChain(s) PROVE FALSE
  <2>1. /\ Len(ids) <= Len(s) /\ \A i \in DOMAIN ids : ids[i] = s[i]
        /\ cur = IF Len(ids) = Len(s) THEN NO_PAGE ELSE s[Len(ids) + 1]
    BY <1>2 DEF PrefixInv
  <2>2. /\ s \in Seq(Slot) /\ Len(s) = free_count /\ DOMAIN s = 1 .. Len(s)
        /\ \A i \in DOMAIN s : s[i] \in 1 .. next_new - 1
        /\ ids \in Seq(Slot) /\ DOMAIN ids = 1 .. Len(ids) /\ Len(ids) \in Nat
    BY CandidateFacts DEF WalkTypeOK
  <2>3. Len(ids) < Len(s) /\ cur = s[Len(ids) + 1] /\ Len(ids) + 1 \in DOMAIN s
    BY <2>1, <2>2
  <2>4. cur \in 1 .. next_new - 1 /\ Len(ids) < free_count
    BY <2>2, <2>3
  <2>5. cur \notin Seen
    BY <1>2, <2>1, <2>2, <2>3 DEF Seen, IsChain
  <2> QED
    BY <2>4, <2>5 DEF Acceptable, WalkTypeOK, U64
<1>3. ResultInv'
  BY <1>2 DEF ResultInv, Candidates, IsChain, input
<1> QED
  BY <1>1, <1>3

(* At the end marker: a chain of the recorded length, or none at all.      *)
LEMMA EndStep ==
  ASSUME WalkInv, End
  PROVE  WalkInv'
<1> USE DEF WalkInv, End
<1>1. WalkTypeOK' /\ WalkIsBounded' /\ LinkedInv' /\ PrefixInv'
  BY DEF input, WalkTypeOK, WalkIsBounded, LinkedInv, PrefixInv, Seen
<1>2. ASSUME NEW s \in Candidates, IsChain(s) PROVE Len(ids) = free_count
  <2>1. /\ Len(ids) <= Len(s)
        /\ cur = IF Len(ids) = Len(s) THEN NO_PAGE ELSE s[Len(ids) + 1]
    BY <1>2 DEF PrefixInv
  <2>2. /\ s \in Seq(Slot) /\ Len(s) = free_count /\ DOMAIN s = 1 .. Len(s)
        /\ ids \in Seq(Slot) /\ Len(ids) \in Nat
    BY CandidateFacts DEF WalkTypeOK
  <2>3. Len(ids) # Len(s) => s[Len(ids) + 1] \in Slot
    BY <2>1, <2>2
  <2>4. NO_PAGE \notin Slot
    BY WalkAssumption DEF Slot
  <2> QED
    BY <2>1, <2>2, <2>3, <2>4
<1>3. ResultInv'
  BY <1>2 DEF ResultInv, Candidates, IsChain, input
<1> QED
  BY <1>1, <1>3

(* Following a link keeps the collected ids linked, different and allocated. *)
LEMMA FollowStep ==
  ASSUME WalkInv, Follow
  PROVE  WalkInv'
<1> USE DEF WalkInv, Follow
<1>1. /\ cur \in Slot /\ cur < next_new /\ cur \notin Seen
      /\ Len(ids) < free_count
  BY WalkAssumption DEF Acceptable, WalkTypeOK, U64, Slot
<1>2. /\ ids \in Seq(Slot) /\ Len(ids) \in Nat
      /\ ids' \in Seq(Slot) /\ Len(ids') = Len(ids) + 1
      /\ DOMAIN ids = 1 .. Len(ids) /\ DOMAIN ids' = 1 .. Len(ids) + 1
      /\ \A i \in 1 .. Len(ids) : ids'[i] = ids[i]
      /\ ids'[Len(ids) + 1] = cur
      /\ Seen' = Seen \cup {cur} /\ ids' # <<>>
  BY <1>1, SeenAppend DEF WalkTypeOK
<1>3. WalkTypeOK'
  BY <1>1, <1>2 DEF WalkTypeOK, input
<1>4. WalkIsBounded'
  <2>1. IsFiniteSet(Seen)
    <3>1. Seen \subseteq 1 .. next_new - 1
      BY DEF WalkIsBounded, Seen
    <3>2. IsFiniteSet(1 .. next_new - 1)
      BY FS_Interval DEF WalkTypeOK, U64
    <3> QED
      BY <3>1, <3>2, FS_Subset
  <2>2. Cardinality(Seen') = Cardinality(Seen) + 1
    BY <1>1, <1>2, <2>1, FS_AddElement
  <2>3. Len(ids') <= free_count' /\ Cardinality(Seen') = Len(ids')
    BY <1>1, <1>2, <2>2 DEF WalkIsBounded, WalkTypeOK, U64, input
  <2>4. cur \in 1 .. next_new - 1
    BY <1>1 DEF Slot, WalkTypeOK, U64
  <2> QED
    BY <1>2, <2>3, <2>4 DEF WalkIsBounded, input
<1>5. LinkedInv'
  <2>1. head' = ids'[1]
    <3>1. CASE ids = <<>>
      BY <1>2, <3>1 DEF LinkedInv, input
    <3>2. CASE ids # <<>>
      BY <1>2, <3>2 DEF LinkedInv, input
    <3> QED
      BY <3>1, <3>2
  <2>2. \A i \in DOMAIN ids' : i < Len(ids') => link'[ids'[i]] = ids'[i + 1]
    <3> SUFFICES ASSUME NEW i \in 1 .. Len(ids) PROVE link[ids[i]] = ids'[i + 1]
      BY <1>2 DEF input
    <3>1. CASE i < Len(ids)
      BY <1>2, <3>1 DEF LinkedInv
    <3>2. CASE i = Len(ids)
      BY <1>2, <3>2 DEF LinkedInv
    <3> QED
      BY <1>2, <3>1, <3>2
  <2>3. result' # "io" => link'[ids'[Len(ids')]] = cur'
    BY <1>2 DEF input
  <2>4. result' = "io" => link'[ids'[Len(ids')]] = Unreadable
    BY <1>2 DEF input
  <2> QED
    BY <1>2, <2>1, <2>2, <2>3, <2>4 DEF LinkedInv
<1>6. ASSUME NEW s \in Candidates, IsChain(s)
      PROVE  /\ link[cur] # Unreadable
             /\ Len(ids') <= Len(s)
             /\ \A i \in DOMAIN ids' : ids'[i] = s[i]
             /\ link[cur] = IF Len(ids') = Len(s) THEN NO_PAGE ELSE s[Len(ids') + 1]
  <2>1. /\ Len(ids) <= Len(s) /\ \A i \in DOMAIN ids : ids[i] = s[i]
        /\ cur = IF Len(ids) = Len(s) THEN NO_PAGE ELSE s[Len(ids) + 1]
    BY <1>6 DEF PrefixInv
  <2>2. /\ s \in Seq(Slot) /\ Len(s) = free_count /\ DOMAIN s = 1 .. Len(s)
    BY CandidateFacts
  <2>3. Len(ids) + 1 \in DOMAIN s /\ cur = s[Len(ids) + 1]
    BY <1>2, <2>1, <2>2
  <2>4. link[cur] = IF Len(ids) + 1 = Len(s) THEN NO_PAGE ELSE s[Len(ids) + 2]
    BY <1>2, <1>6, <2>3 DEF IsChain
  <2>5. Len(ids) + 1 # Len(s) => s[Len(ids) + 2] \in Slot
    BY <1>2, <2>2, <2>3
  <2>6. Unreadable \notin Slot /\ Unreadable # NO_PAGE
    BY WalkAssumption DEF Unreadable, Slot
  <2>7. link[cur] # Unreadable
    BY <2>4, <2>5, <2>6
  <2>8. \A i \in DOMAIN ids' : ids'[i] = s[i]
    BY <1>2, <2>1, <2>3
  <2> QED
    BY <1>2, <2>2, <2>3, <2>4, <2>7, <2>8
<1>7. PrefixInv'
  BY <1>6 DEF PrefixInv, Candidates, IsChain, input
<1>8. ResultInv'
  BY <1>6 DEF ResultInv, Candidates, IsChain, input
<1> QED
  BY <1>3, <1>4, <1>5, <1>7, <1>8

(* WalkInv is an invariant of the walk.                                    *)
THEOREM WalkInvariant == Spec => []WalkInv
<1>1. WalkInv /\ [Next]_walkVars => WalkInv'
  <2> SUFFICES ASSUME WalkInv, [Next]_walkVars PROVE WalkInv'
    OBVIOUS
  <2>1. CASE Step
    BY <2>1, RejectStep, EndStep, FollowStep DEF Step
  <2>2. CASE UNCHANGED walkVars
    BY <2>2 DEF walkVars, input, WalkInv, WalkTypeOK, WalkIsBounded, LinkedInv,
         PrefixInv, ResultInv, Candidates, IsChain, Seen
  <2> QED
    BY <2>1, <2>2 DEF Next
<1> QED
  BY <1>1, WalkInvInit, PTL DEF Spec

(* Whatever is on disk, the walk collects at most free_count different     *)
(* allocated ids.                                                          *)
THEOREM WalkStaysBounded == Spec => []WalkIsBounded
<1>1. WalkInv => WalkIsBounded
  BY DEF WalkInv
<1> QED
  BY <1>1, WalkInvariant, PTL

(* The walk accepts exactly the well-formed free lists and returns them in *)
(* order; everything else is refused.                                      *)
THEOREM WalkIsCorrect == Spec => []WalkIsExact
<1>1. WalkInv => WalkIsExact
  <2> SUFFICES ASSUME WalkInv, result = "ok"
               PROVE  ids \in Candidates /\ IsChain(ids)
    BY DEF WalkInv, WalkIsExact, ResultInv
  <2> USE DEF WalkInv
  <2>1. /\ ids \in Seq(Slot) /\ Len(ids) = free_count /\ cur = NO_PAGE
        /\ DOMAIN ids = 1 .. Len(ids) /\ Len(ids) \in Nat
    BY DEF WalkTypeOK, ResultInv
  <2>2. ids \in [1 .. free_count -> 1 .. next_new - 1]
    BY <2>1 DEF WalkIsBounded
  <2>3. Cardinality(Seen) = Len(ids) /\ Seen \subseteq 1 .. next_new - 1
    BY <2>1 DEF WalkIsBounded, Seen
  <2>4. free_count < next_new
    <3>1. IsFiniteSet(1 .. next_new - 1) /\ Cardinality(1 .. next_new - 1) = next_new - 1
      BY FS_Interval DEF WalkTypeOK, U64
    <3>2. Cardinality(Seen) <= next_new - 1
      BY <2>3, <3>1, FS_Subset
    <3> QED
      BY <2>1, <2>3, <3>2 DEF WalkTypeOK, U64
  <2>5. \A i, j \in DOMAIN ids : ids[i] = ids[j] => i = j
    <3>1. ids \in Surjection(1 .. Len(ids), Seen)
      BY <2>1 DEF Seen, Surjection
    <3>2. IsFiniteSet(1 .. Len(ids)) /\ Cardinality(1 .. Len(ids)) = Len(ids)
      BY <2>1, FS_Interval
    <3>3. ids \in Injection(1 .. Len(ids), Seen)
      BY <2>3, <3>1, <3>2, FS_SurjSameCardinalityImpliesInj
    <3>4. \A i, j \in 1 .. Len(ids) : ids[i] = ids[j] => i = j
      BY <3>3 DEF Injection, IsInjective
    <3> QED
      BY <2>1, <3>4
  <2>6. IsChain(ids)
    BY <2>1, <2>5 DEF LinkedInv, IsChain
  <2> QED
    BY <2>2, <2>4, <2>6 DEF Candidates
<1> QED
  BY <1>1, WalkInvariant, PTL

-----------------------------------------------------------------------------
(* The walk over a file that persist_superblock wrote for a list with      *)
(* repeats.                                                                *)

Lists == [1 .. free_count -> 1 .. next_new - 1]

(* However often an id is on the list s, the walk never leaves s.          *)
StaysInside ==
  \A s \in Lists : WrittenFor(s) =>
    /\ Seen \subseteq Range(s)
    /\ result = "walking" => cur \in Range(s) \cup {NO_PAGE}

(* An id on the list is linked to the successor of its last occurrence,    *)
(* which is on the list as well, or to the end marker.                     *)
LEMMA LinksStayInside ==
  ASSUME WalkTypeOK, NEW s \in Lists, WrittenFor(s), NEW p \in Range(s)
  PROVE  link[p] \in Range(s) \cup {NO_PAGE}
<1> DEFINE Here == {i \in DOMAIN s : s[i] = p}
           Is(i) == i \in DOMAIN s /\ s[i] = p /\ \A j \in DOMAIN s : s[j] = p => j <= i
<1>1. DOMAIN s = 1 .. free_count /\ free_count \in Nat /\ Len(s) = free_count
  BY DEF Lists, WalkTypeOK, U64
<1>2. PICK k \in Here : \A j \in Here : j <= k
  <2>1. Here \subseteq 0 .. free_count /\ Here # {}
    BY <1>1 DEF Range
  <2> HIDE DEF Here
  <2> QED
    BY <1>1, <2>1, GreatestElement
<1>3. PICK i \in DOMAIN s : s[i] = p
  BY DEF Range
<1>4. link[p] = LET l == CHOOSE j \in DOMAIN s :
                           s[j] = s[i] /\ \A m \in DOMAIN s : s[m] = s[i] => m <= j
                IN  IF l < Len(s) THEN s[l + 1] ELSE NO_PAGE
  BY <1>3 DEF WrittenFor
<1>5. PICK l \in DOMAIN s : link[p] = IF l < Len(s) THEN s[l + 1] ELSE NO_PAGE
  BY <1>2, <1>3, <1>4
<1> QED
  BY <1>1, <1>5 DEF Range

(* It starts at the head, which is the first id of s.                      *)
LEMMA StaysInsideInit == Init => StaysInside
<1> SUFFICES ASSUME Init, NEW s \in Lists, WrittenFor(s)
             PROVE  Seen \subseteq Range(s) /\ cur \in Range(s) \cup {NO_PAGE}
  BY DEF StaysInside
<1>1. Seen = {} /\ cur = head /\ free_count \in Nat
  BY DEF Init, Seen, U64
<1>2. DOMAIN s = 1 .. free_count /\ s \in Seq(Slot)
  <2>1. s \in [1 .. free_count -> 1 .. next_new - 1]
    BY DEF Lists
  <2>2. \A i \in 1 .. next_new - 1 : i \in Slot
    BY WalkAssumption DEF Init, U64, Slot
  <2>3. s \in Seq(Slot)
    BY <1>1, <2>1, <2>2
  <2> QED
    BY <2>1, <2>3
<1>3. CASE s = <<>>
  BY <1>1, <1>3 DEF WrittenFor
<1>4. CASE s # <<>>
  <2>1. 1 \in DOMAIN s
    BY <1>1, <1>2, <1>4
  <2>2. head = s[1]
    BY <1>4 DEF WrittenFor
  <2> QED
    BY <1>1, <2>1, <2>2 DEF Range
<1> QED
  BY <1>3, <1>4

(* Every id it goes to is on the list again.                               *)
LEMMA StaysInsideStep ==
  WalkInv /\ StaysInside /\ [Next]_walkVars => StaysInside'
<1> SUFFICES ASSUME WalkInv, StaysInside, [Next]_walkVars, UNCHANGED input,
                    NEW s \in Lists, WrittenFor(s)
             PROVE  /\ Seen' \subseteq Range(s)
                    /\ result' = "walking" => cur' \in Range(s) \cup {NO_PAGE}
  BY DEF StaysInside, Lists, WrittenFor, input, Next, Step, Reject, Follow, End,
       walkVars
<1>1. /\ Seen \subseteq Range(s)
      /\ result = "walking" => cur \in Range(s) \cup {NO_PAGE}
  BY DEF StaysInside
<1>2. CASE Follow
  <2>1. cur \in Slot /\ cur \in Range(s)
    BY <1>1, <1>2, WalkAssumption
       DEF Follow, Acceptable, WalkInv, WalkTypeOK, U64, Slot
  <2>2. Seen' = Seen \cup {cur}
    BY <1>2, <2>1, SeenAppend DEF Follow, WalkInv
  <2>3. link[cur] \in Range(s) \cup {NO_PAGE}
    BY <2>1, LinksStayInside DEF WalkInv
  <2> QED
    BY <1>1, <1>2, <2>1, <2>2, <2>3 DEF Follow
<1>3. CASE Reject \/ End \/ UNCHANGED walkVars
  BY <1>1, <1>3 DEF Reject, End, walkVars, Seen
<1> QED
  BY <1>2, <1>3 DEF Next, Step

(* A list that holds an id twice, as a double free leaves it, is refused   *)
(* by the open after it was written out: the walk stays inside the list,   *)
(* whose different ids are fewer than free_count.                          *)
THEOREM DoubleFreeIsNoticed == Spec => []RepeatIsRefused
<1>1. WalkInv /\ StaysInside => RepeatIsRefused
  <2> SUFFICES ASSUME WalkInv, StaysInside, result = "ok",
                      NEW s \in Lists, WrittenFor(s)
               PROVE  \A i, j \in DOMAIN s : s[i] = s[j] => i = j
    BY DEF RepeatIsRefused, Lists
  <2>1. /\ free_count \in Nat /\ DOMAIN s = 1 .. free_count
        /\ Cardinality(Seen) = free_count /\ Seen \subseteq Range(s)
    BY DEF WalkInv, WalkTypeOK, U64, Lists, ResultInv, WalkIsBounded, StaysInside
  <2>2. IsFiniteSet(1 .. free_count) /\ Cardinality(1 .. free_count) = free_count
    BY <2>1, FS_Interval
  <2>3. s \in Surjection(1 .. free_count, Range(s))
    BY <2>1 DEF Surjection, Range, Lists
  <2>4. IsFiniteSet(Range(s)) /\ Cardinality(Range(s)) <= free_count
    BY <2>2, <2>3, FS_Surjection
  <2>5. Cardinality(Range(s)) = free_count
    <3>1. Cardinality(Seen) <= Cardinality(Range(s))
      BY <2>1, <2>4, FS_Subset
    <3>2. Cardinality(Range(s)) \in Nat
      BY <2>4, FS_CardinalityType
    <3> QED
      BY <2>1, <2>4, <3>1, <3>2
  <2>6. s \in Injection(1 .. free_count, Range(s))
    BY <2>2, <2>3, <2>5, FS_SurjSameCardinalityImpliesInj
  <2>7. \A i, j \in 1 .. free_count : s[i] = s[j] => i = j
    BY <2>6 DEF Injection, IsInjective
  <2> QED
    BY <2>1, <2>7
<1>2. Spec => []StaysInside
  BY StaysInsideInit, StaysInsideStep, WalkInvariant, PTL DEF Spec
<1> QED
  BY <1>1, <1>2, WalkInvariant, PTL

=============================================================================
