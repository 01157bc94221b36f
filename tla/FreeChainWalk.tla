---------------------------- MODULE FreeChainWalk ----------------------------
(***************************************************************************)
(* walk_free_chain of src/src/alloc.rs: the free list is read back from    *)
(* disk by following one link per free page.  Superblock and links are     *)
(* untrusted: they may be stale, torn, or written by something else.       *)
(* Numbers are u64; NO_PAGE is u64::MAX, both sentinel and largest number. *)
(***************************************************************************)
EXTENDS Integers, Sequences, FiniteSets

CONSTANT NO_PAGE

ASSUME WalkAssumption == NO_PAGE \in Nat \ {0}

U64        == 0 .. NO_PAGE
Unreadable == -1                  \* read_into returns an error

VARIABLES
  head, next_new, free_count,     \* what the superblock says
  link,                           \* what the page at an id says
  cur, ids,                       \* the loop; `seen` is the set of ids so far
  result                          \* "walking", "ok", "invalid" or "io"

input    == <<head, next_new, free_count, link>>
walkVars == <<input, cur, ids, result>>

Slot == 1 .. NO_PAGE - 1
Seen == {ids[i] : i \in DOMAIN ids}

(* What the fuzz target's store can hold: any number as a link, and pages  *)
(* the input was too short for.                                            *)
FuzzStore == [Slot -> U64 \cup {Unreadable}]

Init ==
  /\ head \in U64 /\ next_new \in U64 \ {0} /\ free_count \in U64
  /\ link \in FuzzStore
  /\ cur = head /\ ids = <<>> /\ result = "walking"

(* The three tests at the head of the loop.  Mutants: repeats are not      *)
(* looked for; the high-water mark counts as allocated.                    *)
AcceptableRepeat   == Len(ids) < free_count /\ cur # 0 /\ cur < next_new
AcceptableUnissued ==
  Len(ids) < free_count /\ cur # 0 /\ cur <= next_new /\ cur \notin Seen

Acceptable ==
  /\ Len(ids) < free_count
  /\ cur # 0 /\ cur < next_new
  /\ cur \notin Seen

(* Mutant: a repeat is passed over instead of rejected.                    *)
RejectSkips ==
  /\ result = "walking" /\ cur # NO_PAGE
  /\ ~ Acceptable
  /\ IF Len(ids) < free_count /\ cur \in Seen
       THEN cur' = link[cur] /\ UNCHANGED result
       ELSE result' = "invalid" /\ UNCHANGED cur
  /\ UNCHANGED <<input, ids>>

(* A test fails: InvalidSuperblock.                                        *)
Reject ==
  /\ result = "walking" /\ cur # NO_PAGE
  /\ ~ Acceptable
  /\ result' = "invalid"
  /\ UNCHANGED <<input, cur, ids>>

(* The id is collected and its page read for the next one.                 *)
Follow ==
  /\ result = "walking" /\ cur # NO_PAGE
  /\ Acceptable
  /\ ids' = Append(ids, cur)
  /\ IF link[cur] = Unreadable
       THEN result' = "io" /\ UNCHANGED cur
       ELSE cur' = link[cur] /\ UNCHANGED result
  /\ UNCHANGED input

(* The end of the chain must be where the superblock says it is.  Mutant:  *)
(* the count is not compared.                                              *)
EndAnywhere ==
  /\ result = "walking" /\ cur = NO_PAGE
  /\ result' = "ok"
  /\ UNCHANGED <<input, cur, ids>>

End ==
  /\ result = "walking" /\ cur = NO_PAGE
  /\ result' = IF Len(ids) = free_count THEN "ok" ELSE "invalid"
  /\ UNCHANGED <<input, cur, ids>>

Step == Reject \/ Follow \/ End

Next == Step

Spec == Init /\ [][Next]_walkVars /\ WF_walkVars(Next)

-----------------------------------------------------------------------------
(* The type of every variable.                                             *)
WalkTypeOK ==
  /\ head \in U64 /\ next_new \in U64 \ {0} /\ free_count \in U64
  /\ link \in [Slot -> U64 \cup {Unreadable}]
  /\ cur \in U64
  /\ ids \in Seq(Slot)
  /\ result \in {"walking", "ok", "invalid", "io"}

(* s is the free list on disk: free_count different allocated ids, linked  *)
(* from the head to the end marker, all readable.                          *)
IsChain(s) ==
  /\ \A i, j \in DOMAIN s : s[i] = s[j] => i = j
  /\ head = IF s = <<>> THEN NO_PAGE ELSE s[1]
  /\ \A i \in DOMAIN s :
       link[s[i]] = IF i = Len(s) THEN NO_PAGE ELSE s[i + 1]

(* Only lists of free_count allocated ids are candidates; more of them     *)
(* than there are allocated ids cannot all differ.                         *)
Candidates ==
  IF free_count < next_new THEN [1 .. free_count -> 1 .. next_new - 1] ELSE {}

(* The walk accepts exactly the well-formed chains, and returns the chain  *)
(* in the order it was written (alloc.rs:278-285).                         *)
WalkIsExact ==
  /\ result = "ok" => ids \in Candidates /\ IsChain(ids)
  /\ result \in {"invalid", "io"} => \A s \in Candidates : ~ IsChain(s)

(* However corrupt the input, the walk collects no id twice, none that was *)
(* never allocated, and never more than free_count (alloc.rs:281-285).     *)
WalkIsBounded ==
  /\ Len(ids) <= free_count
  /\ \A i \in DOMAIN ids : ids[i] \in 1 .. next_new - 1
  /\ Cardinality(Seen) = Len(ids)

(* The file is as persist_superblock leaves it for the free list s: the    *)
(* link of a page is the one written last.                                 *)
WrittenFor(s) ==
  LET Last(p) == CHOOSE i \in DOMAIN s : s[i] = p /\ \A j \in DOMAIN s : s[j] = p => j <= i
      after(i) == IF i < Len(s) THEN s[i + 1] ELSE NO_PAGE
  IN  /\ head = IF s = <<>> THEN NO_PAGE ELSE s[1]
      /\ \A i \in DOMAIN s : link[s[i]] = after(Last(s[i]))

(* A double free does not outlive its process unnoticed: a free list that  *)
(* holds an id twice, once it is written out, is refused by the next open, *)
(* which never takes a shorter list without the repeat for it              *)
(* (alloc.rs:194-196, 281-285).                                            *)
RepeatIsRefused ==
  result = "ok" =>
    \A s \in [1 .. free_count -> 1 .. next_new - 1] :
      WrittenFor(s) => \A i, j \in DOMAIN s : s[i] = s[j] => i = j

(* A cyclic or endless chain does not hang the open (alloc.rs:307-308).    *)
WalkEnds == <>(result # "walking")

=============================================================================
