----------------------------- MODULE PageArray ------------------------------
(***************************************************************************)
(* What the buffer pool promises its clients: an array of pages that are   *)
(* read and changed through guards.  There are no frames here, no cache    *)
(* and no store; eviction, flushing and failed I/O must not be visible.    *)
(* A page is the number of times it has been changed; 0 is no page.        *)
(***************************************************************************)
EXTENDS Naturals

CONSTANTS Page, Guard, NoPage

VARIABLES
  view,    \* the page a reader finds under each id
  guard    \* the page each guard is open on

arrayVars == <<view, guard>>

Init ==
  /\ view \in [Page -> Nat]
  /\ guard = [g \in Guard |-> NoPage]

Changed(p) == view' = [view EXCEPT ![p] = @ + 1]

(* A guard is opened on an existing page, which is left as it is.          *)
Fetch(g, p) ==
  /\ guard[g] = NoPage /\ view[p] # 0
  /\ guard' = [guard EXCEPT ![g] = p]
  /\ UNCHANGED view

(* A guard is opened on a blank page.                                      *)
NewPage(g, p) ==
  /\ guard[g] = NoPage
  /\ guard' = [guard EXCEPT ![g] = p]
  /\ Changed(p)

(* The page is changed through a guard that is open on it.                 *)
Write(g) ==
  /\ guard[g] # NoPage
  /\ Changed(guard[g])
  /\ UNCHANGED guard

Drop(g) ==
  /\ guard[g] # NoPage
  /\ guard' = [guard EXCEPT ![g] = NoPage]
  /\ UNCHANGED view

Next ==
  \E g \in Guard :
     \/ \E p \in Page : Fetch(g, p) \/ NewPage(g, p)
     \/ Write(g) \/ Drop(g)

Spec == Init /\ [][Next]_arrayVars

=============================================================================
