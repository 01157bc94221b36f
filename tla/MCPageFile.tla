----------------------------- MODULE MCPageFile ------------------------------
(* Instances of PageFile for TLC.                                          *)
EXTENDS PageFile, TLC

CONSTANTS a, b, c

(* Id 0 gets two pages, such that the front of one and the back of the     *)
(* other make a page of neither; the others, one that shares the slot and  *)
(* one that is next to it, get one page each.                              *)
Pages ==
  [id \in PageId |->
     IF id = 0 THEN {<<<<a, id>>, <<b, id>>>>, <<<<b, id>>, <<a, id>>>>}
     ELSE {<<<<c, id>>, <<c, id>>>>}]

(* Exchanging a and b exchanges the two pages.                             *)
Symmetry == Permutations(Thread) \cup Permutations({a, b})

=============================================================================
