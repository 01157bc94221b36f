---------------------------- MODULE MCBufferPool ----------------------------
(* Instances of BufferPool for TLC.                                        *)
EXTENDS BufferPoolInv, TLC

CONSTANTS t1, t2, p1, p2, p3

TwoThreads == {t1, t2}
TwoPages   == {p1, p2}
ThreePages == {p1, p2, p3}

(* Threads are interchangeable, and so are pages.                          *)
Symmetry == Permutations(Thread) \cup Permutations(Page)

=============================================================================
