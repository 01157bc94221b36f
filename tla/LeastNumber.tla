----------------------------- MODULE LeastNumber -----------------------------
(***************************************************************************)
(* The least-number principle, stated of sets: what the proofs use in the  *)
(* place of induction, for the last occurrence of an id in a free list,    *)
(* for the last written cell of a file, and, with functions that carry a   *)
(* value step by step, for what the checksum's loops compute.              *)
(***************************************************************************)
EXTENDS Integers, WellFoundedInduction, NaturalsInduction, TLAPS

(* A non-empty set of natural numbers has a least element.                 *)
LEMMA LeastElement ==
  ASSUME NEW T, T \subseteq Nat, T # {}
  PROVE  \E x \in T : \A y \in T : x <= y
<1> DEFINE R == OpToRel(<, Nat)
<1>1. IsWellFoundedOn(R, Nat)
  BY NatLessThanWellFounded, Zenon
<1>2. \E x \in T : \A y \in T : ~ (<<y, x>> \in R)
  BY <1>1, WFMin, Zenon
<1>3. \A x, y \in T : <<y, x>> \in R <=> y < x
  BY DEF OpToRel
<1>4. \E x \in T : \A y \in T : ~ (y < x)
  BY <1>2, <1>3, Zenon
<1> HIDE DEF R
<1> QED
  BY <1>4

(* A non-empty set of numbers up to n has a greatest element.              *)
LEMMA GreatestElement ==
  ASSUME NEW n \in Nat, NEW T, T \subseteq 0 .. n, T # {}
  PROVE  \E x \in T : \A y \in T : y <= x
<1> DEFINE U == {k \in Nat : k <= n /\ n - k \in T}
<1>1. \A x \in T : n - x \in U
  OBVIOUS
<1>2. U \subseteq Nat /\ U # {}
  BY <1>1
<1>3. PICK m \in U : \A k \in U : m <= k
  <2> HIDE DEF U
  <2> QED
    BY <1>2, LeastElement
<1>4. n - m \in T
  OBVIOUS
<1>5. ASSUME NEW y \in T PROVE y <= n - m
  <2>1. m <= n - y
    BY <1>1, <1>3, Zenon
  <2> QED
    BY <2>1
<1> QED
  BY <1>4, <1>5

(* From a to b, G and H start alike and take the same steps.               *)
StepAlike(G, H, a, b) ==
  G[a] = H[a] /\ \A n \in a + 1 .. b : G[n - 1] = H[n - 1] => G[n] = H[n]

(* Two functions that start alike and take the same steps are equal.       *)
LEMMA SameSteps ==
  ASSUME NEW a \in Int, NEW b \in Int, NEW G, NEW H, StepAlike(G, H, a, b)
  PROVE  \A n \in a .. b : G[n] = H[n]
<1> USE DEF StepAlike
<1> DEFINE T == {k \in Nat : a + k <= b /\ G[a + k] # H[a + k]}
<1>1. ASSUME T # {} PROVE FALSE
  <2>1. PICK m \in T : \A k \in T : m <= k
    <3>1. T \subseteq Nat
      OBVIOUS
    <3> HIDE DEF T
    <3> QED
      BY <1>1, <3>1, LeastElement
  <2>2. m \in Nat /\ a + m <= b /\ G[a + m] # H[a + m]
    OBVIOUS
  <2>3. m # 0
    <3>1. a + 0 = a
      OBVIOUS
    <3> QED
      BY <2>2, <3>1
  <2>4. m - 1 \in Nat /\ m - 1 \notin T
    BY <2>1, <2>2, <2>3
  <2>5. G[a + (m - 1)] = H[a + (m - 1)]
    BY <2>2, <2>4
  <2>6. a + m \in a + 1 .. b /\ (a + m) - 1 = a + (m - 1)
    BY <2>2, <2>3
  <2> HIDE DEF T
  <2> QED
    BY <2>2, <2>5, <2>6
<1>2. ASSUME NEW n \in a .. b PROVE G[n] = H[n]
  <2>1. n - a \in Nat /\ a + (n - a) = n /\ n <= b
    OBVIOUS
  <2> QED
    BY <1>1, <2>1
<1> QED
  BY <1>2

(* N steps on the values W; f takes them from c on.                        *)
AreSteps(S, N, W) == S \in [1 .. N -> [W -> W]]

Follows(f, c, S, N, W) ==
  /\ f \in [0 .. N -> W]
  /\ f[0] = c
  /\ \A n \in 1 .. N : f[n] = S[n][f[n - 1]]

(* A value can be carried through any number of given steps.               *)
LEMMA StepsExist ==
  ASSUME NEW N \in Nat, NEW W, NEW c \in W, NEW S, AreSteps(S, N, W)
  PROVE  \E f : Follows(f, c, S, N, W)
<1> DEFINE Upto(k) == \E f \in [0 .. k -> W] :
                        f[0] = c /\ \A n \in 1 .. k : f[n] = S[n][f[n - 1]]
           T == {k \in Nat : k <= N /\ ~ Upto(k)}
<1>1. Upto(0)
  <2> DEFINE g == [i \in 0 .. 0 |-> c]
  <2>1. g \in [0 .. 0 -> W] /\ g[0] = c
    OBVIOUS
  <2>2. \A n \in 1 .. 0 : FALSE
    OBVIOUS
  <2> HIDE DEF g
  <2> QED
    BY <2>1, <2>2
<1>2. ASSUME NEW k \in Nat, k < N, Upto(k) PROVE Upto(k + 1)
  <2>1. PICK f \in [0 .. k -> W] :
          f[0] = c /\ \A n \in 1 .. k : f[n] = S[n][f[n - 1]]
    BY <1>2
  <2> DEFINE g == [i \in 0 .. k + 1 |-> IF i = k + 1 THEN S[k + 1][f[k]] ELSE f[i]]
  <2>2. S[k + 1] \in [W -> W] /\ f[k] \in W
    BY <1>2 DEF AreSteps
  <2>3. g \in [0 .. k + 1 -> W]
    BY <2>2
  <2>4. g[0] = c
    BY <2>1
  <2>5. ASSUME NEW n \in 1 .. k + 1 PROVE g[n] = S[n][g[n - 1]]
    <3>1. CASE n = k + 1
      <4>1. n - 1 = k /\ k \in 0 .. k + 1 /\ k # k + 1
        BY <3>1
      <4>2. g[n - 1] = f[k]
        BY <4>1
      <4> QED
        BY <3>1, <4>2
    <3>2. CASE n # k + 1
      <4>1. n \in 1 .. k /\ n - 1 \in 0 .. k + 1 /\ n - 1 # k + 1
        BY <3>2
      <4> QED
        BY <2>1, <4>1
    <3> QED
      BY <3>1, <3>2
  <2> HIDE DEF g
  <2> QED
    BY <2>3, <2>4, <2>5
<1>3. T = {}
  <2>1. SUFFICES ASSUME T # {} PROVE FALSE
    OBVIOUS
  <2>2. T \subseteq Nat
    OBVIOUS
  <2>3. PICK m \in T : \A k \in T : m <= k
    <3> HIDE DEF T
    <3> QED
      BY <2>1, <2>2, LeastElement
  <2> HIDE DEF Upto
  <2>4. m \in Nat /\ m <= N /\ ~ Upto(m)
    OBVIOUS
  <2>5. m # 0
    BY <1>1, <2>4
  <2>6. m - 1 \in Nat /\ m - 1 < N /\ m - 1 \notin T
    BY <2>3, <2>4, <2>5
  <2>7. Upto(m - 1)
    BY <2>6
  <2>8. Upto((m - 1) + 1)
    BY <1>2, <2>6, <2>7
  <2>9. (m - 1) + 1 = m
    BY <2>4
  <2> QED
    BY <2>4, <2>8, <2>9
<1>4. Upto(N)
  <2> HIDE DEF Upto
  <2> QED
    BY <1>3
<1> QED
  BY <1>4 DEF Follows

=============================================================================
