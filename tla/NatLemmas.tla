------------------------------ MODULE NatLemmas ------------------------------
(***************************************************************************)
(* Facts about natural numbers that the proofs about the allocators share: *)
(* multiples, quotients and sequences of doubles.                          *)
(***************************************************************************)
EXTENDS Integers, WellFoundedInduction, TLAPS

(* A set of natural numbers has a least element: what induction on orders  *)
(* rests on.                                                               *)
LEMMA LeastElement ==
  ASSUME NEW T, T \subseteq Nat, T # {}
  PROVE  \E x \in T : \A y \in T : x <= y
<1> DEFINE R == {ss \in Nat \X Nat : ss[1] < ss[2]}
<1>1. OpToRel(<, Nat) = R
  BY Zenon DEF OpToRel
<1>2. IsWellFoundedOn(R, Nat)
  BY <1>1, NatLessThanWellFounded, Zenon
<1>3. PICK x \in T : \A y \in T : ~ (<<y, x>> \in R)
  BY <1>2, WFMin, Zenon
<1>4. ASSUME NEW y \in T PROVE x <= y
  <2>1. x \in Nat /\ y \in Nat
    OBVIOUS
  <2>2. ~ (<<y, x>> \in R)
    BY <1>3
  <2>3. ~ (y < x)
    BY <2>1, <2>2
  <2> QED
    BY <2>1, <2>3
<1> QED
  BY <1>4

(* A remainder of 0 means a multiple.                                      *)
LEMMA Multiple ==
  ASSUME NEW x \in Int, NEW d \in Nat \ {0}
  PROVE  /\ x % d = 0 => \E k \in Int : x = k * d
         /\ \A k \in Int : x = k * d => x % d = 0
<1> DEFINE q == x \div d
           r == x % d
<1>1. q \in Int /\ r \in Int /\ 0 <= r /\ r < d /\ x = d * q + r
  OBVIOUS
<1> HIDE DEF q, r
<1>2. r = 0 => x = q * d
  BY <1>1
<1>3. ASSUME NEW k \in Int, x = k * d PROVE r = 0
  <2>1. r = (k - q) * d
    BY <1>1, <1>3
  <2>2. ~ (k - q >= 1)
    <3> SUFFICES ASSUME k - q >= 1 PROVE FALSE
      OBVIOUS
    <3>1. (k - q) * d >= 1 * d
      BY <1>1
    <3> QED
      BY <1>1, <2>1, <3>1
  <2>3. ~ (k - q <= -1)
    <3> SUFFICES ASSUME k - q <= -1 PROVE FALSE
      OBVIOUS
    <3>1. (k - q) * d <= (-1) * d
      BY <1>1
    <3> QED
      BY <1>1, <2>1, <3>1
  <2>4. k - q = 0
    BY <1>1, <2>2, <2>3
  <2> QED
    BY <1>1, <2>1, <2>4
<1> QED
  BY <1>1, <1>2, <1>3 DEF r

(* Sums and differences of multiples are multiples, and two different ones *)
(* are at least d apart.                                                   *)
LEMMA Multiples ==
  ASSUME NEW x \in Int, NEW y \in Int, NEW d \in Nat \ {0},
         x % d = 0, y % d = 0
  PROVE  /\ (x + y) % d = 0
         /\ (x - y) % d = 0
         /\ x < y => x + d <= y
<1>1. PICK j \in Int : x = j * d
  BY Multiple
<1>2. PICK k \in Int : y = k * d
  BY Multiple
<1>3. (x + y) % d = 0
  <2>1. x + y = (j + k) * d /\ j + k \in Int /\ x + y \in Int
    BY <1>1, <1>2
  <2> QED
    BY <2>1, Multiple
<1>4. (x - y) % d = 0
  <2>1. x - y = (j - k) * d /\ j - k \in Int /\ x - y \in Int
    BY <1>1, <1>2
  <2> QED
    BY <2>1, Multiple
<1>5. ASSUME x < y PROVE x + d <= y
  <2>1. ~ (k - j <= 0)
    <3> SUFFICES ASSUME k - j <= 0 PROVE FALSE
      OBVIOUS
    <3>1. (k - j) * d <= 0
      OBVIOUS
    <3> QED
      BY <1>1, <1>2, <1>5, <3>1
  <2>2. (k - j) * d >= 1 * d
    BY <2>1
  <2> QED
    BY <1>1, <1>2, <2>2
<1> QED
  BY <1>3, <1>4, <1>5

(* A multiple of a multiple.                                               *)
LEMMA MultipleTrans ==
  ASSUME NEW x \in Int, NEW d \in Nat \ {0}, NEW e \in Nat \ {0},
         x % e = 0, e % d = 0
  PROVE  x % d = 0
<1>1. PICK j \in Int : x = j * e
  BY Multiple
<1>2. PICK k \in Int : e = k * d
  BY Multiple
<1>3. x = (j * k) * d /\ j * k \in Int
  BY <1>1, <1>2
<1> QED
  BY <1>3, Multiple

(* In a sequence of numbers each of which is twice the one before, the     *)
(* smaller ones divide the larger ones: block and object sizes.            *)
LEMMA DoublesDivide ==
  ASSUME NEW n \in Nat, NEW P,
         \A k \in 0 .. n : P[k] \in Nat \ {0},
         \A k \in 0 .. n - 1 : P[k + 1] = 2 * P[k],
         NEW a \in 0 .. n, NEW b \in 0 .. n, a <= b
  PROVE  P[b] % P[a] = 0
<1> DEFINE T == {j \in Nat : a + j <= n /\ P[a + j] % P[a] # 0}
<1>1. a \in Nat /\ b \in Nat /\ P[a] \in Nat \ {0}
  OBVIOUS
<1>2. ASSUME T # {} PROVE FALSE
  <2>1. PICK x \in T : \A y \in T : x <= y
    BY <1>2, LeastElement
  <2>2. x \in Nat /\ a + x <= n /\ P[a + x] % P[a] # 0
    BY <2>1
  <2>3. x # 0
    <3>1. P[a] = 1 * P[a]
      BY <1>1
    <3>2. P[a] % P[a] = 0
      BY <1>1, <3>1, Multiple
    <3> QED
      BY <1>1, <2>2, <3>2
  <2>4. PICK y, z : y = a + (x - 1) /\ z = a + x
    OBVIOUS
  <2>5. /\ x - 1 \in Nat /\ y <= n /\ y \in 0 .. n - 1 /\ y \in 0 .. n
        /\ z = y + 1 /\ x - 1 < x
    BY <1>1, <2>2, <2>3, <2>4
  <2>6. x - 1 \notin T
    <3>1. ~ (x <= x - 1)
      BY <2>2
    <3> HIDE DEF T
    <3> QED
      BY <2>1, <3>1, Zenon
  <2>7. P[y] % P[a] = 0
    BY <2>4, <2>5, <2>6
  <2> DEFINE e == P[y]
  <2>8. e \in Nat \ {0} /\ P[z] = e + e
    <3>1. P[y + 1] = 2 * P[y] /\ P[y] \in Nat \ {0}
      BY <2>5
    <3> QED
      BY <2>5, <3>1
  <2>9. (e + e) % P[a] = 0
    <3> HIDE DEF e
    <3>1. e \in Int /\ e % P[a] = 0
      BY <2>7, <2>8 DEF e
    <3> QED
      BY <1>1, <3>1, Multiples
  <2>10. P[z] % P[a] # 0
    BY <2>2, <2>4
  <2> QED
    BY <2>8, <2>9, <2>10, Zenon
<1>3. b - a \in Nat /\ a + (b - a) = b /\ b <= n
  BY <1>1
<1>4. b - a \notin T
  BY <1>2
<1> QED
  BY <1>3, <1>4

(* Quotients and bounds: the page or the slot an address is in.            *)
LEMMA Quotient ==
  ASSUME NEW x \in Nat, NEW k \in Int, NEW d \in Nat \ {0}
  PROVE  /\ x \div d \in Nat
         /\ x < k * d => x \div d < k
         /\ k * d <= x => k <= x \div d
<1> DEFINE q == x \div d
           r == x % d
<1>1. q \in Int /\ r \in Int /\ 0 <= r /\ r < d /\ x = d * q + r
  OBVIOUS
<1> HIDE DEF q, r
<1>2. q >= 0
  <2> SUFFICES ASSUME q <= -1 PROVE FALSE
    BY <1>1
  <2>1. d * q <= d * (-1)
    BY <1>1
  <2> QED
    BY <1>1, <2>1
<1>3. ASSUME x < k * d, k <= q PROVE FALSE
  <2>1. k * d <= q * d
    BY <1>1, <1>3
  <2> QED
    BY <1>1, <1>3, <2>1
<1>4. ASSUME k * d <= x, q < k PROVE FALSE
  <2>1. (q + 1) * d <= k * d
    <3>1. q + 1 <= k
      BY <1>1, <1>4
    <3> QED
      BY <1>1, <3>1
  <2>2. (q + 1) * d = d * q + d
    BY <1>1
  <2> QED
    BY <1>1, <1>4, <2>1, <2>2
<1> QED
  BY <1>1, <1>2, <1>3, <1>4 DEF q

(* f[k] is computed from f[k - 1] and k by R.                              *)
Iterates(f, n, a, R) == f[0] = a /\ \A k \in 1 .. n : f[k] = R[<<f[k - 1], k>>]

(* There is such an f: what makes a loop written as a recursive function   *)
(* well defined.                                                           *)
LEMMA Iteration ==
  ASSUME NEW n \in Nat, NEW a, NEW X, a \in X, NEW R \in [X \X (1 .. n) -> X]
  PROVE  \E f \in [0 .. n -> X] : Iterates(f, n, a, R)
<1> USE DEF Iterates
<1> DEFINE Ok(f, m) == f[0] = a /\ \A k \in 1 .. m : f[k] = R[<<f[k - 1], k>>]
           T == {m \in Nat : m <= n /\ ~ \E f \in [0 .. m -> X] : Ok(f, m)}
<1>1. ASSUME T # {} PROVE FALSE
  <2>1. T \subseteq Nat
    OBVIOUS
  <2>2. PICK m \in T : \A j \in T : m <= j
    BY <1>1, <2>1, LeastElement
  <2>3. m \in Nat /\ m <= n /\ ~ \E f \in [0 .. m -> X] : Ok(f, m)
    BY <2>2
  <2>4. CASE m = 0
    <3> DEFINE h == [k \in 0 .. 0 |-> a]
    <3>1. h \in [0 .. m -> X] /\ h[0] = a
      BY <2>4
    <3>2. \A k \in 1 .. m : FALSE
      BY <2>4
    <3> QED
      BY <2>3, <3>1, <3>2
  <2>5. CASE m # 0
    <3>1. PICK l : l = m - 1
      OBVIOUS
    <3>2. l \in Nat /\ l <= n /\ ~ (m <= l) /\ m = l + 1
      BY <2>3, <2>5, <3>1
    <3>3. l \notin T
      BY <2>2, <3>2
    <3>4. PICK f \in [0 .. l -> X] : Ok(f, l)
      BY <3>2, <3>3
    <3> DEFINE h == [k \in 0 .. m |-> IF k = m THEN R[<<f[l], m>>] ELSE f[k]]
    <3>5. f[l] \in X /\ m \in 1 .. n
      BY <2>3, <3>2
    <3>6. R[<<f[l], m>>] \in X
      BY <3>5
    <3>7. /\ \A k \in 0 .. l : h[k] = f[k] /\ f[k] \in X
          /\ h[m] = R[<<f[l], m>>]
      BY <3>2
    <3>8. h \in [0 .. m -> X]
      <4>1. \A k \in 0 .. m : k # m => k \in 0 .. l
        BY <3>2
      <4> QED
        BY <3>6, <3>7, <4>1
    <3> HIDE DEF h
    <3>9. h[0] = a
      <4>1. 0 \in 0 .. l
        BY <3>2
      <4> QED
        BY <3>4, <3>7, <4>1
    <3>10. ASSUME NEW k \in 1 .. m PROVE h[k] = R[<<h[k - 1], k>>]
      <4>1. CASE k = m
        <5>1. k - 1 = l /\ l \in 0 .. l
          BY <3>2, <4>1
        <5> QED
          BY <3>7, <4>1, <5>1
      <4>2. CASE k # m
        <5>1. k \in 1 .. l /\ k \in 0 .. l /\ k - 1 \in 0 .. l
          BY <3>2, <4>2
        <5> QED
          BY <3>4, <3>7, <5>1
      <4> QED
        BY <4>1, <4>2
    <3> QED
      BY <2>3, <3>8, <3>9, <3>10
  <2> QED
    BY <2>4, <2>5
<1>2. n \notin T
  BY <1>1
<1> QED
  BY <1>2

(* A loop whose steps keep V keeps V: V[k] are the values allowed after k  *)
(* steps.                                                                  *)
LEMMA LoopInvariant ==
  ASSUME NEW n \in Nat, NEW f, NEW V, f[0] \in V[0],
         \A k \in 1 .. n : f[k - 1] \in V[k - 1] => f[k] \in V[k]
  PROVE  \A k \in 0 .. n : f[k] \in V[k]
<1> SUFFICES ASSUME NEW k0 \in 0 .. n, f[k0] \notin V[k0] PROVE FALSE
  OBVIOUS
<1> DEFINE T == {k \in Nat : k <= n /\ f[k] \notin V[k]}
<1>1. k0 \in T /\ T \subseteq Nat
  OBVIOUS
<1>2. PICK m \in T : \A j \in T : m <= j
  BY <1>1, LeastElement
<1>3. m \in Nat /\ m <= n /\ f[m] \notin V[m] /\ m # 0
  BY <1>2
<1>4. PICK l : l = m - 1
  OBVIOUS
<1>5. l \in Nat /\ l <= n /\ ~ (m <= l) /\ m \in 1 .. n
  BY <1>3, <1>4
<1>6. f[l] \in V[l]
  BY <1>2, <1>5
<1> QED
  BY <1>3, <1>4, <1>5, <1>6

(* A loop whose steps S keep V has the values it computes: the existence a *)
(* recursive function's definition asks for.                               *)
LoopKeeps(n, a, V, S) ==
  a \in V[0] /\ \A k \in 1 .. n : \A x \in V[k - 1] : S[<<x, k>>] \in V[k]
LoopIn(f, n, a, V, S) ==
  /\ f = [k \in 0 .. n |-> f[k]]
  /\ f[0] = a /\ \A k \in 1 .. n : f[k] = S[<<f[k - 1], k>>]
  /\ \A k \in 0 .. n : f[k] \in V[k]
LEMMA LoopExists ==
  ASSUME NEW n \in Nat, NEW a, NEW V, NEW S, LoopKeeps(n, a, V, S)
  PROVE  \E f : LoopIn(f, n, a, V, S)
<1> DEFINE X == UNION {V[k] : k \in 0 .. n}
           R == [z \in X \X (1 .. n) |-> IF S[z] \in X THEN S[z] ELSE a]
<1>1. /\ 0 \in 0 .. n
      /\ \A k \in 1 .. n : k \in 0 .. n /\ k - 1 \in 0 .. n
  OBVIOUS
<1>2. a \in X /\ \A k \in 0 .. n : V[k] \subseteq X
  BY <1>1 DEF LoopKeeps
<1> HIDE DEF X
<1>3. /\ R \in [X \X (1 .. n) -> X]
      /\ \A x \in X, k \in 1 .. n : S[<<x, k>>] \in X => R[<<x, k>>] = S[<<x, k>>]
  BY <1>2
<1> HIDE DEF R
<1>4. PICK f \in [0 .. n -> X] : Iterates(f, n, a, R)
  BY <1>2, <1>3, Iteration
<1>5. ASSUME NEW k \in 1 .. n, f[k - 1] \in V[k - 1]
      PROVE  f[k] = S[<<f[k - 1], k>>] /\ f[k] \in V[k]
  <2>1. S[<<f[k - 1], k>>] \in V[k] /\ S[<<f[k - 1], k>>] \in X /\ f[k - 1] \in X
    BY <1>1, <1>2, <1>5 DEF LoopKeeps
  <2> QED
    BY <1>3, <1>4, <2>1 DEF Iterates
<1>6. f[0] = a /\ f[0] \in V[0]
  BY <1>4 DEF Iterates, LoopKeeps
<1>7. \A k \in 0 .. n : f[k] \in V[k]
  BY <1>5, <1>6, LoopInvariant
<1>8. \A k \in 1 .. n : f[k] = S[<<f[k - 1], k>>]
  BY <1>1, <1>5, <1>7
<1>9. f = [k \in 0 .. n |-> f[k]]
  BY <1>4
<1> QED
  BY <1>6, <1>7, <1>8, <1>9 DEF LoopIn
=============================================================================
