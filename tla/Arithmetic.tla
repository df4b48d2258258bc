----------------------------- MODULE Arithmetic -----------------------------
(***************************************************************************)
(* Quotients and remainders: the facts about pages, slots and ring indices *)
(* the other proofs need and the provers do not find by themselves; and    *)
(* induction, over a set of natural numbers.                               *)
(***************************************************************************)
EXTENDS Integers, WellFoundedInduction, TLAPS

(* Division with remainder, as the provers know it: a page and the offset  *)
(* in it make up the address (ICache::fetch_page).                         *)
LEMMA DivisionWithRemainder ==
    ASSUME NEW x \in Nat, NEW y \in Nat \ {0}
    PROVE  /\ x \div y \in Nat /\ x % y \in 0..(y - 1)
           /\ x = y * (x \div y) + (x % y)
  OBVIOUS

(* A whole number of slots leaves nothing over.                            *)
LEMMA RemainderOfSelf ==
    ASSUME NEW y \in Nat \ {0}
    PROVE  y % y = 0
  OBVIOUS

(* The page an address is in is the one whose bounds it lies between.      *)
LEMMA QuotientIs ==
    ASSUME NEW x \in Nat, NEW y \in Nat \ {0}, NEW q \in Nat,
           y * q <= x, x < y * (q + 1)
    PROVE  x \div y = q
  OBVIOUS

(* The next address is on the same page unless this one is its last.       *)
LEMMA QuotientOfNext ==
    ASSUME NEW x \in Nat, NEW y \in Nat \ {0}, (x % y) + 1 < y
    PROVE  (x + 1) \div y = x \div y
  <1> DEFINE q == x \div y
             base == y * q
  <1>1. q \in Nat /\ x % y \in 0..(y - 1) /\ x = base + (x % y)
    BY DivisionWithRemainder
  <1>a. base \in Nat
    BY <1>1
  <1>2. y * (q + 1) = base + y
    BY <1>1
  <1>3. base <= x + 1 /\ x + 1 < y * (q + 1)
    <2> HIDE DEF base, q
    <2> QED BY <1>1, <1>a, <1>2
  <1>4. \A r \in Nat : y * r <= x + 1 /\ x + 1 < y * (r + 1) => (x + 1) \div y = r
    BY QuotientIs
  <1> QED
    BY <1>1, <1>3, <1>4

(* An even address is even within its page too.                            *)
LEMMA RemainderOfEven ==
    ASSUME NEW x \in Nat, x % 2 = 0, NEW y \in Nat \ {0}, y % 2 = 0
    PROVE  (x % y) % 2 = 0
  <1> DEFINE q == x \div y
             half == y \div 2
             m == half * q
  <1>1. q \in Nat /\ x % y \in 0..(y - 1) /\ x = y * q + (x % y)
    BY DivisionWithRemainder
  <1>2. half \in Nat /\ y = 2 * half
    OBVIOUS
  <1>3. y * q = 2 * m /\ m \in Nat
    BY <1>1, <1>2
  <1>4. x = 2 * m + (x % y)
    BY <1>1, <1>3
  <1> HIDE DEF m
  <1> QED
    BY <1>1, <1>3, <1>4

(* What the modulus leaves alone, and what it brings back.                 *)
LEMMA RemainderOfSmall ==
    ASSUME NEW y \in Nat \ {0}
    PROVE  /\ \A x \in 0..(y - 1) : x % y = x
           /\ \A x \in 0..(y - 1) : x # 0 => (x - y) % y = x
  <1>1. ASSUME NEW x \in 0..(y - 1) PROVE x % y = x
    OBVIOUS
  <1>2. ASSUME NEW x \in 0..(y - 1) PROVE (x - y) % y = x
    OBVIOUS
  <1> QED
    BY <1>1, <1>2

(* A turn of a ring of y slots, or several, ends in the slot it began in.  *)
LEMMA RemainderOfSum ==
    ASSUME NEW x \in Nat, NEW y \in Nat \ {0}, NEW m \in Nat, m % y = 0
    PROVE  (x + m) % y = x % y
  <1> DEFINE d == m \div y
             q == x \div y
             r == x % y
             z == x + m
             t == q + d
             a == y * q
             b == y * d
  <1>1. d \in Nat /\ m = b /\ q \in Nat /\ r \in 0..(y - 1) /\ x = a + r
    BY DivisionWithRemainder
  <1>2. a \in Nat /\ b \in Nat /\ t \in Nat /\ z \in Nat
    BY <1>1
  <1>3. y * t = a + b /\ y * (t + 1) = y * t + y
    BY <1>1
  <1> HIDE DEF d, q, r, a, b
  <1>4. z = y * t + r /\ y * t \in Nat
    <2> HIDE DEF t
    <2> QED
      BY <1>1, <1>2, <1>3 DEF z
  <1> HIDE DEF t, z
  <1>5. y * t <= z /\ z < y * (t + 1)
    BY <1>1, <1>3, <1>4
  <1>6. z \div y = t
    BY <1>2, <1>5, QuotientIs
  <1>7. z % y \in 0..(y - 1) /\ z = y * t + (z % y)
    BY <1>2, <1>6, DivisionWithRemainder
  <1>8. z % y = r
    <2> DEFINE w == z % y
               c == y * t
    <2>1. w \in Int /\ c \in Int /\ z = c + w /\ z = c + r /\ r \in Int
      BY <1>1, <1>4, <1>7
    <2> HIDE DEF w, c
    <2>2. w = r
      BY <2>1
    <2> QED
      BY <2>2 DEF w
  <1> QED
    BY <1>8 DEF z, r

(* Places a ring's length apart or closer are different slots.             *)
LEMMA RemaindersApart ==
    ASSUME NEW x \in Nat, NEW n \in Nat \ {0}, NEW j \in 0..(n - 1), NEW k \in 0..(n - 1),
           (x + j) % n = (x + k) % n
    PROVE  j = k
  <1>1. ASSUME NEW a \in 0..(n - 1), NEW b \in 0..(n - 1), a < b, (x + a) % n = (x + b) % n
        PROVE  FALSE
    <2> DEFINE y == x + a
               z == x + b
               p == y \div n
               q == z \div n
               m == y % n
               u == n * p
               v == n * q
    <2>1. y \in Nat /\ z \in Nat /\ y < z /\ z < y + n
      BY <1>1
    <2>2. /\ p \in Nat /\ q \in Nat /\ m \in 0..(n - 1)
          /\ y = u + m /\ z = v + (z % n) /\ z % n = m
      <3> HIDE DEF y, z
      <3>1. y % n = z % n
        BY <1>1 DEF y, z
      <3> QED
        BY <2>1, <3>1, DivisionWithRemainder
    <2>3. u \in Nat /\ v \in Nat
      BY <2>2
    <2> HIDE DEF y, z, p, q, m
    <2>4. u < v /\ v < u + n
      <3> HIDE DEF u, v
      <3> QED
        BY <2>1, <2>2, <2>3
    <2>5. q >= p + 1
      <3>1. q <= p => n * q <= n * p
        BY <2>2
      <3> QED
        BY <2>2, <2>3, <2>4, <3>1
    <2>6. n * q >= n * (p + 1) /\ n * (p + 1) = n * p + n
      BY <2>2, <2>5
    <2> QED
      BY <2>2, <2>3, <2>4, <2>6
  <1>2. ~(j < k) /\ ~(k < j)
    BY <1>1
  <1> QED
    BY <1>2

(* The memory ends where a page ends: an address whose successor is on its *)
(* page is not the last of all.                                            *)
LEMMA LastBelowMultiple ==
    ASSUME NEW x \in Nat, NEW y \in Nat \ {0}, NEW d \in Nat, d % y = 0,
           x < d, (x + 1) \div y = x \div y
    PROVE  x + 1 < d
  OBVIOUS

(* A set that holds 0 and, with a number, the next holds them all.         *)
LEMMA SetInduction ==
    ASSUME NEW A, 0 \in A, \A n \in Nat : n \in A => n + 1 \in A
    PROVE  Nat \subseteq A
  <1> DEFINE B == Nat \ A
  <1>1. SUFFICES ASSUME B # {} PROVE FALSE
    OBVIOUS
  <1> DEFINE R == {p \in Nat \X Nat : p[1] < p[2]}
  <1>2. IsWellFoundedOn(R, Nat)
    BY NatLessThanWellFounded, Zenon DEF OpToRel
  <1>3. \A i, j \in Nat : i < j => <<i, j>> \in R
    OBVIOUS
  <1> HIDE DEF R
  <1>4. PICK n \in B : \A m \in B : <<m, n>> \notin R
    BY <1>1, <1>2, WFMin DEF R
  <1>5. n \in Nat /\ n \notin A /\ n # 0
    OBVIOUS
  <1>6. n - 1 \in Nat /\ n - 1 < n /\ (n - 1) + 1 = n
    BY <1>5
  <1>7. n - 1 \in A
    BY <1>3, <1>4, <1>6
  <1> QED
    BY <1>5, <1>6, <1>7

\* f starts at e, and g[i] is its turn for i.
Recurses(f, e, g, n) == f[0] = e /\ \A i \in 1..n : f[i] = g[i][f[i - 1]]

(* A recursive function exists when every turn stays in the set it starts  *)
(* from.                                                                   *)
LEMMA RecursionExists ==
    ASSUME NEW S, NEW e \in S, NEW n \in Nat, NEW g,
           \A i \in 1..n : \A x \in S : g[i][x] \in S
    PROVE  \E f \in [0..n -> S] : Recurses(f, e, g, n)
  <1> DEFINE Upto(k, f) == f[0] = e /\ \A i \in 1..k : f[i] = g[i][f[i - 1]]
             A == {k \in Nat : k <= n => \E f \in [0..k -> S] : Upto(k, f)}
  <1>1. 0 \in A
    <2> DEFINE f == [i \in 0..0 |-> e]
    <2>1. f \in [0..0 -> S] /\ Upto(0, f)
      OBVIOUS
    <2> HIDE DEF f
    <2> QED
      BY <2>1
  <1>2. ASSUME NEW k \in Nat, k \in A PROVE k + 1 \in A
    <2>0. k + 1 \in Nat
      OBVIOUS
    <2>1. SUFFICES ASSUME k + 1 <= n PROVE \E f \in [0..(k + 1) -> S] : Upto(k + 1, f)
      BY <2>0, Zenon
    <2>2. PICK f \in [0..k -> S] : Upto(k, f)
      BY <1>2, <2>1
    <2> DEFINE next == g[k + 1][f[k]]
    <2>3. f[k] \in S /\ k + 1 \in 1..n
      BY <2>1
    <2>4. next \in S
      BY <2>3
    <2> HIDE DEF next
    <2> DEFINE h == [i \in 0..(k + 1) |-> IF i = k + 1 THEN next ELSE f[i]]
    <2>5. h \in [0..(k + 1) -> S]
      BY <2>4
    <2>6. \A i \in 0..(k + 1) : h[i] = IF i = k + 1 THEN next ELSE f[i]
      OBVIOUS
    <2> HIDE DEF h
    <2>7. h[0] = e
      BY <2>2, <2>6
    <2>8. ASSUME NEW i \in 1..(k + 1) PROVE h[i] = g[i][h[i - 1]]
      <3>1. i - 1 \in 0..(k + 1) /\ i - 1 # k + 1 /\ i \in 0..(k + 1)
        OBVIOUS
      <3>2. h[i - 1] = f[i - 1] /\ h[i] = IF i = k + 1 THEN next ELSE f[i]
        BY <2>6, <3>1
      <3>3. CASE i = k + 1
        <4>1. h[i] = next /\ h[i - 1] = f[k]
          BY <3>2, <3>3
        <4> QED
          BY <3>3, <4>1 DEF next
      <3>4. CASE i # k + 1
        <4>1. i \in 1..k
          BY <3>4
        <4> QED
          BY <2>2, <3>2, <3>4, <4>1
      <3> QED
        BY <3>3, <3>4
    <2>9. Upto(k + 1, h)
      BY <2>7, <2>8
    <2> QED
      BY <2>5, <2>9
  <1> HIDE DEF A
  <1>3. n \in A
    BY <1>1, <1>2, SetInduction
  <1> QED
    BY <1>3 DEF A, Recurses

(* Induction up to a number.                                               *)
LEMMA BoundedInduction ==
    ASSUME NEW n \in Nat, NEW A, 0 \in A, \A i \in 1..n : i - 1 \in A => i \in A
    PROVE  0..n \subseteq A
  <1> DEFINE B == {k \in Nat : k <= n => k \in A}
  <1>1. 0 \in B
    OBVIOUS
  <1>2. ASSUME NEW k \in Nat, k \in B PROVE k + 1 \in B
    <2>1. k + 1 \in Nat
      OBVIOUS
    <2>2. ASSUME k + 1 <= n PROVE k + 1 \in A
      <3>1. k <= n /\ k + 1 \in 1..n /\ (k + 1) - 1 = k
        BY <2>2
      <3> QED
        BY <1>2, <3>1
    <2> QED
      BY <2>1, <2>2
  <1> HIDE DEF B
  <1>3. Nat \subseteq B
    BY <1>1, <1>2, SetInduction
  <1> QED
    BY <1>3 DEF B

(* An interval from 1 says where it ends.                                  *)
LEMMA SameInterval ==
    ASSUME NEW m \in Nat, NEW n \in Nat, 1..m = 1..n
    PROVE  m = n
  <1>1. ASSUME m < n PROVE FALSE
    <2>1. n \in 1..n /\ n \notin 1..m
      BY <1>1
    <2> QED
      BY <2>1
  <1>2. ASSUME n < m PROVE FALSE
    <2>1. m \in 1..m /\ m \notin 1..n
      BY <1>2
    <2> QED
      BY <2>1
  <1> QED
    BY <1>1, <1>2
=============================================================================
