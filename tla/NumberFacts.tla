----------------------------- MODULE NumberFacts ----------------------------
(***************************************************************************)
(* The arithmetic of indices modulo the size of a ring, which the proofs   *)
(* of several components use.                                              *)
(***************************************************************************)
EXTENDS Integers, TLAPS

-----------------------------------------------------------------------------
\* The remainder is the one number below m that differs by a multiple of m.
LEMMA ModUnique ==
  ASSUME NEW m \in Nat \ {0}, NEW q \in Int, NEW r \in 0..(m - 1)
  PROVE  (q * m + r) % m = r
<1> DEFINE x == q * m + r
           d == x \div m
           s == x % m
<1>1. x \in Int
  OBVIOUS
<1> HIDE DEF x
<1>2. d \in Int /\ s \in 0..(m - 1) /\ x = d * m + s
  BY <1>1
<1> HIDE DEF d, s
<1>3. (q - d) * m = s - r
  BY <1>2 DEF x
<1>4. q - d < 1
  <2> SUFFICES ASSUME q - d >= 1 PROVE FALSE
    BY <1>2
  <2>1. (q - d) * m >= m
    BY <1>2
  <2> QED
    BY <1>2, <1>3, <2>1
<1>5. q - d > -1
  <2> SUFFICES ASSUME q - d <= -1 PROVE FALSE
    BY <1>2
  <2>1. (q - d) * m <= -m
    BY <1>2
  <2> QED
    BY <1>2, <1>3, <2>1
<1>6. q = d
  BY <1>2, <1>4, <1>5
<1> QED
  BY <1>2, <1>6 DEF x, s

\* Every number has a quotient and a remainder.
LEMMA ModWitness ==
  ASSUME NEW m \in Nat \ {0}, NEW x \in Int
  PROVE  \E q \in Int, r \in 0..(m - 1) : x = q * m + r
<1>1. x \div m \in Int /\ x % m \in 0..(m - 1) /\ x = (x \div m) * m + (x % m)
  OBVIOUS
<1> QED
  BY <1>1

\* Adding a multiple of m does not change a remainder.
LEMMA ModShift ==
  ASSUME NEW m \in Nat \ {0}, NEW k \in Int, NEW x \in Int
  PROVE  (x + k * m) % m = x % m
<1>1. PICK q \in Int, r \in 0..(m - 1) : x = q * m + r
  BY ModWitness
<1>2. x + k * m = (q + k) * m + r
  BY <1>1
<1> QED
  BY <1>1, <1>2, ModUnique

\* Two numbers less than m apart have different remainders.
LEMMA ModApart ==
  ASSUME NEW m \in Nat \ {0}, NEW x \in Int, NEW d \in 1..(m - 1)
  PROVE  (x + d) % m # x % m
<1>1. PICK q \in Int, r \in 0..(m - 1) : x = q * m + r
  BY ModWitness
<1>2. x % m = r
  BY <1>1, ModUnique
<1>3. CASE r + d < m
  <2>1. x + d = q * m + (r + d) /\ r + d \in 0..(m - 1)
    BY <1>1, <1>3
  <2>2. (x + d) % m = r + d
    BY <2>1, ModUnique
  <2> QED
    BY <1>2, <2>2
<1>4. CASE r + d >= m
  <2>1. x + d = (q + 1) * m + (r + d - m) /\ r + d - m \in 0..(m - 1)
    BY <1>1, <1>4
  <2>2. ((q + 1) * m + (r + d - m)) % m = r + d - m
    BY <2>1, q + 1 \in Int, ModUnique
  <2> QED
    BY <1>2, <2>1, <2>2
<1> QED
  BY <1>3, <1>4
=============================================================================
