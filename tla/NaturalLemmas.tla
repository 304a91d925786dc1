---------------------------- MODULE NaturalLemmas ----------------------------
(***************************************************************************)
(* Facts about the natural numbers that the proofs of several components   *)
(* need: extreme elements of sets, induction over a set of numbers, and    *)
(* remainders.                                                             *)
(***************************************************************************)
EXTENDS Integers, WellFoundedInduction, TLAPS

(* Every nonempty set of naturals has a least element. *)
LEMMA LeastNatural ==
    ASSUME NEW S \in SUBSET Nat, S # {}
    PROVE  \E m \in S : \A k \in S : m <= k
<1>1. PICK m \in S : \A k \in S : <<k, m>> \notin OpToRel(<, Nat)
  BY NatLessThanWellFounded, WFMin
<1>2. ASSUME NEW k \in S, k < m
      PROVE  <<k, m>> \in OpToRel(<, Nat)
  <2>1. k \in Nat /\ m \in Nat
    OBVIOUS
  <2>2. <<k, m>> \in {xy \in Nat \X Nat : xy[1] < xy[2]}
    BY <1>2, <2>1
  <2>3. QED
    BY <2>1, <1>2 DEF OpToRel
<1>3. \A k \in S : ~ (k < m)
  BY <1>1, <1>2, Zenon
<1>4. QED
  BY <1>3

(* A nonempty set of naturals with an upper bound has a greatest element:  *)
(* the least of its upper bounds.                                          *)
LEMMA GreatestNatural ==
    ASSUME NEW n \in Nat, NEW S \in SUBSET (0 .. n), S # {}
    PROVE  \E m \in S : \A k \in S : k <= m
<1> DEFINE Bounds == {b \in Nat : \A k \in S : k <= b}
<1>1. n \in Bounds
  OBVIOUS
<1>2. PICK m \in Bounds : \A b \in Bounds : m <= b
  BY <1>1, LeastNatural
<1>3. m \in Nat /\ \A k \in S : k <= m
  BY <1>2
<1>4. m \in S
  <2> SUFFICES ASSUME m \notin S PROVE FALSE
    OBVIOUS
  <2>1. \A k \in S : k <= m - 1
    BY <1>3
  <2>2. m - 1 \in Bounds
    <3>1. PICK k \in S : TRUE
      OBVIOUS
    <3>2. k \in Nat /\ k <= m - 1
      BY <2>1, <3>1
    <3>3. QED
      BY <1>3, <2>1, <3>2
  <2>3. QED
    BY <1>2, <1>3, <2>2
<1>5. QED
  BY <1>3, <1>4

(* Induction, for a set of numbers in the place of a predicate. *)
LEMMA Induction ==
    ASSUME NEW S, 0 \in S, \A i \in Nat : i \in S => i + 1 \in S
    PROVE  \A i \in Nat : i \in S
<1> DEFINE Out == Nat \ S
<1> SUFFICES ASSUME Out # {} PROVE FALSE
  OBVIOUS
<1>1. PICK m \in Out : \A k \in Out : m <= k
  BY LeastNatural
<1>2. m # 0 /\ m - 1 \in Nat /\ m - 1 \notin Out
  BY <1>1
<1>3. QED
  BY <1>1, <1>2

(* A loop of n iterations, each of which makes a number from the one       *)
(* before, has values.                                                     *)
LEMMA Loop ==
    ASSUME NEW a \in Nat, NEW n \in Nat, NEW G \in [Nat \X (1 .. n) -> Nat]
    PROVE  \E f \in [0 .. n -> Nat] :
              f[0] = a /\ \A i \in 1 .. n : f[i] = G[<<f[i - 1], i>>]
<1> DEFINE Values(f, k) == f[0] = a /\ \A i \in 1 .. k : f[i] = G[<<f[i - 1], i>>]
           Lengths == {k \in Nat : k <= n => \E f \in [0 .. k -> Nat] : Values(f, k)}
<1>1. 0 \in Lengths
  <2> DEFINE f == [i \in 0 .. 0 |-> a]
  <2>1. f \in [0 .. 0 -> Nat] /\ Values(f, 0)
    OBVIOUS
  <2>2. \E h \in [0 .. 0 -> Nat] : Values(h, 0)
    <3> HIDE DEF f
    <3> QED BY <2>1
  <2>3. QED
    BY <2>2
<1>2. ASSUME NEW k \in Nat, k \in Lengths
      PROVE  k + 1 \in Lengths
  <2> SUFFICES ASSUME k + 1 <= n
               PROVE  \E f \in [0 .. k + 1 -> Nat] : Values(f, k + 1)
    OBVIOUS
  <2>1. PICK f \in [0 .. k -> Nat] : Values(f, k)
    BY <1>2
  <2> DEFINE x == G[<<f[k], k + 1>>]
             g == [i \in 0 .. k + 1 |-> IF i = k + 1 THEN x ELSE f[i]]
  <2>2. x \in Nat
    <3>1. <<f[k], k + 1>> \in Nat \X (1 .. n)
      OBVIOUS
    <3>2. QED
      BY <3>1
  <2>3. g \in [0 .. k + 1 -> Nat]
    <3> HIDE DEF x
    <3> QED BY <2>2
  <2>4. g[0] = a /\ \A i \in 1 .. k : g[i] = f[i] /\ g[i - 1] = f[i - 1]
    <3> HIDE DEF x
    <3> QED BY <2>1
  <2>5. g[k + 1] = x /\ g[k] = f[k]
    <3> HIDE DEF x
    <3> QED OBVIOUS
  <2>6. Values(g, k + 1)
    <3> HIDE DEF g
    <3>1. ASSUME NEW i \in 1 .. k + 1 PROVE g[i] = G[<<g[i - 1], i>>]
      <4>1. CASE i = k + 1
        <5>1. (k + 1) - 1 = k
          OBVIOUS
        <5>2. QED
          BY <2>5, <4>1, <5>1
      <4>2. CASE i \in 1 .. k
        BY <2>1, <2>4, <4>2
      <4>3. QED
        BY <4>1, <4>2
    <3>2. QED
      BY <2>4, <3>1
  <2>7. QED
    <3> HIDE DEF g, Values
    <3> QED BY <2>3, <2>6
<1>3. n \in Lengths
  <2> HIDE DEF Lengths
  <2> QED BY <1>1, <1>2, Induction
<1>4. QED
  BY <1>3

-----------------------------------------------------------------------------
(* remainders *)

LEMMA Division ==
    ASSUME NEW t \in Nat, NEW m \in Nat \ {0}
    PROVE  /\ t \div m \in Nat /\ t % m \in Nat /\ t % m < m
           /\ t = m * (t \div m) + (t % m)
  OBVIOUS

(* A multiple of m that lies between 0 and m is 0. *)
LEMMA SmallMultiple ==
    ASSUME NEW m \in Nat \ {0}, NEW k \in Int, 0 - m < m * k, m * k < m
    PROVE  m * k = 0
<1>1. CASE k >= 1
  <2>1. m * k >= m
    BY <1>1
  <2>2. QED
    BY <2>1
<1>2. CASE k <= 0 - 1
  <2>1. m * k <= 0 - m
    BY <1>2
  <2>2. QED
    BY <2>1
<1>3. CASE k = 0
  BY <1>3
<1>4. QED
  BY <1>1, <1>2, <1>3

LEMMA Distributive ==
    ASSUME NEW a \in Int, NEW b \in Int, NEW c \in Int
    PROVE  a * (b - c) = a * b - a * c
  OBVIOUS

(* Quotient and remainder are the only ones. *)
LEMMA Remainder ==
    ASSUME NEW m \in Nat \ {0}, NEW q \in Nat, NEW r \in Nat, r < m
    PROVE  (m * q + r) % m = r
<1> DEFINE x == m * q + r
           d == x \div m
           s == x % m
<1>1. m * q \in Nat /\ x \in Nat
  OBVIOUS
<1>2. d \in Nat /\ s \in Nat /\ s < m /\ x = m * d + s
  BY <1>1, Division
<1>3. q - d \in Int /\ m * (q - d) = m * q - m * d
  <2> HIDE DEF d
  <2> QED
    BY <1>2, Distributive
<1>4. m * d \in Nat
  BY <1>2
<1>5. s - r = m * (q - d)
  BY <1>1, <1>2, <1>3, <1>4
<1>6. m * (q - d) = 0
  BY <1>2, <1>3, <1>5, SmallMultiple
<1>7. QED
  BY <1>2, <1>5, <1>6

(* A multiple of m changes nothing in a remainder. *)
LEMMA AddMultiple ==
    ASSUME NEW m \in Nat \ {0}, NEW k \in Nat, NEW x \in Nat
    PROVE  (m * k + x) % m = x % m
<1> DEFINE d == x \div m
           r == x % m
<1>1. d \in Nat /\ r \in Nat /\ r < m /\ x = m * d + r
  BY Division
<1>2. m * k \in Nat /\ m * d \in Nat /\ k + d \in Nat
  BY <1>1
<1>3. m * (k + d) = m * k + m * d
  <2> HIDE DEF d
  <2> QED
    BY <1>1
<1>4. m * k + x = m * (k + d) + r
  BY <1>1, <1>2, <1>3
<1>5. (m * (k + d) + r) % m = r
  BY <1>1, <1>2, Remainder
<1>6. QED
  BY <1>4, <1>5

LEMMA Subtract ==
    ASSUME NEW a \in Nat, NEW p \in Nat, NEW r \in Nat, a = p + r
    PROVE  a - r = p
  OBVIOUS

(* Without its remainder a number is the multiple of m below it. *)
LEMMA CutToMultiple ==
    ASSUME NEW t \in Nat, NEW m \in Nat \ {0}
    PROVE  /\ t - (t % m) \in Nat /\ (t - (t % m)) % m = 0
           /\ t - (t % m) <= t /\ t < t - (t % m) + m
<1>1. /\ t \div m \in Nat /\ t % m \in Nat /\ t % m < m
      /\ t = m * (t \div m) + (t % m)
  BY Division
<1>2. m * (t \div m) \in Nat
  BY <1>1
<1>3. t - (t % m) = m * (t \div m)
  BY <1>1, <1>2, Subtract
<1>4. (m * (t \div m) + 0) % m = 0
  BY <1>1, Remainder
<1>5. t - (t % m) \in Nat /\ (t - (t % m)) % m = 0
  BY <1>2, <1>3, <1>4
<1>6. t - (t % m) <= t /\ t < t - (t % m) + m
  BY <1>1
<1>7. QED
  BY <1>5, <1>6

=============================================================================
