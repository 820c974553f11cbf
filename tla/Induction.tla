------------------------------ MODULE Induction ------------------------------
(***************************************************************************)
(* Induction and recursion over the natural numbers, for sets and for      *)
(* functions in place of operators: what the proofs about replays of the   *)
(* append-only file and about the table of a pattern rest on.              *)
(***************************************************************************)
EXTENDS Naturals, WellFoundedInduction, TLAPS

(* Induction over the numbers, for a property given as a set: a number     *)
(* outside S would have a least one with it.                               *)
LEMMA SetInduction ==
  ASSUME NEW S \in SUBSET Nat, 0 \in S, \A n \in S : n + 1 \in S
  PROVE  S = Nat
<1> SUFFICES ASSUME S # Nat PROVE FALSE
  OBVIOUS
<1> DEFINE T == Nat \ S
           R == OpToRel(<, Nat)
<1>1. T \subseteq Nat /\ T # {}
  OBVIOUS
<1>2. PICK x \in T : \A y \in T : ~(<<y, x>> \in R)
  <2> HIDE DEF T, R
  <2> QED
    BY <1>1, NatLessThanWellFounded, WFMin DEF R
<1>3. \A y \in T : ~(y < x)
  BY <1>2 DEF OpToRel
<1>4. x - 1 \in S
  BY <1>3
<1> QED
  BY <1>4

(* A function defined by recursion exists, its step s being a function.    *)
Follows(f, D, b, s) ==
  f \in [Nat -> D] /\ f[0] = b /\ \A n \in Nat : f[n + 1] = s[<<n, f[n]>>]

LEMMA Recursion ==
  ASSUME NEW D, NEW b \in D, NEW s \in [Nat \X D -> D]
  PROVE  \E f : Follows(f, D, b, s)
<1> DEFINE Upto(n, g) == /\ g \in [0 .. n -> D] /\ g[0] = b
                         /\ \A i \in 0 .. n - 1 : g[i + 1] = s[<<i, g[i]>>]
           G(n) == CHOOSE g : Upto(n, g)
           f == [n \in Nat |-> G(n)[n]]
<1>1. \A n \in Nat : Upto(n, G(n))
  <2> DEFINE S == {n \in Nat : \E g : Upto(n, g)}
  <2>1. 0 \in S
    <3>1. Upto(0, [i \in 0 .. 0 |-> b])
      OBVIOUS
    <3> QED
      BY <3>1
  <2>2. ASSUME NEW n \in Nat, NEW g, Upto(n, g) PROVE \E h : Upto(n + 1, h)
    <3> HIDE DEF S, G, f
    <3> DEFINE v == s[<<n, g[n]>>]
               h == [i \in 0 .. n + 1 |-> IF i = n + 1 THEN v ELSE g[i]]
    <3>1. n \in 0 .. n /\ g[n] \in D
      BY <2>2
    <3>2. v \in D
      BY <3>1
    <3> HIDE DEF v
    <3>3. h \in [0 .. n + 1 -> D] /\ h[0] = b
      BY <2>2, <3>2
    <3>4. h[n + 1] = v /\ \A i \in 0 .. n : h[i] = g[i]
      OBVIOUS
    <3>5. ASSUME NEW i \in 0 .. (n + 1) - 1 PROVE h[i + 1] = s[<<i, h[i]>>]
      <4>1. CASE i = n
        BY <3>1, <3>4, <4>1 DEF v
      <4>2. CASE i # n
        <5>1. i \in 0 .. n - 1 /\ i + 1 \in 0 .. n /\ i \in 0 .. n
          BY <4>2
        <5> QED
          BY <2>2, <3>4, <5>1
      <4> QED
        BY <4>1, <4>2
    <3>6. Upto(n + 1, h)
      BY <3>3, <3>5
    <3> QED
      BY <3>6
  <2>3. \A n \in S : n + 1 \in S
    BY <2>2
  <2>4. S = Nat
    <3>1. S \in SUBSET Nat
      OBVIOUS
    <3> HIDE DEF S
    <3> QED
      BY <2>1, <2>3, <3>1, SetInduction
  <2> QED
    BY <2>4
<1>2. ASSUME NEW m \in Nat, NEW n \in Nat, m <= n PROVE G(n)[m] = G(m)[m]
  <2> DEFINE E == {i \in Nat : i <= m => G(m)[i] = G(n)[i]}
  <2>1. Upto(m, G(m)) /\ Upto(n, G(n))
    BY <1>1
  <2> HIDE DEF G
  <2>2. 0 \in E
    BY <2>1
  <2>3. ASSUME NEW i \in Nat, i + 1 <= m, G(m)[i] = G(n)[i] PROVE G(m)[i + 1] = G(n)[i + 1]
    <3>1. i \in 0 .. m - 1 /\ i \in 0 .. n - 1
      BY <1>2, <2>3
    <3> QED
      BY <2>1, <2>3, <3>1
  <2>4. \A i \in E : i + 1 \in E
    BY <2>3
  <2>5. E = Nat
    <3>1. E \in SUBSET Nat
      OBVIOUS
    <3> HIDE DEF E
    <3> QED
      BY <2>2, <2>4, <3>1, SetInduction
  <2> QED
    BY <2>5
<1> HIDE DEF G
<1>3. \A n \in Nat : G(n)[n] \in D
  BY <1>1
<1>4. f \in [Nat -> D] /\ f[0] = b
  BY <1>1, <1>3
<1>5. ASSUME NEW n \in Nat PROVE f[n + 1] = s[<<n, f[n]>>]
  <2>1. G(n + 1)[n + 1] = s[<<n, G(n + 1)[n]>>]
    BY <1>1
  <2>2. G(n + 1)[n] = G(n)[n]
    BY <1>2
  <2> QED
    BY <2>1, <2>2
<1>6. Follows(f, D, b, s)
  <2> HIDE DEF f
  <2> QED
    BY <1>4, <1>5 DEF Follows
<1> HIDE DEF f
<1> QED
  BY <1>6
(* The same up to a bound, with a step that sees the number it arrives at: *)
(* whatever function is defined so is into D, since there is but one.      *)
Unfolds(f, D, b, N, s) ==
  /\ DOMAIN f = 0 .. N /\ f[0] = b
  /\ \A n \in 1 .. N : f[n - 1] \in D => f[n] = s[<<n, f[n - 1]>>]

LEMMA UnfoldsInto ==
  ASSUME NEW D, NEW b \in D, NEW N \in Nat, NEW s \in [(1 .. N) \X D -> D],
         NEW f, Unfolds(f, D, b, N, s)
  PROVE  /\ \A n \in 0 .. N : f[n] \in D
         /\ \A n \in 1 .. N : f[n] = s[<<n, f[n - 1]>>]
<1> DEFINE T == {n \in Nat : n <= N => f[n] \in D}
<1>1. ASSUME NEW n \in Nat, n + 1 <= N, f[n] \in D PROVE f[n + 1] \in D
  <2>1. n + 1 \in 1 .. N /\ (n + 1) - 1 = n /\ <<n + 1, f[n]>> \in (1 .. N) \X D
    BY <1>1
  <2>2. f[n + 1] = s[<<n + 1, f[n]>>]
    BY <1>1, <2>1 DEF Unfolds
  <2> QED
    BY <2>1, <2>2
<1>2. 0 \in T /\ T \in SUBSET Nat /\ \A n \in T : n + 1 \in T
  BY <1>1 DEF Unfolds
<1>3. T = Nat
  <2> HIDE DEF T
  <2> QED
    BY <1>2, SetInduction
<1>4. \A n \in 0 .. N : f[n] \in D
  BY <1>3
<1>5. ASSUME NEW n \in 1 .. N PROVE f[n] = s[<<n, f[n - 1]>>]
  <2>1. n - 1 \in 0 .. N
    OBVIOUS
  <2> QED
    BY <1>4, <2>1 DEF Unfolds
<1> QED
  BY <1>4, <1>5

Unfolded(f, D, b, N, s) ==
  /\ f \in [0 .. N -> D]
  /\ f = [n \in 0 .. N |-> IF n = 0 THEN b ELSE s[<<n, f[n - 1]>>]]

LEMMA Unfolding ==
  ASSUME NEW D, NEW b \in D, NEW N \in Nat, NEW s \in [(1 .. N) \X D -> D]
  PROVE  \E f : Unfolded(f, D, b, N, s)
<1> DEFINE r == [p \in Nat \X D |-> IF p[1] + 1 \in 1 .. N THEN s[<<p[1] + 1, p[2]>>] ELSE p[2]]
<1>1. r \in [Nat \X D -> D]
  OBVIOUS
<1> HIDE DEF r
<1>2. PICK g : Follows(g, D, b, r)
  BY <1>1, Recursion
<1> DEFINE h == [n \in 0 .. N |-> g[n]]
<1>3. h \in [0 .. N -> D] /\ h[0] = b
  BY <1>2 DEF Follows
<1>4. ASSUME NEW n \in 0 .. N, n # 0 PROVE g[n] = s[<<n, h[n - 1]>>]
  <2>1. n - 1 \in Nat /\ (n - 1) + 1 = n /\ n \in 1 .. N /\ h[n - 1] = g[n - 1] /\ g[n - 1] \in D
    BY <1>2, <1>4 DEF Follows
  <2>2. g[n] = r[<<n - 1, g[n - 1]>>] /\ <<n - 1, g[n - 1]>> \in Nat \X D
    BY <1>2, <2>1 DEF Follows
  <2> QED
    BY <2>1, <2>2 DEF r
<1>5. \A n \in 0 .. N : h[n] = IF n = 0 THEN b ELSE s[<<n, h[n - 1]>>]
  BY <1>3, <1>4
<1>6. h = [n \in 0 .. N |-> IF n = 0 THEN b ELSE s[<<n, h[n - 1]>>]]
  BY <1>5
<1>7. Unfolded(h, D, b, N, s)
  <2> HIDE DEF h
  <2> QED
    BY <1>3, <1>6 DEF Unfolded
<1> HIDE DEF h
<1> QED
  BY <1>7
=============================================================================
