-------------------------- MODULE RespStreamProofs --------------------------
(***************************************************************************)
(* What the parser reads back of a stream, for arguments of any bytes as   *)
(* long as none is empty or begins with '$': where in the text of which    *)
(* command the parser is between two turns of its loop, and how far the    *)
(* stream is the text at all.                                              *)
(***************************************************************************)
EXTENDS RespStream, SequenceTheorems, Induction

-----------------------------------------------------------------------------
(* Sequences.                                                              *)

LEMMA SeqFacts ==
  ASSUME NEW S, NEW s \in Seq(S)
  PROVE  /\ Len(s) \in Nat /\ DOMAIN s = 1 .. Len(s)
         /\ \A i \in 1 .. Len(s) : s[i] \in S
BY LenProperties, ElementOfSeq

LEMMA Beginning ==
  ASSUME NEW S, NEW s \in Seq(S), NEW n \in 0 .. Len(s)
  PROVE  /\ SubSeq(s, 1, n) \in Seq(S) /\ Len(SubSeq(s, 1, n)) = n
         /\ \A i \in 1 .. n : SubSeq(s, 1, n)[i] = s[i]
<1>1. \A i \in 1 .. n : s[i] \in S
  BY SeqFacts
<1>2. 1 \in Int /\ n \in Int
  BY SeqFacts
<1>3. /\ SubSeq(s, 1, n) \in Seq(S)
      /\ Len(SubSeq(s, 1, n)) = IF 1 <= n THEN n - 1 + 1 ELSE 0
      /\ \A i \in 1 .. n - 1 + 1 : SubSeq(s, 1, n)[i] = s[1 + i - 1]
  BY <1>1, <1>2, SubSeqProperties
<1> QED
  BY <1>3, SeqFacts

(* A sequence that begins as another does. *)
LEMMA BeginsWith ==
  ASSUME NEW S, NEW s \in Seq(S), NEW t \in Seq(S), Len(t) <= Len(s),
         \A i \in 1 .. Len(t) : s[i] = t[i]
  PROVE  SubSeq(s, 1, Len(t)) = t
<1>1. Len(t) \in 0 .. Len(s)
  BY SeqFacts
<1> QED
  BY <1>1, Beginning, SeqEqual

(* What is left of a sequence. *)
LEMMA Remainder ==
  ASSUME NEW S, NEW s \in Seq(S), NEW n \in 0 .. Len(s)
  PROVE  /\ SubSeq(s, n + 1, Len(s)) \in Seq(S)
         /\ Len(SubSeq(s, n + 1, Len(s))) = Len(s) - n
         /\ \A i \in 1 .. Len(s) - n : SubSeq(s, n + 1, Len(s))[i] = s[n + i]
<1>1. \A i \in n + 1 .. Len(s) : s[i] \in S
  BY SeqFacts
<1>2. n + 1 \in Int /\ Len(s) \in Int /\ n \in Nat
  BY SeqFacts
<1> DEFINE r == SubSeq(s, n + 1, Len(s))
<1>3. /\ r \in Seq(S)
      /\ Len(r) = IF n + 1 <= Len(s) THEN Len(s) - (n + 1) + 1 ELSE 0
      /\ \A i \in 1 .. Len(s) - (n + 1) + 1 : r[i] = s[(n + 1) + i - 1]
  BY <1>1, <1>2, SubSeqProperties
<1> HIDE DEF r
<1>4. r \in Seq(S) /\ Len(r) = Len(s) - n
  BY <1>2, <1>3
<1>5. ASSUME NEW i \in 1 .. Len(s) - n PROVE r[i] = s[n + i]
  <2>1. i \in 1 .. Len(s) - (n + 1) + 1 /\ (n + 1) + i - 1 = n + i
    BY <1>2
  <2> QED
    BY <1>3, <2>1
<1> QED
  BY <1>4, <1>5 DEF r

LEMMA RemainderOfRemainder ==
  ASSUME NEW S, NEW s \in Seq(S), NEW n \in 0 .. Len(s), NEW t,
         t = SubSeq(s, n + 1, Len(s)), NEW m \in 0 .. Len(t)
  PROVE  SubSeq(t, m + 1, Len(t)) = SubSeq(s, n + m + 1, Len(s))
<1>1. /\ t \in Seq(S) /\ Len(t) = Len(s) - n
      /\ \A i \in 1 .. Len(s) - n : t[i] = s[n + i]
  BY Remainder
<1>2. n + m \in 0 .. Len(s)
  BY <1>1, SeqFacts
<1> DEFINE a == SubSeq(t, m + 1, Len(t))
           b == SubSeq(s, (n + m) + 1, Len(s))
<1>3. /\ a \in Seq(S) /\ Len(a) = Len(t) - m
      /\ \A i \in 1 .. Len(t) - m : a[i] = t[m + i]
  BY <1>1, Remainder
<1>4. /\ b \in Seq(S) /\ Len(b) = Len(s) - (n + m)
      /\ \A i \in 1 .. Len(s) - (n + m) : b[i] = s[(n + m) + i]
  BY <1>2, Remainder
<1> HIDE DEF a, b
<1>5. Len(s) \in Nat /\ n \in Nat /\ m \in Nat
  BY <1>1, SeqFacts
<1>6. ASSUME NEW i \in 1 .. Len(a) PROVE a[i] = b[i]
  <2>1. /\ i \in 1 .. Len(t) - m /\ m + i \in 1 .. Len(s) - n
        /\ i \in 1 .. Len(s) - (n + m) /\ n + (m + i) = (n + m) + i
    BY <1>1, <1>3, <1>5
  <2> QED
    BY <1>1, <1>3, <1>4, <2>1
<1>7. Len(a) = Len(b)
  BY <1>1, <1>3, <1>4, <1>5
<1>8. a = b
  BY <1>3, <1>4, <1>6, <1>7, SeqEqual
<1> QED
  BY <1>8 DEF a, b

LEMMA Joined ==
  ASSUME NEW s \in Seq(Nat), NEW t \in Seq(Nat)
  PROVE  /\ s \o t \in Seq(Nat) /\ Len(s \o t) = Len(s) + Len(t)
         /\ \A i \in 1 .. Len(s) : (s \o t)[i] = s[i]
         /\ \A i \in 1 .. Len(t) : (s \o t)[Len(s) + i] = t[i]
<1>1. /\ s \o t \in Seq(Nat) /\ Len(s \o t) = Len(s) + Len(t)
      /\ \A i \in 1 .. Len(s) + Len(t) :
           (s \o t)[i] = IF i <= Len(s) THEN s[i] ELSE t[i - Len(s)]
  BY ConcatProperties
<1>2. Len(s) \in Nat /\ Len(t) \in Nat
  BY SeqFacts
<1>3. ASSUME NEW i \in 1 .. Len(s) PROVE (s \o t)[i] = s[i]
  <2>1. i \in 1 .. Len(s) + Len(t) /\ i <= Len(s)
    BY <1>2
  <2> QED
    BY <1>1, <2>1
<1>4. ASSUME NEW i \in 1 .. Len(t) PROVE (s \o t)[Len(s) + i] = t[i]
  <2>1. Len(s) + i \in 1 .. Len(s) + Len(t) /\ ~(Len(s) + i <= Len(s)) /\ Len(s) + i - Len(s) = i
    BY <1>2
  <2> QED
    BY <1>1, <2>1
<1> QED
  BY <1>1, <1>3, <1>4

-----------------------------------------------------------------------------
(* The parts of a text, one after the other: part i ends at e[i].          *)

Laid(parts, T, e) ==
  /\ e \in [0 .. Len(parts) -> Nat]
  /\ \A i \in 1 .. Len(parts) :
       /\ e[i] = e[i - 1] + Len(parts[i])
       /\ \A x \in 1 .. Len(parts[i]) : T[e[i - 1] + x] = parts[i][x]

LEMMA Flattening ==
  ASSUME NEW parts \in Seq(Seq(Nat))
  PROVE  \E w \in [0 .. Len(parts) -> Seq(Nat)] :
           /\ w[0] = <<>>
           /\ \A n \in 1 .. Len(parts) : w[n] = w[n - 1] \o parts[n]
           /\ \A n \in 0 .. Len(parts) : FlattenSeq(SubSeq(parts, 1, n)) = w[n]
<1> DEFINE D == Seq(Nat)
           N == Len(parts)
           s == [p \in (1 .. N) \X D |-> p[2] \o parts[p[1]]]
<1>1. N \in Nat /\ <<>> \in D /\ \A i \in 1 .. N : parts[i] \in D
  BY SeqFacts, EmptySeq
<1>2. s \in [(1 .. N) \X D -> D]
  <2>1. \A n \in 1 .. N, u \in D : u \o parts[n] \in D
    BY <1>1, ConcatProperties
  <2> HIDE DEF D, N
  <2> QED
    BY <2>1
<1>3. \A n \in 1 .. N, u \in D : s[<<n, u>>] = u \o parts[n]
  OBVIOUS
<1>4. PICK w : Unfolded(w, D, <<>>, N, s)
  <2> HIDE DEF D, N, s
  <2> QED
    BY <1>1, <1>2, Unfolding
<1>5. /\ w \in [0 .. N -> D] /\ w[0] = <<>>
      /\ \A n \in 1 .. N : w[n] = w[n - 1] \o parts[n]
  <2> HIDE DEF D, N, s
  <2>1. w \in [0 .. N -> D] /\ w = [n \in 0 .. N |-> IF n = 0 THEN <<>> ELSE s[<<n, w[n - 1]>>]]
    BY <1>4 DEF Unfolded
  <2>2. ASSUME NEW n \in 1 .. N PROVE w[n] = w[n - 1] \o parts[n]
    <3>1. n \in 0 .. N /\ n # 0 /\ n - 1 \in 0 .. N
      BY <1>1
    <3>2. w[n] = s[<<n, w[n - 1]>>] /\ w[n - 1] \in D
      BY <2>1, <3>1
    <3> QED
      BY <1>3, <3>2
  <2>3. 0 \in 0 .. N
    BY <1>1
  <2> QED
    BY <2>1, <2>2, <2>3
<1> HIDE DEF s
<1>6. ASSUME NEW n \in 0 .. N PROVE FlattenSeq(SubSeq(parts, 1, n)) = w[n]
  <2> DEFINE q == SubSeq(parts, 1, n)
  <2>1. q \in Seq(D) /\ Len(q) = n /\ \A i \in 1 .. n : q[i] = parts[i]
    BY Beginning
  <2>2. n \in Nat
    BY <1>1
  <2> HIDE DEF q
  <2>3. CASE n = 0
    <3>1. q = <<>> /\ Len(q) = 0
      BY <2>1, <2>3, EmptySeq
    <3>2. FlattenSeq(q) = <<>>
      BY <3>1 DEF FlattenSeq
    <3> QED
      BY <1>5, <2>3, <3>2 DEF q
  <2>4. CASE n # 0
    <3> DEFINE E(f) == f = [i \in 1 .. n |-> IF i = 1 THEN q[i] ELSE f[i - 1] \o q[i]]
               h == [i \in 1 .. n |-> w[i]]
               g == CHOOSE f : E(f)
    <3>1. FlattenSeq(q) = g[n]
      <4>1. FlattenSeq(q) = (CHOOSE f : f = [i \in 1 .. Len(q) |->
                               IF i = 1 THEN q[i] ELSE f[i - 1] \o q[i]])[Len(q)]
        BY <2>1, <2>2, <2>4 DEF FlattenSeq
      <4> QED
        BY <2>1, <4>1
    <3>2. ASSUME NEW i \in 1 .. n PROVE i \in 1 .. N /\ q[i] = parts[i] /\ w[i] \in D
      <4>1. i \in 1 .. N /\ i \in 0 .. N
        BY <1>1
      <4> QED
        BY <1>5, <2>1, <4>1
    <3>3. 1 \in 1 .. n /\ w[1] = q[1]
      <4>1. 1 \in 1 .. n /\ 1 - 1 = 0
        BY <2>2, <2>4
      <4>2. w[1] = w[0] \o parts[1] /\ parts[1] \in Seq(Nat)
        BY <1>1, <1>5, <3>2, <4>1
      <4> QED
        BY <1>5, <3>2, <4>1, <4>2, ConcatEmptySeq
    <3>4. \A i \in 2 .. n : w[i] = w[i - 1] \o q[i] /\ i - 1 \in 1 .. n
      <4>1. \A i \in 2 .. n : i \in 1 .. n /\ i - 1 \in 1 .. n
        BY <2>2
      <4> QED
        BY <1>5, <3>2, <4>1
    <3>5. E(h)
      <4>1. ASSUME NEW i \in 1 .. n PROVE h[i] = IF i = 1 THEN q[i] ELSE h[i - 1] \o q[i]
        <5>1. CASE i = 1
          BY <3>3, <5>1
        <5>2. CASE i # 1
          <6>1. i \in 2 .. n
            BY <5>2
          <6>2. h[i] = w[i] /\ h[i - 1] = w[i - 1] /\ w[i] = w[i - 1] \o q[i]
            BY <3>4, <6>1
          <6> QED
            BY <5>2, <6>2
        <5> QED
          BY <5>1, <5>2
      <4>2. h = [i \in 1 .. n |-> IF i = 1 THEN q[i] ELSE h[i - 1] \o q[i]]
        BY <4>1, Zenon
      <4> QED
        BY <4>2
    <3>6. E(g)
      <4> HIDE DEF E, h
      <4> QED
        BY <3>5
    <3> HIDE DEF g, h
    <3>7. \A i \in 1 .. n : g[i] = IF i = 1 THEN q[i] ELSE g[i - 1] \o q[i]
      BY <3>6
    <3> DEFINE I == {i \in Nat : i + 1 <= n => g[i + 1] = w[i + 1]}
    <3>8. 0 \in I
      BY <3>3, <3>7
    <3>9. \A i \in I : i + 1 \in I
      <4>1. ASSUME NEW i \in Nat, NEW m, m = i + 1, m + 1 <= n, g[m] = w[m]
            PROVE  g[m + 1] = w[m + 1]
        <5>1. m + 1 \in 2 .. n /\ m + 1 \in 1 .. n /\ m + 1 # 1 /\ (m + 1) - 1 = m
          BY <2>2, <4>1
        <5>2. g[m + 1] = g[m] \o q[m + 1] /\ w[m + 1] = w[m] \o q[m + 1]
          BY <3>4, <3>7, <5>1
        <5> QED
          BY <4>1, <5>2
      <4>2. ASSUME NEW i \in I, (i + 1) + 1 <= n PROVE g[(i + 1) + 1] = w[(i + 1) + 1]
        <5>1. i \in Nat /\ i + 1 \in Nat /\ i + 1 <= n /\ g[i + 1] = w[i + 1]
          BY <2>2, <4>2
        <5> QED
          BY <4>1, <4>2, <5>1
      <4> QED
        BY <4>2
    <3>10. I = Nat
      <4>1. I \in SUBSET Nat
        OBVIOUS
      <4> HIDE DEF I
      <4> QED
        BY <3>8, <3>9, <4>1, SetInduction
    <3>11. \A i \in Nat : i + 1 <= n => g[i + 1] = w[i + 1]
      BY <3>10
    <3>12. g[n] = w[n]
      <4>1. n - 1 \in Nat /\ (n - 1) + 1 <= n /\ (n - 1) + 1 = n
        BY <2>2, <2>4
      <4>2. g[(n - 1) + 1] = w[(n - 1) + 1]
        BY <3>11, <4>1
      <4> QED
        BY <4>1, <4>2
    <3> QED
      BY <3>1, <3>12 DEF q
  <2> QED
    BY <2>3, <2>4
<1> QED
  BY <1>5, <1>6

(* The text of some parts, and where the first n of them end.              *)
LEMMA TextLaid ==
  ASSUME NEW parts \in Seq(Seq(Nat))
  PROVE  /\ FlattenSeq(parts) \in Seq(Nat)
         /\ \E e : /\ Laid(parts, FlattenSeq(parts), e) /\ e[0] = 0
                  /\ e[Len(parts)] = Len(FlattenSeq(parts))
                  /\ \A n \in 0 .. Len(parts) :
                       e[n] = Len(FlattenSeq(SubSeq(parts, 1, n)))
<1> DEFINE N == Len(parts)
<1>0. N \in Nat /\ \A i \in 1 .. N : parts[i] \in Seq(Nat)
  BY SeqFacts
<1>1. PICK w \in [0 .. N -> Seq(Nat)] :
        /\ w[0] = <<>>
        /\ \A n \in 1 .. N : w[n] = w[n - 1] \o parts[n]
        /\ \A n \in 0 .. N : FlattenSeq(SubSeq(parts, 1, n)) = w[n]
  BY Flattening
<1> DEFINE e == [n \in 0 .. N |-> Len(w[n])]
           T == FlattenSeq(parts)
<1>2. T = w[N] /\ T \in Seq(Nat)
  <2>1. SubSeq(parts, 1, N) = parts /\ N \in 0 .. N
    BY <1>0, SubSeqFull
  <2> QED
    BY <1>1, <2>1
<1>3. e \in [0 .. N -> Nat] /\ e[0] = 0 /\ \A n \in 0 .. N : e[n] = Len(w[n])
  <2>1. \A n \in 0 .. N : w[n] \in Seq(Nat) /\ Len(w[n]) \in Nat
    BY <1>1, SeqFacts
  <2>2. 0 \in 0 .. N /\ Len(w[0]) = 0
    BY <1>0, <1>1, EmptySeq
  <2> QED
    BY <2>1, <2>2
<1> HIDE DEF e, T
<1>4. ASSUME NEW n \in 1 .. N
      PROVE  /\ n - 1 \in 0 .. N /\ n \in 0 .. N /\ e[n] = e[n - 1] + Len(parts[n])
             /\ \A i \in 1 .. e[n - 1] : w[n][i] = w[n - 1][i]
             /\ \A x \in 1 .. Len(parts[n]) : w[n][e[n - 1] + x] = parts[n][x]
  <2> DEFINE a == w[n - 1]
             b == parts[n]
  <2>1. n - 1 \in 0 .. N /\ n \in 0 .. N
    BY <1>0
  <2>2. a \in Seq(Nat) /\ b \in Seq(Nat) /\ w[n] = a \o b
    BY <1>0, <1>1, <2>1
  <2>3. e[n - 1] = Len(a) /\ e[n] = Len(w[n])
    BY <1>3, <2>1
  <2> HIDE DEF a, b
  <2>4. /\ Len(a \o b) = Len(a) + Len(b)
        /\ \A i \in 1 .. Len(a) : (a \o b)[i] = a[i]
        /\ \A x \in 1 .. Len(b) : (a \o b)[Len(a) + x] = b[x]
    BY <2>2, Joined
  <2>5. e[n] = e[n - 1] + Len(b)
    BY <2>2, <2>3, <2>4
  <2> QED
    BY <2>1, <2>2, <2>3, <2>4, <2>5 DEF a, b
<1>5. ASSUME NEW n \in 0 .. N
      PROVE  \A m \in n .. N : \A i \in 1 .. e[n] : w[m][i] = w[n][i]
  <2> DEFINE I == {k \in Nat : n + k <= N => /\ e[n] <= e[n + k]
                                             /\ \A i \in 1 .. e[n] : w[n + k][i] = w[n][i]}
  <2>1. 0 \in I
    BY <1>0, <1>3
  <2>2. ASSUME NEW k \in Nat, n + (k + 1) <= N, e[n] <= e[n + k],
               \A i \in 1 .. e[n] : w[n + k][i] = w[n][i]
        PROVE  e[n] <= e[n + (k + 1)] /\ \A i \in 1 .. e[n] : w[n + (k + 1)][i] = w[n][i]
    <3> DEFINE m == n + (k + 1)
    <3>1. m \in 1 .. N /\ m - 1 = n + k
      BY <1>0, <2>2
    <3>2. Len(parts[m]) \in Nat /\ e[n] \in Nat /\ e[m - 1] \in Nat
      BY <1>0, <1>3, <1>4, <3>1, SeqFacts
    <3> HIDE DEF m
    <3>3. e[m] = e[m - 1] + Len(parts[m]) /\ \A i \in 1 .. e[m - 1] : w[m][i] = w[m - 1][i]
      BY <1>4, <3>1
    <3>4. e[n] <= e[m] /\ \A i \in 1 .. e[n] : w[m][i] = w[n][i]
      BY <2>2, <3>1, <3>2, <3>3
    <3> QED
      BY <3>4 DEF m
  <2>3. \A k \in I : k + 1 \in I
    BY <1>0, <2>2
  <2>4. I = Nat
    <3>1. I \in SUBSET Nat
      OBVIOUS
    <3> HIDE DEF I
    <3> QED
      BY <2>1, <2>3, <3>1, SetInduction
  <2>5. ASSUME NEW m \in n .. N PROVE \A i \in 1 .. e[n] : w[m][i] = w[n][i]
    <3>1. m - n \in Nat /\ n + (m - n) = m /\ m <= N
      BY <1>0
    <3> QED
      BY <2>4, <3>1
  <2> QED
    BY <2>5
<1>6. ASSUME NEW n \in 1 .. N
      PROVE  \A x \in 1 .. Len(parts[n]) : T[e[n - 1] + x] = parts[n][x]
  <2>1. N \in n .. N /\ n \in 0 .. N /\ e[n - 1] \in Nat /\ Len(parts[n]) \in Nat
        /\ e[n] = e[n - 1] + Len(parts[n])
    BY <1>0, <1>3, <1>4, SeqFacts
  <2>2. \A x \in 1 .. Len(parts[n]) : e[n - 1] + x \in 1 .. e[n]
    BY <2>1
  <2> QED
    BY <1>2, <1>4, <1>5, <2>1, <2>2
<1>7. Laid(parts, T, e)
  BY <1>3, <1>4, <1>6 DEF Laid
<1>8. e[N] = Len(T) /\ \A n \in 0 .. N : e[n] = Len(FlattenSeq(SubSeq(parts, 1, n)))
  BY <1>0, <1>1, <1>2, <1>3
<1> QED
  BY <1>2, <1>3, <1>7, <1>8 DEF T

-----------------------------------------------------------------------------
(* Numbers of one digit, and minus one.                                    *)

LEMMA OneDigit ==
  ASSUME NEW d \in 0 .. 9
  PROVE  IsDigits(<<Digit(d)>>) /\ NatOf(<<Digit(d)>>) = d
<1>1. IsDigits(<<Digit(d)>>)
  BY DEF IsDigits, Digit
<1> DEFINE s == <<Digit(d)>>
           E(f) == f = [u \in SUBSET DOMAIN s |->
                          IF u = {} THEN 0
                          ELSE 10 * f[u \ {Max(u)}] + s[Max(u)] - Digit(0)]
           g == CHOOSE f : E(f)
           h == [u \in SUBSET {1} |-> IF u = {} THEN 0 ELSE d]
<1>2. NatOf(s) = g[DOMAIN s]
  BY DEF NatOf, FoldLeft, MapThenFoldSet
<1>3. DOMAIN s = {1} /\ s[1] - Digit(0) = d
  BY DEF Digit
<1> HIDE DEF s
<1>4. Max({1}) = 1 /\ {1} \ {1} = {}
  BY DEF Max
<1>5. E(h)
  <2>1. ASSUME NEW u \in SUBSET {1}
        PROVE  h[u] = IF u = {} THEN 0 ELSE 10 * h[u \ {Max(u)}] + s[Max(u)] - Digit(0)
    <3>1. CASE u = {}
      BY <3>1
    <3>2. CASE u # {}
      <4>1. u = {1}
        BY <3>2
      <4>2. h[u] = d /\ h[{}] = 0
        BY <4>1
      <4>3. 10 * h[{}] + s[1] - Digit(0) = d
        BY <1>3, <4>2 DEF Digit
      <4> QED
        BY <1>4, <3>2, <4>1, <4>2, <4>3
    <3> QED
      BY <3>1, <3>2
  <2> QED
    BY <1>3, <2>1, Zenon
<1>6. E(g)
  <2> HIDE DEF E, h
  <2> QED
    BY <1>5
<1> HIDE DEF g, h
<1>7. g[{}] = 0 /\ g[{1}] = 10 * g[{}] + s[1] - Digit(0)
  BY <1>3, <1>4, <1>6
<1>8. g[{1}] = d
  BY <1>3, <1>7 DEF Digit
<1> QED
  BY <1>1, <1>2, <1>3, <1>8 DEF s

LEMMA DigitInt ==
  ASSUME NEW d \in 0 .. 9
  PROVE  IsInt(<<Digit(d)>>) /\ IntOf(<<Digit(d)>>) = d
<1>1. Head(<<Digit(d)>>) = 48 + d
  BY DEF Digit
<1>2. Head(<<Digit(d)>>) # Minus /\ Head(<<Digit(d)>>) # Plus
  BY <1>1 DEF Minus, Plus
<1> QED
  BY <1>2, OneDigit DEF IsInt, IntOf

LEMMA MinusOne == IsInt(<<Minus, Digit(1)>>) /\ IntOf(<<Minus, Digit(1)>>) = -1
<1> DEFINE s == <<Minus, Digit(1)>>
<1>1. Head(s) = Minus /\ Tail(s) = <<Digit(1)>> /\ s # <<>>
  OBVIOUS
<1> HIDE DEF s
<1>2. 1 \in 0 .. 9
  OBVIOUS
<1>3. IsInt(s)
  BY <1>1, <1>2, OneDigit DEF IsInt
<1>4. IntOf(s) = -1
  BY <1>1, <1>2, OneDigit DEF IntOf
<1> QED
  BY <1>3, <1>4 DEF s

-----------------------------------------------------------------------------
(* The bytes of what is written.                                           *)

(* The line l stands at pos, with its end. *)
LineAt(T, pos, l) ==
  /\ \A i \in 1 .. Len(l) : T[pos + i] = l[i]
  /\ T[pos + Len(l) + 1] = CR /\ T[pos + Len(l) + 2] = LF

OneLine(l) == \A i \in 1 .. Len(l) : l[i] # LF

LEMMA LineBytes ==
  ASSUME NEW l \in Seq(Nat)
  PROVE  l \o CRLF \in Seq(Nat) /\ Len(l \o CRLF) = Len(l) + 2 /\ LineAt(l \o CRLF, 0, l)
<1>1. /\ CRLF \in Seq(Nat) /\ Len(CRLF) = 2 /\ CRLF[1] = CR /\ CRLF[2] = LF
      /\ 1 \in 1 .. 2 /\ 2 \in 1 .. 2
  BY DEF CRLF, CR, LF
<1>2. Len(l) \in Nat
  BY SeqFacts
<1> HIDE DEF CRLF
<1> DEFINE b == l \o CRLF
<1>3. /\ b \in Seq(Nat) /\ Len(b) = Len(l) + Len(CRLF)
      /\ \A i \in 1 .. Len(l) : b[i] = l[i]
      /\ \A i \in 1 .. Len(CRLF) : b[Len(l) + i] = CRLF[i]
  BY <1>1, Joined
<1> HIDE DEF b
<1>4. b[Len(l) + 1] = CR /\ b[Len(l) + 2] = LF
  BY <1>1, <1>3
<1>5. \A i \in 1 .. Len(l) : 0 + i = i
  OBVIOUS
<1>6. LineAt(b, 0, l)
  BY <1>2, <1>3, <1>4, <1>5, SMTT(60) DEF LineAt
<1> QED
  BY <1>1, <1>3, <1>6 DEF b

(* A line at the beginning of something that stands further on. *)
LEMMA LineShift ==
  ASSUME NEW l \in Seq(Nat), NEW b, NEW n \in Nat, NEW T, NEW pos \in Nat,
         LineAt(b, n, l), NEW m \in Nat, n + Len(l) + 2 <= m,
         \A x \in 1 .. m : T[pos + x] = b[x]
  PROVE  LineAt(T, pos + n, l)
<1>1. Len(l) \in Nat
  BY SeqFacts
<1>2. ASSUME NEW i \in 1 .. Len(l) + 2 PROVE T[pos + n + i] = b[n + i]
  <2>1. n + i \in 1 .. m /\ pos + (n + i) = pos + n + i
    BY <1>1
  <2> QED
    BY <2>1
<1>3. ASSUME NEW i \in 1 .. Len(l) PROVE T[pos + n + i] = l[i]
  <2>1. i \in 1 .. Len(l) + 2
    BY <1>1
  <2> QED
    BY <1>2, <2>1 DEF LineAt
<1>4. T[pos + n + Len(l) + 1] = CR /\ T[pos + n + Len(l) + 2] = LF
  <2>1. /\ Len(l) + 1 \in 1 .. Len(l) + 2 /\ Len(l) + 2 \in 1 .. Len(l) + 2
        /\ pos + n + (Len(l) + 1) = pos + n + Len(l) + 1
        /\ pos + n + (Len(l) + 2) = pos + n + Len(l) + 2
        /\ n + (Len(l) + 1) = n + Len(l) + 1 /\ n + (Len(l) + 2) = n + Len(l) + 2
    BY <1>1
  <2> QED
    BY <1>2, <2>1 DEF LineAt
<1> QED
  BY <1>3, <1>4 DEF LineAt

(* A header and what follows it. *)
Header(mark, n) == <<mark, Digit(n)>>

LEMMA HeaderTyped ==
  ASSUME NEW mark \in {Star, Dollar}, NEW n \in 0 .. 9
  PROVE  /\ Header(mark, n) \in Seq(Nat) /\ Len(Header(mark, n)) = 2 /\ OneLine(Header(mark, n))
         /\ Header(mark, n) # <<>> /\ Head(Header(mark, n)) = mark
         /\ Tail(Header(mark, n)) = <<Digit(n)>>
BY DEF Header, OneLine, Digit, Star, Dollar, LF

LEMMA HeadedBytes ==
  ASSUME NEW mark \in {Star, Dollar}, NEW n \in 0 .. 9, NEW u \in Seq(Nat)
  PROVE  LET b == <<mark, Digit(n)>> \o CRLF \o u
         IN  /\ b \in Seq(Nat) /\ Len(b) = Len(u) + 4 /\ LineAt(b, 0, Header(mark, n))
             /\ \A i \in 1 .. Len(u) : b[4 + i] = u[i]
<1> DEFINE l == Header(mark, n)
           h == l \o CRLF
           b == h \o u
<1>1. l \in Seq(Nat) /\ Len(l) = 2
  BY HeaderTyped
<1> HIDE DEF l
<1>2. h \in Seq(Nat) /\ Len(h) = 4 /\ LineAt(h, 0, l)
  BY <1>1, LineBytes, SMTT(60)
<1> HIDE DEF h
<1>3. /\ b \in Seq(Nat) /\ Len(b) = Len(h) + Len(u)
      /\ \A i \in 1 .. Len(h) : b[i] = h[i]
      /\ \A i \in 1 .. Len(u) : b[Len(h) + i] = u[i]
  BY <1>2, Joined
<1> HIDE DEF b
<1>4. Len(b) = Len(u) + 4
  BY <1>2, <1>3, SeqFacts
<1>5. LineAt(b, 0 + 0, l)
  <2>1. \A x \in 1 .. 4 : b[0 + x] = h[x]
    BY <1>2, <1>3
  <2>2. 0 + Len(l) + 2 <= 4 /\ 4 \in Nat /\ 0 \in Nat
    BY <1>1
  <2> QED
    BY <1>1, <1>2, <2>1, <2>2, LineShift
<1>6. LineAt(b, 0, l) /\ \A i \in 1 .. Len(u) : b[4 + i] = u[i]
  BY <1>2, <1>3, <1>5
<1>7. b = <<mark, Digit(n)>> \o CRLF \o u /\ l = Header(mark, n)
  BY DEF b, h, l, Header
<1> QED
  BY <1>3, <1>4, <1>6, <1>7

(* No argument is empty, and none begins as a header does.                *)
Readable == \A a \in Args : a # <<>> /\ Head(a) # Dollar

(* The arguments that are written as they are read. *)
Readables == {a \in Seq(0 .. 255) : Len(a) \in 1 .. 9 /\ a[1] # Dollar}

LEMMA ReadableTyped ==
  ASSUME NEW a \in Readables
  PROVE  /\ a \in Seq(Nat) /\ Len(a) \in 1 .. 9 /\ Len(a) \in 0 .. 9
         /\ a # <<>> /\ Head(a) # Dollar
<1>1. a \in Seq(0 .. 255) /\ Len(a) \in 1 .. 9 /\ a[1] # Dollar
  BY DEF Readables
<1>2. 0 .. 255 \subseteq Nat
  OBVIOUS
<1>3. a \in Seq(Nat)
  BY <1>1, <1>2, SeqMonotonic
<1>4. a # <<>> /\ Head(a) = a[1]
  BY <1>1, EmptySeq
<1> QED
  BY <1>1, <1>3, <1>4

LEMMA ArgBytes ==
  ASSUME NEW a \in Readables
  PROVE  LET b == EncodeArg(a)
         IN  /\ b \in Seq(Nat) /\ Len(b) = Len(a) + 6
             /\ LineAt(b, 0, Header(Dollar, Len(a))) /\ LineAt(b, 4, a)
             /\ EncodeBulk(a) = b
<1> DEFINE u == a \o CRLF
           h == <<Dollar, Digit(Len(a))>> \o CRLF
           b == h \o u
<1>1. a \in Seq(Nat) /\ Len(a) \in 0 .. 9 /\ a # <<>>
  BY ReadableTyped
<1>2. u \in Seq(Nat) /\ Len(u) = Len(a) + 2 /\ LineAt(u, 0, a)
  BY <1>1, LineBytes
<1>3. EncodeArg(a) = (h \o a) \o CRLF /\ EncodeBulk(a) = (h \o a) \o CRLF
  BY <1>1 DEF EncodeArg, EncodeBulk
<1>4. CRLF \in Seq(Nat) /\ h \in Seq(Nat)
  <2>1. CRLF \in Seq(Nat) /\ <<Dollar, Digit(Len(a))>> \in Seq(Nat)
    BY <1>1 DEF CRLF, CR, LF, Dollar, Digit
  <2> QED
    BY <2>1, Joined
<1>5. (h \o a) \o CRLF = b
  <2> HIDE DEF h
  <2>1. (h \o a) \o CRLF = h \o (a \o CRLF)
    BY <1>1, <1>4, ConcatAssociative, SMTT(60)
  <2> QED
    BY <2>1
<1>6. /\ b \in Seq(Nat) /\ Len(b) = Len(u) + 4 /\ LineAt(b, 0, Header(Dollar, Len(a)))
      /\ \A i \in 1 .. Len(u) : b[4 + i] = u[i]
  <2> HIDE DEF u
  <2> QED
    BY <1>1, <1>2, HeadedBytes
<1> HIDE DEF b, u
<1>7. LineAt(b, 4 + 0, a)
  <2>1. 0 + Len(a) + 2 <= Len(u) /\ Len(u) \in Nat /\ 0 \in Nat /\ 4 \in Nat
    BY <1>1, <1>2
  <2> QED
    BY <1>1, <1>2, <1>6, <2>1, LineShift
<1>8. Len(b) = Len(a) + 6 /\ 4 + 0 = 4
  BY <1>1, <1>2, <1>6
<1> QED
  BY <1>3, <1>5, <1>6, <1>7, <1>8

ArgLists == {args \in Seq(Readables) : Len(args) \in 1 .. 9}
ArgParts(args) == [i \in DOMAIN args |-> EncodeArg(args[i])]

(* What a reply of one line is, and what the others are. *)
SingleKinds == {"null", "status", "errorReply", "int"}
SingleText(kind) ==
  CASE kind = "null"       -> <<Dollar, Minus, Digit(1)>>
    [] kind = "status"     -> <<Plus, 79, 75>>
    [] kind = "errorReply" -> <<Minus, 69>>
    [] kind = "int"        -> <<Colon, Digit(1)>>

Items == {Payload("multi", args) : args \in ArgLists}
         \union {Payload("bulk", <<a>>) : a \in Readables}
         \union {Payload(kind, <<>>) : kind \in SingleKinds}

LEMMA PartsTyped ==
  ASSUME NEW args \in Seq(Readables)
  PROVE  /\ ArgParts(args) \in Seq(Seq(Nat)) /\ Len(ArgParts(args)) = Len(args)
         /\ \A i \in 1 .. Len(args) : ArgParts(args)[i] = EncodeArg(args[i])
<1>1. /\ Len(args) \in Nat /\ DOMAIN args = 1 .. Len(args)
      /\ \A i \in 1 .. Len(args) : args[i] \in Readables
  BY SeqFacts
<1>2. \A i \in 1 .. Len(args) : EncodeArg(args[i]) \in Seq(Nat)
  BY <1>1, ArgBytes
<1>3. ArgParts(args) = [i \in 1 .. Len(args) |-> EncodeArg(args[i])]
  BY <1>1 DEF ArgParts
<1> QED
  BY <1>1, <1>2, <1>3

LEMMA MultiBytes ==
  ASSUME NEW args \in ArgLists
  PROVE  LET b == EncodeMulti(args)
             F == FlattenSeq(ArgParts(args))
         IN  /\ b \in Seq(Nat) /\ F \in Seq(Nat) /\ Len(b) = Len(F) + 4
             /\ LineAt(b, 0, Header(Star, Len(args)))
             /\ \A i \in 1 .. Len(F) : b[4 + i] = F[i]
<1> DEFINE F == FlattenSeq(ArgParts(args))
<1>1. args \in Seq(Readables) /\ Len(args) \in 0 .. 9
  BY DEF ArgLists
<1>2. F \in Seq(Nat)
  BY <1>1, PartsTyped, TextLaid
<1>3. EncodeMulti(args) = <<Star, Digit(Len(args))>> \o CRLF \o F
  BY DEF EncodeMulti, ArgParts
<1> HIDE DEF F
<1>4. LET b == <<Star, Digit(Len(args))>> \o CRLF \o F
      IN  /\ b \in Seq(Nat) /\ Len(b) = Len(F) + 4 /\ LineAt(b, 0, Header(Star, Len(args)))
          /\ \A i \in 1 .. Len(F) : b[4 + i] = F[i]
  BY <1>1, <1>2, HeadedBytes
<1> QED
  BY <1>2, <1>3, <1>4 DEF F

LEMMA SingleTyped ==
  ASSUME NEW kind \in SingleKinds
  PROVE  /\ SingleText(kind) \in Seq(Nat) /\ Len(SingleText(kind)) \in 1 .. 3
         /\ OneLine(SingleText(kind)) /\ SingleText(kind) # <<>>
         /\ ToBytes(Payload(kind, <<>>)) = SingleText(kind) \o CRLF
<1> USE DEF OneLine, Dollar, Minus, Plus, Colon, Digit, LF
<1>1. CASE kind = "null"
  <2>1. SingleText(kind) = <<Dollar, Minus, Digit(1)>>
    BY <1>1 DEF SingleText
  <2>2. ToBytes(Payload(kind, <<>>)) = <<Dollar, Minus, Digit(1)>> \o CRLF
    BY <1>1 DEF ToBytes, Payload
  <2> QED
    BY <2>1, <2>2
<1>2. CASE kind = "status"
  <2>1. SingleText(kind) = <<Plus, 79, 75>>
    BY <1>2 DEF SingleText
  <2>2. ToBytes(Payload(kind, <<>>)) = <<Plus, 79, 75>> \o CRLF
    BY <1>2 DEF ToBytes, Payload
  <2> QED
    BY <2>1, <2>2
<1>3. CASE kind = "errorReply"
  <2>1. SingleText(kind) = <<Minus, 69>>
    BY <1>3 DEF SingleText
  <2>2. ToBytes(Payload(kind, <<>>)) = <<Minus, 69>> \o CRLF
    BY <1>3 DEF ToBytes, Payload
  <2> QED
    BY <2>1, <2>2
<1>4. CASE kind = "int"
  <2>1. SingleText(kind) = <<Colon, Digit(1)>>
    BY <1>4 DEF SingleText
  <2>2. ToBytes(Payload(kind, <<>>)) = <<Colon, Digit(1)>> \o CRLF
    BY <1>4 DEF ToBytes, Payload
  <2> QED
    BY <2>1, <2>2
<1> QED
  BY <1>1, <1>2, <1>3, <1>4 DEF SingleKinds

LEMMA BytesTyped ==
  ASSUME NEW p \in Items
  PROVE  ToBytes(p) \in Seq(Nat)
<1>1. ASSUME NEW args \in ArgLists, p = Payload("multi", args) PROVE ToBytes(p) \in Seq(Nat)
  <2>1. ToBytes(p) = EncodeMulti(args)
    BY <1>1 DEF ToBytes, Payload
  <2> QED
    BY <2>1, MultiBytes
<1>2. ASSUME NEW a \in Readables, p = Payload("bulk", <<a>>) PROVE ToBytes(p) \in Seq(Nat)
  <2>1. ToBytes(p) = EncodeBulk(a)
    BY <1>2 DEF ToBytes, Payload
  <2> QED
    BY <2>1, ArgBytes
<1>3. ASSUME NEW kind \in SingleKinds, p = Payload(kind, <<>>) PROVE ToBytes(p) \in Seq(Nat)
  BY <1>3, SingleTyped, LineBytes
<1> QED
  BY <1>1, <1>2, <1>3 DEF Items

-----------------------------------------------------------------------------
(* What the parser does with the lines of what is written.                 *)

Outcome(p) == IF p.kind = "bulk" THEN Payload("multi", p.args) ELSE p

(* States of the reader: by their fields, and when k arguments were read   *)
(* and the next line or body is due.                                       *)
IsState(s, f, e, u, n) ==
  /\ DOMAIN s = {"multi", "expected", "args", "bulkLen"}
  /\ s.multi = f /\ s.expected = e /\ s.args = u /\ s.bulkLen = n

Due(s, args, k, n) == IsState(s, TRUE, Len(args), SubSeq(args, 1, k), n)

LEMMA StateChanges ==
  ASSUME NEW s, NEW f, NEW e, NEW u, NEW n, IsState(s, f, e, u, n), NEW d, NEW v, NEW m
  PROVE  /\ IsState([s EXCEPT !.multi = TRUE, !.expected = d], TRUE, d, u, n)
         /\ IsState([s EXCEPT !.multi = TRUE, !.expected = d, !.bulkLen = m], TRUE, d, u, m)
         /\ IsState([s EXCEPT !.args = v, !.bulkLen = m], f, e, v, m)
         /\ IsState([s EXCEPT !.bulkLen = m], f, e, u, m)
<1>1. IsState([s EXCEPT !.multi = TRUE, !.expected = d], TRUE, d, u, n)
  BY DEF IsState
<1>2. IsState([s EXCEPT !.multi = TRUE, !.expected = d, !.bulkLen = m], TRUE, d, u, m)
  BY DEF IsState
<1>3. IsState([s EXCEPT !.args = v, !.bulkLen = m], f, e, v, m)
  BY DEF IsState
<1>4. IsState([s EXCEPT !.bulkLen = m], f, e, u, m)
  BY DEF IsState
<1> QED
  BY <1>1, <1>2, <1>3, <1>4

LEMMA FreshState == IsState(Fresh, FALSE, 0, <<>>, 0)
BY DEF Fresh, IsState

LEMMA NothingRead == \A args : SubSeq(args, 1, 0) = <<>>
BY SubSeqEmpty

LEMMA ReadSingle ==
  ASSUME NEW kind \in SingleKinds, Line(Fresh, SingleText(kind))
  PROVE  Deliver(Payload(kind, <<>>))
<1>1. FirstLine(SingleText(kind))
  BY DEF Line, Fresh
<1>2. CASE kind = "null"
  <2> DEFINE l == <<Dollar, Minus, Digit(1)>>
  <2>1. SingleText(kind) = l
    BY <1>2 DEF SingleText
  <2>2. l # <<>> /\ Head(l) = Dollar /\ Tail(l) = <<Minus, Digit(1)>> /\ Dollar # Star
    BY DEF Dollar, Star
  <2> HIDE DEF l
  <2>3. BulkHeader(l)
    BY <1>1, <2>1, <2>2 DEF FirstLine
  <2>4. IsInt(Tail(l)) /\ IntOf(Tail(l)) = -1
    BY <2>2, MinusOne
  <2>5. ~(IntOf(Tail(l)) < -1) /\ IntOf(Tail(l)) # 0
    BY <2>4
  <2> QED
    BY <1>2, <2>3, <2>4, <2>5 DEF BulkHeader
<1>3. CASE kind # "null"
  <2> DEFINE l == SingleText(kind)
  <2>1. /\ kind = "status" => l = <<Plus, 79, 75>>
        /\ kind = "errorReply" => l = <<Minus, 69>>
        /\ kind = "int" => l = <<Colon, Digit(1)>>
    BY DEF SingleText
  <2>2. l # <<>>
    BY SingleTyped
  <2> HIDE DEF l
  <2>3. /\ kind = "status" => Head(l) = Plus
        /\ kind = "errorReply" => Head(l) = Minus
        /\ kind = "int" => Head(l) = Colon /\ Tail(l) = <<Digit(1)>>
    <3>1. Head(<<Plus, 79, 75>>) = Plus /\ Head(<<Minus, 69>>) = Minus
          /\ Head(<<Colon, Digit(1)>>) = Colon
      OBVIOUS
    <3>2. Tail(<<Colon, Digit(1)>>) = <<Digit(1)>>
      OBVIOUS
    <3> QED
      BY <2>1, <3>1, <3>2, Zenon
  <2>4. SingleLine(l)
    <3>1. Head(l) # Star /\ Head(l) # Dollar
      BY <1>3, <2>3 DEF SingleKinds, Star, Dollar, Plus, Minus, Colon
    <3> QED
      BY <1>1, <2>2, <3>1 DEF FirstLine, l
  <2>5. CASE kind = "status"
    BY <2>3, <2>4, <2>5 DEF SingleLine, Plus, Minus, Colon
  <2>6. CASE kind = "errorReply"
    BY <2>3, <2>4, <2>6 DEF SingleLine, Plus, Minus, Colon
  <2>7. CASE kind = "int"
    <3>1. IsInt(Tail(l))
      <4>1. 1 \in 0 .. 9
        OBVIOUS
      <4> QED
        BY <2>3, <2>7, <4>1, DigitInt
    <3> QED
      BY <2>3, <2>4, <2>7, <3>1 DEF SingleLine, Plus, Minus, Colon
  <2> QED
    BY <1>3, <2>5, <2>6, <2>7 DEF SingleKinds
<1> QED
  BY <1>2, <1>3

(* The header of an array, and of a bulk reply. *)
LEMMA ReadHeader ==
  ASSUME NEW args \in ArgLists, Line(Fresh, Header(Star, Len(args)))
  PROVE  Due(state', args, 0, 0) /\ UNCHANGED <<out, status>>
<1> DEFINE l == Header(Star, Len(args))
           s == [Fresh EXCEPT !.multi = TRUE, !.expected = Len(args)]
<1>1. Len(args) \in 1 .. 9 /\ Len(args) \in 0 .. 9
  BY DEF ArgLists
<1>2. l # <<>> /\ Head(l) = Star /\ Tail(l) = <<Digit(Len(args))>>
  BY <1>1, HeaderTyped
<1> HIDE DEF l
<1>3. FirstLine(l)
  BY DEF Line, Fresh, l
<1>4. MultiBulkHeader(l)
  BY <1>2, <1>3 DEF FirstLine
<1>5. GoOn(s)
  <2>1. IsDigits(Tail(l)) /\ NatOf(Tail(l)) = Len(args)
    BY <1>1, <1>2, OneDigit
  <2>2. NatOf(Tail(l)) # 0
    BY <1>1, <2>1
  <2> QED
    BY <1>4, <2>1, <2>2 DEF MultiBulkHeader
<1>6. Due(s, args, 0, 0)
  <2>1. IsState(s, TRUE, Len(args), <<>>, 0)
    BY FreshState, StateChanges
  <2> HIDE DEF s
  <2> QED
    BY <2>1, NothingRead DEF Due
<1> HIDE DEF s
<1> QED
  BY <1>5, <1>6 DEF GoOn

LEMMA ReadBulkHeader ==
  ASSUME NEW a \in Readables, Line(Fresh, Header(Dollar, Len(a)))
  PROVE  Due(state', <<a>>, 0, Len(a)) /\ UNCHANGED <<out, status>>
<1> DEFINE l == Header(Dollar, Len(a))
           s == [Fresh EXCEPT !.multi = TRUE, !.expected = 1, !.bulkLen = Len(a)]
<1>1. Len(a) \in 1 .. 9 /\ Len(a) \in 0 .. 9
  BY ReadableTyped
<1>2. l # <<>> /\ Head(l) = Dollar /\ Tail(l) = <<Digit(Len(a))>> /\ Dollar # Star
  <2>1. Dollar # Star
    BY DEF Dollar, Star
  <2> QED
    BY <1>1, <2>1, HeaderTyped
<1> HIDE DEF l
<1>3. FirstLine(l)
  BY DEF Line, Fresh, l
<1>4. BulkHeader(l)
  BY <1>2, <1>3 DEF FirstLine
<1>5. GoOn(s)
  <2>1. IsInt(Tail(l)) /\ IntOf(Tail(l)) = Len(a)
    BY <1>1, <1>2, DigitInt
  <2>2. ~(IntOf(Tail(l)) < -1) /\ IntOf(Tail(l)) # 0 /\ IntOf(Tail(l)) # -1
    BY <1>1, <2>1
  <2> QED
    BY <1>4, <2>1, <2>2 DEF BulkHeader
<1>6. Due(s, <<a>>, 0, Len(a))
  <2>1. Len(<<a>>) = 1
    OBVIOUS
  <2>2. IsState(s, TRUE, 1, <<>>, Len(a))
    BY FreshState, StateChanges
  <2> HIDE DEF s
  <2> QED
    BY <2>1, <2>2, NothingRead DEF Due
<1> HIDE DEF s
<1> QED
  BY <1>5, <1>6 DEF GoOn

(* The length of an argument, and the argument. *)
LEMMA ReadLength ==
  ASSUME NEW args \in ArgLists, NEW k \in 0 .. Len(args) - 1, NEW s, Due(s, args, k, 0),
         Line(s, Header(Dollar, Len(args[k + 1])))
  PROVE  Due(state', args, k, Len(args[k + 1])) /\ UNCHANGED <<out, status>>
<1> DEFINE a == args[k + 1]
           l == Header(Dollar, Len(a))
<1>1. a \in Readables
  <2>1. args \in Seq(Readables) /\ Len(args) \in Nat /\ k + 1 \in 1 .. Len(args)
    BY DEF ArgLists
  <2> QED
    BY <2>1, SeqFacts
<1> HIDE DEF a
<1>2. Len(a) \in 1 .. 9 /\ Len(a) \in 0 .. 9
  BY <1>1, ReadableTyped
<1>3. l # <<>> /\ Head(l) = Dollar /\ Tail(l) = <<Digit(Len(a))>>
  BY <1>2, HeaderTyped
<1> HIDE DEF l
<1>4. Body(s, l)
  BY DEF Line, Due, IsState, l, a
<1>5. GoOn([s EXCEPT !.bulkLen = Len(a)])
  <2>1. IsInt(Tail(l)) /\ IntOf(Tail(l)) = Len(a)
    BY <1>2, <1>3, DigitInt
  <2>2. ~(IntOf(Tail(l)) <= 0)
    BY <1>2, <2>1
  <2> QED
    BY <1>3, <1>4, <2>1, <2>2 DEF Body
<1>6. Due([s EXCEPT !.bulkLen = Len(a)], args, k, Len(a))
  BY StateChanges DEF Due
<1> QED
  BY <1>5, <1>6 DEF GoOn, a

LEMMA ReadArg ==
  ASSUME NEW args \in ArgLists, NEW k \in 0 .. Len(args) - 1, NEW s, Due(s, args, k, 0),
         Line(s, args[k + 1])
  PROVE  /\ k + 1 = Len(args) => Deliver(Payload("multi", args))
         /\ k + 1 # Len(args) => Due(state', args, k + 1, 0) /\ UNCHANGED <<out, status>>
<1> DEFINE a == args[k + 1]
<1>0. args \in Seq(Readables) /\ Len(args) \in 1 .. 9 /\ k \in Nat
      /\ k + 1 \in 1 .. Len(args) /\ k \in 0 .. Len(args) /\ k + 1 \in 0 .. Len(args)
  BY DEF ArgLists
<1>1. a \in Readables
  BY <1>0, SeqFacts
<1>2. a # <<>> /\ Head(a) # Dollar
  BY <1>1, ReadableTyped
<1>3. Append(s.args, a) = SubSeq(args, 1, k + 1)
  <2> DEFINE u == SubSeq(args, 1, k)
             v == SubSeq(args, 1, k + 1)
  <2>1. /\ u \in Seq(Readables) /\ Len(u) = k /\ \A i \in 1 .. k : u[i] = args[i]
        /\ v \in Seq(Readables) /\ Len(v) = k + 1 /\ \A i \in 1 .. k + 1 : v[i] = args[i]
    BY <1>0, Beginning
  <2>2. s.args = u
    BY DEF Due, IsState
  <2> HIDE DEF u, v
  <2>3. /\ Append(u, a) \in Seq(Readables) /\ Len(Append(u, a)) = k + 1
        /\ \A i \in 1 .. k : Append(u, a)[i] = u[i]
        /\ Append(u, a)[k + 1] = a
    BY <1>1, <2>1, AppendProperties
  <2>4. ASSUME NEW i \in 1 .. k + 1 PROVE Append(u, a)[i] = v[i]
    <3>1. i \in 1 .. k \/ i = k + 1
      BY <1>0
    <3> QED
      BY <2>1, <2>3, <3>1
  <2>5. Append(u, a) = v
    BY <2>1, <2>3, <2>4, SeqEqual
  <2> QED
    BY <2>2, <2>5 DEF v
<1>4. Argument(s, a)
  <2>1. Body(s, a)
    BY DEF Line, Due, IsState
  <2> HIDE DEF a
  <2> QED
    BY <1>2, <2>1 DEF Body
<1> HIDE DEF a
<1> DEFINE v == SubSeq(args, 1, k + 1)
<1>5. s.expected = Len(args) /\ Len(v) = k + 1 /\ Due([s EXCEPT !.args = v, !.bulkLen = 0], args, k + 1, 0)
  <2>1. s.expected = Len(args)
    BY DEF Due, IsState
  <2>2. Len(v) = k + 1
    BY <1>0, Beginning
  <2>3. Due([s EXCEPT !.args = v, !.bulkLen = 0], args, k + 1, 0)
    BY StateChanges DEF Due
  <2> QED
    BY <2>1, <2>2, <2>3
<1>6. k + 1 = Len(args) => v = args
  BY <1>0, SubSeqFull
<1>7. Append(s.args, a) = v
  BY <1>3
<1> HIDE DEF v
<1>8. CASE k + 1 = Len(args)
  BY <1>4, <1>5, <1>6, <1>7, <1>8 DEF Argument
<1>9. CASE k + 1 # Len(args)
  BY <1>4, <1>5, <1>7, <1>9 DEF Argument, GoOn
<1> QED
  BY <1>8, <1>9

-----------------------------------------------------------------------------
(* Between two turns of its loop the parser is at the start of something   *)
(* that was written, or within it: before the line or the bytes of an      *)
(* argument.                                                               *)

LEMMA LaidGrows ==
  ASSUME NEW parts \in Seq(Seq(Nat)), NEW T, NEW e, Laid(parts, T, e),
         NEW i \in 0 .. Len(parts), NEW j \in i .. Len(parts)
  PROVE  e[i] <= e[j]
<1>0. Len(parts) \in Nat /\ \A n \in 1 .. Len(parts) : Len(parts[n]) \in Nat
  BY SeqFacts
<1> DEFINE I == {k \in Nat : i + k <= Len(parts) => e[i] <= e[i + k]}
<1>1. 0 \in I
  <2>0. e \in [0 .. Len(parts) -> Nat]
    BY DEF Laid
  <2>1. i \in Nat /\ i + 0 = i /\ e[i] \in Nat
    BY <1>0, <2>0
  <2>2. e[i] <= e[i + 0]
    BY <2>1
  <2> QED
    BY <2>2
<1>2. ASSUME NEW k \in Nat, NEW m, m = i + k, m + 1 <= Len(parts), e[i] <= e[m]
      PROVE  e[i] <= e[m + 1]
  <2>1. m + 1 \in 1 .. Len(parts) /\ (m + 1) - 1 = m /\ m \in 0 .. Len(parts)
    BY <1>0, <1>2
  <2>2. e[m + 1] = e[m] + Len(parts[m + 1]) /\ e[m] \in Nat /\ e[i] \in Nat
    BY <2>1 DEF Laid
  <2> QED
    BY <1>0, <1>2, <2>1, <2>2
<1>3. ASSUME NEW k \in I PROVE k + 1 \in I
  <2>1. ASSUME i + (k + 1) <= Len(parts) PROVE e[i] <= e[i + (k + 1)]
    <3>1. /\ i + k <= Len(parts) /\ (i + k) + 1 = i + (k + 1) /\ k \in Nat
          /\ (i + k) + 1 <= Len(parts) /\ e[i] <= e[i + k]
      BY <1>0, <2>1
    <3>2. e[i] <= e[(i + k) + 1]
      BY <1>2, <3>1
    <3> QED
      BY <3>1, <3>2
  <2> QED
    BY <2>1
<1>4. I = Nat
  <2>1. I \in SUBSET Nat
    OBVIOUS
  <2> HIDE DEF I
  <2> QED
    BY <1>1, <1>3, <2>1, SetInduction
<1>5. j - i \in Nat /\ i + (j - i) = j /\ j <= Len(parts)
  BY <1>0
<1>6. \A k \in Nat : i + k <= Len(parts) => e[i] <= e[i + k]
  BY <1>4
<1> QED
  BY <1>5, <1>6

LEMMA LaidShift ==
  ASSUME NEW parts \in Seq(Seq(Nat)), NEW F \in Seq(Nat), NEW e, Laid(parts, F, e),
         e[Len(parts)] <= Len(F), NEW T, NEW d \in Nat,
         \A i \in 1 .. Len(F) : T[d + i] = F[i]
  PROVE  LET a == [i \in 0 .. Len(parts) |-> d + e[i]]
         IN  Laid(parts, T, a) /\ \A i \in 0 .. Len(parts) : a[i] = d + e[i]
<1> DEFINE N == Len(parts)
           a == [i \in 0 .. N |-> d + e[i]]
<1>0. N \in Nat /\ Len(F) \in Nat /\ \A n \in 1 .. N : Len(parts[n]) \in Nat
  BY SeqFacts
<1>1. e \in [0 .. N -> Nat]
  BY DEF Laid
<1>2. a \in [0 .. N -> Nat] /\ \A i \in 0 .. N : a[i] = d + e[i]
  BY <1>1
<1> HIDE DEF a
<1>3. ASSUME NEW i \in 1 .. N
      PROVE  /\ a[i] = a[i - 1] + Len(parts[i])
             /\ \A x \in 1 .. Len(parts[i]) : T[a[i - 1] + x] = parts[i][x]
  <2>1. i - 1 \in 0 .. N /\ i \in 0 .. N /\ N \in i .. N /\ N \in 0 .. N
    BY <1>0
  <2>2. /\ e[i] = e[i - 1] + Len(parts[i]) /\ e[i] <= e[N] /\ e[i - 1] \in Nat /\ e[i] \in Nat
        /\ e[N] \in Nat /\ Len(parts[i]) \in Nat
    BY <1>0, <1>1, <2>1, LaidGrows, ZenonT(60) DEF Laid
  <2>4. a[i] = d + e[i] /\ a[i - 1] = d + e[i - 1]
    BY <1>2, <2>1
  <2>3. ASSUME NEW x \in 1 .. Len(parts[i]) PROVE T[a[i - 1] + x] = parts[i][x]
    <3>1. F[e[i - 1] + x] = parts[i][x]
      BY DEF Laid
    <3>2. e[N] <= Len(F) /\ e[i - 1] + x >= 1 /\ e[i - 1] + x <= e[i]
      BY <2>2, SMTT(60)
    <3>3. e[i - 1] + x \in 1 .. Len(F)
      <4>1. \A y \in Nat : y >= 1 /\ y <= e[i] => y \in 1 .. Len(F)
        BY <1>0, <2>2, <3>2
      <4> QED
        BY <2>2, <3>2, <4>1
    <3>4. a[i - 1] + x = d + (e[i - 1] + x)
      BY <2>2, <2>4
    <3> QED
      BY <3>1, <3>3, <3>4
  <2>5. a[i] = a[i - 1] + Len(parts[i])
    BY <2>2, <2>4
  <2> QED
    BY <2>3, <2>5
<1>4. Laid(parts, T, a)
  BY <1>2, <1>3 DEF Laid
<1> QED
  BY <1>2, <1>4 DEF a

PlaceIn(p, T, fin, pos, s) ==
  /\ p.kind \in {"multi", "bulk"} /\ p.args \in ArgLists /\ p = Payload(p.kind, p.args)
  /\ \E a : \E k \in 0 .. Len(p.args) - 1 :
       /\ Laid(ArgParts(p.args), T, a) /\ a[Len(p.args)] = fin
       /\ \/ Due(s, p.args, k, 0) /\ pos = a[k]
          \/ Due(s, p.args, k, Len(p.args[k + 1])) /\ pos = a[k] + 4

(* A turn of the loop comes to the next place or to the end. *)
Proceeds(p, T, fin, pos) ==
  \/ PlaceIn(p, T, fin, pos, state') /\ UNCHANGED <<out, status>>
  \/ pos = fin /\ Deliver(Outcome(p))

Ready(s) == IF s.bulkLen = 0 THEN s ELSE [s EXCEPT !.bulkLen = 0]

(* What a turn takes. *)
Turn(p, T, pos, fin, s, l) ==
  /\ l \in Seq(Nat) /\ l # <<>> /\ LineAt(T, pos, l) /\ pos + Len(l) + 2 <= fin
  /\ (s.bulkLen = 0 /\ OneLine(l)) \/ s.bulkLen = Len(l)
  /\ Line(Ready(s), l) => Proceeds(p, T, fin, pos + Len(l) + 2)

LEMMA TurnAtArg ==
  ASSUME NEW p, NEW T, NEW fin \in Nat, NEW pos \in Nat, NEW s, PlaceIn(p, T, fin, pos, s)
  PROVE  \E l : Turn(p, T, pos, fin, s, l)
<1> DEFINE args == p.args
<1>1. /\ p.kind \in {"multi", "bulk"} /\ args \in ArgLists /\ p = Payload(p.kind, args)
      /\ \E a : \E k \in 0 .. Len(args) - 1 :
           /\ Laid(ArgParts(args), T, a) /\ a[Len(args)] = fin
           /\ \/ Due(s, args, k, 0) /\ pos = a[k]
              \/ Due(s, args, k, Len(args[k + 1])) /\ pos = a[k] + 4
  BY DEF PlaceIn
<1>0. PICK a : \E k \in 0 .. Len(args) - 1 :
        /\ Laid(ArgParts(args), T, a) /\ a[Len(args)] = fin
        /\ \/ Due(s, args, k, 0) /\ pos = a[k]
           \/ Due(s, args, k, Len(args[k + 1])) /\ pos = a[k] + 4
  BY <1>1
<1>2. PICK k \in 0 .. Len(args) - 1 :
        /\ Laid(ArgParts(args), T, a) /\ a[Len(args)] = fin
        /\ \/ Due(s, args, k, 0) /\ pos = a[k]
           \/ Due(s, args, k, Len(args[k + 1])) /\ pos = a[k] + 4
  BY <1>0
<1> HIDE DEF args
<1> DEFINE x == args[k + 1]
           b == EncodeArg(x)
<1>3. /\ args \in Seq(Readables) /\ Len(args) \in 1 .. 9
      /\ k \in Nat /\ k + 1 \in 1 .. Len(args) /\ (k + 1) - 1 = k
      /\ k \in 0 .. Len(args) /\ k + 1 \in 0 .. Len(args) /\ Len(args) \in k + 1 .. Len(args)
  BY <1>1 DEF ArgLists
<1>4. x \in Readables
  BY <1>3, SeqFacts
<1>5. /\ ArgParts(args) \in Seq(Seq(Nat)) /\ Len(ArgParts(args)) = Len(args)
      /\ ArgParts(args)[k + 1] = b
  BY <1>3, PartsTyped
<1> HIDE DEF x
<1>6. /\ b \in Seq(Nat) /\ Len(b) = Len(x) + 6 /\ LineAt(b, 0, Header(Dollar, Len(x)))
      /\ LineAt(b, 4, x)
  BY <1>4, ArgBytes
<1> HIDE DEF b
<1>7. /\ a[k] \in Nat /\ a[k + 1] \in Nat /\ a[k + 1] = a[k] + Len(b)
      /\ \A i \in 1 .. Len(b) : T[a[k] + i] = b[i]
  BY <1>2, <1>3, <1>5 DEF Laid
<1>8. a[k + 1] <= fin
  BY <1>2, <1>3, <1>5, LaidGrows
<1>9. x \in Seq(Nat) /\ Len(x) \in 1 .. 9 /\ Len(x) \in 0 .. 9 /\ x # <<>>
  BY <1>4, ReadableTyped
<1>10. CASE Due(s, args, k, 0) /\ pos = a[k]
  <2> DEFINE l == Header(Dollar, Len(x))
  <2>1. l \in Seq(Nat) /\ Len(l) = 2 /\ OneLine(l) /\ l # <<>>
    BY <1>9, HeaderTyped
  <2>2. s.bulkLen = 0 /\ Ready(s) = s
    BY <1>10 DEF Due, IsState, Ready
  <2>3. Line(s, l) => Due(state', args, k, Len(x)) /\ UNCHANGED <<out, status>>
    BY <1>1, <1>10, ReadLength DEF x
  <2> HIDE DEF l
  <2>4. LineAt(T, a[k] + 0, l)
    <3>1. 0 + Len(l) + 2 <= Len(b) /\ Len(b) \in Nat /\ 0 \in Nat
      BY <1>6, <1>9, <2>1
    <3> QED
      BY <1>6, <1>7, <2>1, <3>1, LineShift DEF l
  <2>5. LineAt(T, pos, l) /\ pos + Len(l) + 2 = a[k] + 4 /\ pos + Len(l) + 2 <= fin
    <3>1. pos = a[k] + 0
      BY <1>7, <1>10
    <3>2. LineAt(T, pos, l)
      BY <2>4, <3>1
    <3>3. pos + Len(l) + 2 = a[k] + 4
      BY <1>7, <1>10, <2>1
    <3>4. a[k] + 4 <= fin
      BY <1>6, <1>7, <1>8, <1>9, SMTT(60)
    <3> QED
      BY <3>2, <3>3, <3>4
  <2>6. ASSUME Line(s, l) PROVE Proceeds(p, T, fin, pos + Len(l) + 2)
    <3>1. Due(state', args, k, Len(args[k + 1])) /\ UNCHANGED <<out, status>>
      BY <2>3, <2>6 DEF x
    <3>2. PlaceIn(p, T, fin, pos + Len(l) + 2, state')
      BY <1>1, <1>2, <2>5, <3>1 DEF PlaceIn, args
    <3> QED
      BY <3>1, <3>2 DEF Proceeds
  <2>7. Turn(p, T, pos, fin, s, l)
    BY <2>1, <2>2, <2>5, <2>6 DEF Turn
  <2> QED
    BY <2>7
<1>11. CASE Due(s, args, k, Len(args[k + 1])) /\ pos = a[k] + 4
  <2>1. s.bulkLen = Len(x) /\ Due(Ready(s), args, k, 0)
    <3>1. s.bulkLen = Len(x) /\ s.bulkLen # 0
      BY <1>9, <1>11 DEF Due, IsState, x
    <3> QED
      BY <1>11, <3>1, StateChanges DEF Due, Ready
  <2>2. LineAt(T, pos, x) /\ pos + Len(x) + 2 = a[k + 1] /\ pos + Len(x) + 2 <= fin
    <3>1. 4 + Len(x) + 2 <= Len(b) /\ Len(b) \in Nat /\ 4 \in Nat
      BY <1>6, <1>9
    <3>2. LineAt(T, a[k] + 4, x)
      BY <1>6, <1>7, <1>9, <3>1, LineShift
    <3>3. LineAt(T, pos, x)
      BY <1>11, <3>2
    <3>4. pos + Len(x) + 2 = a[k + 1]
      <4>1. pos = a[k] + 4 /\ a[k + 1] = a[k] + (Len(x) + 6) /\ Len(x) \in Nat /\ a[k] \in Nat
        BY <1>6, <1>7, <1>9, <1>11
      <4>2. \A u, n \in Nat : (u + 4) + n + 2 = u + (n + 6)
        OBVIOUS
      <4> QED
        BY <4>1, <4>2
    <3> QED
      BY <1>8, <3>3, <3>4
  <2>3. ASSUME Line(Ready(s), x) PROVE Proceeds(p, T, fin, pos + Len(x) + 2)
    <3>1. /\ k + 1 = Len(args) => Deliver(Payload("multi", args))
          /\ k + 1 # Len(args) => Due(state', args, k + 1, 0) /\ UNCHANGED <<out, status>>
      BY <1>1, <2>1, <2>3, ReadArg DEF x
    <3>2. CASE k + 1 = Len(args)
      <4>1. Outcome(p) = Payload("multi", args)
        BY <1>1 DEF Outcome, args
      <4> QED
        BY <1>2, <2>2, <3>1, <3>2, <4>1 DEF Proceeds
    <3>3. CASE k + 1 # Len(args)
      <4>1. k + 1 \in 0 .. Len(args) - 1
        BY <1>3, <3>3
      <4>2. PlaceIn(p, T, fin, pos + Len(x) + 2, state')
        BY <1>1, <1>2, <2>2, <3>1, <3>3, <4>1 DEF PlaceIn, args
      <4> QED
        BY <3>1, <3>3, <4>2 DEF Proceeds
    <3> QED
      BY <3>2, <3>3
  <2>4. Turn(p, T, pos, fin, s, x)
    BY <1>9, <2>1, <2>2, <2>3 DEF Turn
  <2> QED
    BY <2>4
<1> QED
  BY <1>2, <1>10, <1>11

LEMMA TurnAtStart ==
  ASSUME NEW p \in Items, NEW T, NEW n \in Nat, NEW fin \in Nat, fin = n + Len(ToBytes(p)),
         \A x \in 1 .. Len(ToBytes(p)) : T[n + x] = ToBytes(p)[x]
  PROVE  \E l : Turn(p, T, n, fin, Fresh, l)
<1> DEFINE b == ToBytes(p)
<1>1. Fresh.bulkLen = 0 /\ Ready(Fresh) = Fresh
  BY DEF Fresh, Ready
<1>2. b \in Seq(Nat) /\ Len(b) \in Nat /\ 0 \in Nat
  BY BytesTyped, SeqFacts
<1>3. ASSUME NEW l \in Seq(Nat), l # <<>>, OneLine(l), LineAt(b, 0, l), Len(l) + 2 <= Len(b),
             Line(Fresh, l) => Proceeds(p, T, fin, n + Len(l) + 2)
      PROVE  \E m : Turn(p, T, n, fin, Fresh, m)
  <2> HIDE DEF b
  <2>1. Len(l) \in Nat
    BY SeqFacts
  <2>2. 0 + Len(l) + 2 <= Len(b)
    BY <1>3, <2>1
  <2>3. \A x \in 1 .. Len(b) : T[n + x] = b[x]
    BY DEF b
  <2>4. LineAt(T, n + 0, l)
    BY <1>2, <1>3, <2>2, <2>3, LineShift
  <2>5. n + 0 = n /\ n + Len(l) + 2 <= fin
    BY <1>2, <1>3, <2>1 DEF b
  <2>6. Turn(p, T, n, fin, Fresh, l)
    BY <1>1, <1>3, <2>4, <2>5 DEF Turn
  <2> QED
    BY <2>6
<1>4. ASSUME NEW kind \in SingleKinds, p = Payload(kind, <<>>)
      PROVE  \E m : Turn(p, T, n, fin, Fresh, m)
  <2> DEFINE l == SingleText(kind)
  <2>1. /\ l \in Seq(Nat) /\ Len(l) \in 1 .. 3 /\ OneLine(l) /\ l # <<>>
        /\ b = l \o CRLF
    BY <1>4, SingleTyped
  <2>2. Line(Fresh, l) => Deliver(p)
    BY <1>4, ReadSingle
  <2>3. Outcome(p) = p
    BY <1>4 DEF Outcome, Payload, SingleKinds
  <2> HIDE DEF l, b
  <2>4. Len(b) = Len(l) + 2 /\ LineAt(b, 0, l)
    BY <2>1, LineBytes
  <2>5. n + Len(l) + 2 = fin /\ Len(l) + 2 <= Len(b)
    BY <1>2, <2>1, <2>4 DEF b
  <2>6. Line(Fresh, l) => Proceeds(p, T, fin, n + Len(l) + 2)
    BY <2>2, <2>3, <2>5 DEF Proceeds
  <2> QED
    BY <1>3, <2>1, <2>4, <2>5, <2>6
<1>5. ASSUME NEW a \in Readables, p = Payload("bulk", <<a>>)
      PROVE  \E m : Turn(p, T, n, fin, Fresh, m)
  <2> DEFINE l == Header(Dollar, Len(a))
             args == <<a>>
             e == [i \in 0 .. 1 |-> IF i = 0 THEN n ELSE fin]
  <2>1. a \in Seq(Nat) /\ Len(a) \in 1 .. 9 /\ Len(a) \in 0 .. 9
    BY ReadableTyped
  <2>2. l \in Seq(Nat) /\ Len(l) = 2 /\ OneLine(l) /\ l # <<>>
    BY <2>1, HeaderTyped
  <2>3. Line(Fresh, l) => Due(state', args, 0, Len(a)) /\ UNCHANGED <<out, status>>
    BY ReadBulkHeader
  <2>4. args \in Seq(Readables) /\ Len(args) = 1 /\ args[1] = a
    OBVIOUS
  <2>5. p.kind = "bulk" /\ p.args = args /\ p = Payload(p.kind, p.args)
    BY <1>5 DEF Payload
  <2>6. b = EncodeArg(a)
    <3>1. b = EncodeBulk(a)
      BY <1>5 DEF ToBytes, Payload
    <3> QED
      BY <3>1, ArgBytes
  <2> HIDE DEF l, args, b
  <2>7. args \in ArgLists
    BY <2>4 DEF ArgLists
  <2>8. Len(b) = Len(a) + 6 /\ LineAt(b, 0, l)
    BY <2>6, ArgBytes DEF l
  <2>9. /\ ArgParts(args) \in Seq(Seq(Nat)) /\ Len(ArgParts(args)) = 1 /\ 1 \in 1 .. Len(args)
        /\ ArgParts(args)[1] = b
    BY <2>4, <2>6, PartsTyped
  <2>10. e[0] = n /\ e[1] = fin /\ e \in [0 .. 1 -> Nat]
    OBVIOUS
  <2> HIDE DEF e
  <2>11. Laid(ArgParts(args), T, e)
    <3>1. \A i \in 1 .. 1 : i = 1 /\ i - 1 = 0
      OBVIOUS
    <3>2. fin = n + Len(b) /\ \A x \in 1 .. Len(b) : T[n + x] = b[x]
      BY DEF b
    <3> QED
      BY <2>9, <2>10, <3>1, <3>2 DEF Laid
  <2>12. Len(l) + 2 <= Len(b) /\ n + Len(l) + 2 = e[0] + 4
    BY <2>1, <2>2, <2>8, <2>10
  <2>13. ASSUME Line(Fresh, l) PROVE Proceeds(p, T, fin, n + Len(l) + 2)
    <3>1. 0 \in 0 .. Len(args) - 1 /\ 0 + 1 = 1
      BY <2>4
    <3>2. Due(state', args, 0, Len(args[0 + 1])) /\ UNCHANGED <<out, status>>
      BY <2>3, <2>4, <2>13, <3>1
    <3>3. PlaceIn(p, T, fin, n + Len(l) + 2, state')
      BY <2>4, <2>5, <2>7, <2>10, <2>11, <2>12, <3>1, <3>2 DEF PlaceIn
    <3> QED
      BY <3>2, <3>3 DEF Proceeds
  <2> QED
    BY <1>3, <2>2, <2>8, <2>12, <2>13
<1>6. ASSUME NEW args \in ArgLists, p = Payload("multi", args)
      PROVE  \E m : Turn(p, T, n, fin, Fresh, m)
  <2> DEFINE l == Header(Star, Len(args))
             F == FlattenSeq(ArgParts(args))
             parts == ArgParts(args)
  <2>1. args \in Seq(Readables) /\ Len(args) \in 1 .. 9 /\ Len(args) \in 0 .. 9
    BY DEF ArgLists
  <2>2. l \in Seq(Nat) /\ Len(l) = 2 /\ OneLine(l) /\ l # <<>>
    BY <2>1, HeaderTyped
  <2>3. Line(Fresh, l) => Due(state', args, 0, 0) /\ UNCHANGED <<out, status>>
    BY ReadHeader
  <2>4. p.kind = "multi" /\ p.args = args /\ p = Payload(p.kind, p.args)
    BY <1>6 DEF Payload
  <2>5. b = EncodeMulti(args)
    BY <1>6 DEF ToBytes, Payload
  <2>6. parts \in Seq(Seq(Nat)) /\ Len(parts) = Len(args)
    BY <2>1, PartsTyped
  <2>7. /\ F \in Seq(Nat) /\ Len(b) = Len(F) + 4 /\ LineAt(b, 0, l)
        /\ \A i \in 1 .. Len(F) : b[4 + i] = F[i]
    BY <2>5, MultiBytes
  <2>8. PICK e : Laid(parts, F, e) /\ e[0] = 0 /\ e[Len(parts)] = Len(F)
    BY <2>6, TextLaid
  <2> HIDE DEF l, b, F, parts
  <2>9. Len(F) \in Nat
    BY <2>7, SeqFacts
  <2>10. \A i \in 1 .. Len(F) : T[(n + 4) + i] = F[i]
    <3>1. \A x \in 1 .. Len(b) : T[n + x] = b[x]
      BY DEF b
    <3>2. ASSUME NEW i \in 1 .. Len(F) PROVE 4 + i \in 1 .. Len(b) /\ n + (4 + i) = (n + 4) + i
      BY <2>7, <2>9
    <3> QED
      BY <2>7, <3>1, <3>2
  <2> DEFINE a == [i \in 0 .. Len(parts) |-> (n + 4) + e[i]]
  <2>11. Laid(parts, T, a) /\ \A i \in 0 .. Len(parts) : a[i] = (n + 4) + e[i]
    <3>1. n + 4 \in Nat /\ e[Len(parts)] <= Len(F)
      BY <2>8, <2>9
    <3> QED
      BY <2>6, <2>7, <2>8, <2>10, <3>1, LaidShift
  <2> HIDE DEF a
  <2>12. a[0] = n + 4 /\ a[Len(args)] = fin
    <3>1. 0 \in 0 .. Len(parts) /\ Len(parts) \in 0 .. Len(parts)
      BY <2>1, <2>6
    <3>2. fin = n + Len(b)
      BY DEF b
    <3>3. a[0] = (n + 4) + 0 /\ a[Len(parts)] = (n + 4) + Len(F)
      BY <2>8, <2>11, <3>1
    <3> QED
      BY <2>6, <2>7, <2>9, <3>2, <3>3
  <2>13. Len(l) + 2 <= Len(b) /\ n + Len(l) + 2 = a[0]
    BY <2>2, <2>7, <2>9, <2>12
  <2>14. ASSUME Line(Fresh, l) PROVE Proceeds(p, T, fin, n + Len(l) + 2)
    <3>1. 0 \in 0 .. Len(args) - 1
      <4>1. \A m \in 1 .. 9 : 0 \in 0 .. m - 1
        OBVIOUS
      <4> QED
        BY <2>1, <4>1
    <3>2. Due(state', args, 0, 0) /\ UNCHANGED <<out, status>>
      BY <2>3, <2>14
    <3>3. PlaceIn(p, T, fin, n + Len(l) + 2, state')
      BY <2>4, <2>11, <2>12, <2>13, <3>1, <3>2 DEF PlaceIn, parts
    <3> QED
      BY <3>2, <3>3 DEF Proceeds
  <2> QED
    BY <1>3, <2>2, <2>7, <2>13, <2>14
<1> QED
  BY <1>4, <1>5, <1>6 DEF Items

-----------------------------------------------------------------------------
(* How far the stream is the text of Q, and how far the parser has come.   *)

Texts(Q)   == [i \in DOMAIN Q |-> ToBytes(Q[i])]
Outs(Q, j) == [i \in 1 .. j |-> Outcome(Q[i])]
Stream     == SubSeq(Written(before), 1, cut) \o Written(after)

(* The first L bytes of the stream are those of the text T of Q, of which  *)
(* they hold J whole parts; when nothing is torn the stream ends there.    *)
Setup(Q, T, e, L, J) ==
  /\ Q \in Seq(Items) /\ Laid(Texts(Q), T, e)
  /\ L \in Nat /\ J \in 0 .. Len(Q) /\ e[J] <= L /\ L <= e[Len(Q)]
  /\ J < Len(Q) => L < e[J + 1]
  /\ Stream \in Seq(Nat) /\ L <= Len(Stream) /\ \A i \in 1 .. L : Stream[i] = T[i]
  /\ NotTorn => L = Len(Stream)

Synced(Q, T, e, L, J) ==
  \E j \in 0 .. J, pos \in Nat :
    /\ status = "run" /\ out = Outs(Q, j)
    /\ pos <= L /\ input = SubSeq(Stream, pos + 1, Len(Stream))
    /\ \/ pos = e[j] /\ state = Fresh
       \/ j < Len(Q) /\ PlaceIn(Q[j + 1], T, e[j + 1], pos, state)

ReadOut(Q, J) == status = "closed" /\ Delivered = Outs(Q, J)
Beyond(Q, J)  ==
  /\ ~NotTorn /\ IsPrefix(Outs(Q, J), Delivered)
  /\ \E S : out \in Seq(S)
  /\ \E S : Delivered \in Seq(S)

Parsing(Q, T, e, L, J) ==
  Setup(Q, T, e, L, J) /\ (Synced(Q, T, e, L, J) \/ ReadOut(Q, J) \/ Beyond(Q, J))

LEMMA OutsTyped ==
  ASSUME NEW Q, NEW j \in Nat
  PROVE  \E S : Outs(Q, j) \in Seq(S) /\ Len(Outs(Q, j)) = j
                /\ \A i \in 1 .. j : Outcome(Q[i]) \in S
<1> DEFINE S == {Outcome(Q[i]) : i \in 1 .. j}
<1>1. \A i \in 1 .. j : Outcome(Q[i]) \in S
  OBVIOUS
<1> HIDE DEF S
<1>2. Outs(Q, j) \in [1 .. j -> S]
  BY <1>1 DEF Outs
<1>3. Outs(Q, j) \in Seq(S) /\ Len(Outs(Q, j)) = j
  BY <1>2
<1> QED
  BY <1>1, <1>3

LEMMA OutsNext ==
  ASSUME NEW Q, NEW j \in Nat
  PROVE  Append(Outs(Q, j), Outcome(Q[j + 1])) = Outs(Q, j + 1)
<1>1. PICK S : Outs(Q, j + 1) \in Seq(S) /\ Len(Outs(Q, j + 1)) = j + 1
                 /\ \A i \in 1 .. j + 1 : Outcome(Q[i]) \in S
  BY OutsTyped
<1> DEFINE o == Outs(Q, j)
           x == Outcome(Q[j + 1])
<1>2. x \in S /\ o \in Seq(S) /\ Len(o) = j
  <2>1. j + 1 \in 1 .. j + 1 /\ \A i \in 1 .. j : i \in 1 .. j + 1
    OBVIOUS
  <2>2. o \in [1 .. j -> S]
    BY <1>1, <2>1 DEF Outs
  <2> QED
    BY <1>1, <2>1, <2>2
<1>3. \A i \in 1 .. j : o[i] = Outcome(Q[i])
  BY DEF Outs
<1>4. \A i \in 1 .. j + 1 : Outs(Q, j + 1)[i] = Outcome(Q[i])
  BY DEF Outs
<1> HIDE DEF o, x
<1>5. /\ Append(o, x) \in Seq(S) /\ Len(Append(o, x)) = j + 1
      /\ \A i \in 1 .. j : Append(o, x)[i] = o[i]
      /\ Append(o, x)[j + 1] = x
  BY <1>2, AppendProperties
<1>6. ASSUME NEW i \in 1 .. j + 1 PROVE Append(o, x)[i] = Outs(Q, j + 1)[i]
  <2>1. i \in 1 .. j \/ i = j + 1
    OBVIOUS
  <2> QED
    BY <1>3, <1>4, <1>5, <2>1 DEF x
<1>7. Append(o, x) = Outs(Q, j + 1)
  BY <1>1, <1>5, <1>6, SeqEqual
<1> QED
  BY <1>7 DEF o, x

(* The end of the stream is no payload of its own. *)
LEMMA FrontOfAppend ==
  ASSUME NEW S, NEW o \in Seq(S), NEW x
  PROVE  /\ Front(Append(o, x)) = o
         /\ \E U : Append(o, x) \in Seq(U)
         /\ \A t : IsPrefix(t, o) /\ Len(t) \in Nat => IsPrefix(t, Append(o, x))
<1> DEFINE U == S \union {x}
           a == Append(o, x)
<1>0. S \subseteq U /\ x \in U
  OBVIOUS
<1>1. o \in Seq(U)
  BY <1>0, SeqMonotonic
<1> HIDE DEF U
<1>2. /\ a \in Seq(U) /\ Len(a) = Len(o) + 1
      /\ \A i \in 1 .. Len(o) : a[i] = o[i]
  BY <1>0, <1>1, AppendProperties
<1>3. Len(o) \in Nat /\ Len(a) - 1 = Len(o) /\ Len(o) \in 0 .. Len(a)
  BY <1>2, SeqFacts
<1> HIDE DEF a
<1>4. ASSUME NEW n \in 0 .. Len(o) PROVE SubSeq(a, 1, n) = SubSeq(o, 1, n)
  <2> DEFINE u == SubSeq(a, 1, n)
             v == SubSeq(o, 1, n)
  <2>1. n \in 0 .. Len(a)
    BY <1>2, <1>3
  <2>2. /\ u \in Seq(U) /\ Len(u) = n /\ \A i \in 1 .. n : u[i] = a[i]
        /\ v \in Seq(U) /\ Len(v) = n /\ \A i \in 1 .. n : v[i] = o[i]
    BY <1>1, <1>2, <2>1, Beginning
  <2> HIDE DEF u, v
  <2>3. \A i \in 1 .. n : u[i] = v[i]
    BY <1>2, <1>3, <2>2
  <2>4. u = v
    BY <2>2, <2>3, SeqEqual
  <2> QED
    BY <2>4 DEF u, v
<1>5. Front(a) = o
  <2>1. SubSeq(o, 1, Len(o)) = o /\ Len(o) \in 0 .. Len(o)
    BY <1>1, <1>3, SubSeqFull
  <2> QED
    BY <1>3, <1>4, <2>1 DEF Front
<1>6. ASSUME NEW t, IsPrefix(t, o), Len(t) \in Nat PROVE IsPrefix(t, a)
  <2>1. Len(t) <= Len(o) /\ SubSeq(t, 1, Len(t)) = SubSeq(o, 1, Len(t))
    BY <1>6 DEF IsPrefix
  <2>2. Len(t) \in 0 .. Len(o) /\ Len(t) <= Len(a)
    BY <1>2, <1>3, <1>6, <2>1
  <2>3. SubSeq(a, 1, Len(t)) = SubSeq(o, 1, Len(t))
    BY <1>4, <2>2
  <2> QED
    BY <2>1, <2>2, <2>3 DEF IsPrefix
<1> QED
  BY <1>2, <1>5, <1>6 DEF a

-----------------------------------------------------------------------------
(* One turn of the loop, by what there is to read.                         *)

LEMMA LineEndIs ==
  ASSUME input \in Seq(Nat), NEW m \in 1 .. Len(input), input[m] = LF,
         \A i \in 1 .. m - 1 : input[i] # LF
  PROVE  HasLine /\ LineEnd = m
<1> DEFINE I == {i \in 1 .. Len(input) : input[i] = LF}
<1>0. Len(input) \in Nat /\ DOMAIN input = 1 .. Len(input)
  BY SeqFacts
<1>1. HasLine
  BY <1>0 DEF HasLine, ToSet
<1>2. m \in I /\ \A i \in I : m <= i
  BY <1>0
<1>3. LineEnd = Min(I)
  BY <1>2 DEF LineEnd, SelectInSeq
<1>4. I \subseteq Nat
  BY <1>0
<1> HIDE DEF I
<1>5. Min(I) = m
  <2>1. \A x \in I : (\A y \in I : x <= y) => x = m
    BY <1>2, <1>4
  <2> QED
    BY <1>2, <2>1 DEF Min
<1> QED
  BY <1>1, <1>3, <1>5

(* A line, or the bytes of an argument, that is there. *)
LEMMA Taken ==
  ASSUME input \in Seq(Nat), status = "run", Next,
         NEW l \in Seq(Nat), l # <<>>, Len(l) + 2 <= Len(input), LineAt(input, 0, l),
         (state.bulkLen = 0 /\ OneLine(l)) \/ state.bulkLen = Len(l)
  PROVE  /\ Line(Ready(state), l) /\ UNCHANGED stream
         /\ input' = SubSeq(input, (Len(l) + 2) + 1, Len(input))
<1> DEFINE m == Len(l) + 2
<1>1. /\ Len(input) \in Nat /\ Len(l) \in Nat \ {0}
      /\ \A i \in 1 .. Len(l) : input[i] = l[i]
      /\ input[Len(l) + 1] = CR /\ input[Len(l) + 2] = LF
  <2>1. Len(input) \in Nat /\ Len(l) \in Nat \ {0}
    BY SeqFacts, EmptySeq
  <2>2. /\ \A i \in 1 .. Len(l) : input[0 + i] = l[i]
        /\ input[0 + Len(l) + 1] = CR /\ input[0 + Len(l) + 2] = LF
    BY DEF LineAt
  <2>3. \A i \in 1 .. Len(l) : 0 + i = i
    OBVIOUS
  <2>4. 0 + Len(l) + 1 = Len(l) + 1 /\ 0 + Len(l) + 2 = Len(l) + 2
    BY <2>1
  <2> QED
    BY <2>1, <2>2, <2>3, <2>4
<1>2. SubSeq(input, 1, Len(l)) = l
  BY <1>1, BeginsWith
<1>3. CASE state.bulkLen = 0 /\ OneLine(l)
  <2>1. m \in 1 .. Len(input) /\ m # 1 /\ m - 1 = Len(l) + 1 /\ m - 2 = Len(l)
    BY <1>1
  <2>2. \A i \in 1 .. m - 1 : input[i] # LF
    <3>1. \A i \in 1 .. m - 1 : i \in 1 .. Len(l) \/ i = Len(l) + 1
      BY <1>1, <2>1
    <3>2. CR # LF
      BY DEF CR, LF
    <3> QED
      BY <1>1, <1>3, <3>1, <3>2 DEF OneLine
  <2>3. HasLine /\ LineEnd = m
    BY <1>1, <2>1, <2>2, LineEndIs
  <2>4. ReadLine
    BY <1>3, <2>3 DEF Next, ReadBulk, ReadEnd, Stopped
  <2>5. /\ input' = SubSeq(input, m + 1, Len(input)) /\ UNCHANGED stream
        /\ IF m = 1 THEN Panic
           ELSE IF input[m - 1] # CR THEN Reject
           ELSE Line(state, SubSeq(input, 1, m - 2))
    BY <2>3, <2>4 DEF ReadLine
  <2>6. Line(state, l)
    BY <1>1, <1>2, <2>1, <2>5
  <2> QED
    BY <1>3, <2>5, <2>6 DEF Ready
<1>4. CASE state.bulkLen = Len(l)
  <2>1. state.bulkLen # 0 /\ ~(Len(input) < state.bulkLen + 2)
    BY <1>1, <1>4
  <2>2. ReadBulk
    BY <2>1 DEF Next, ReadLine, ReadEnd, Stopped
  <2>3. /\ input' = SubSeq(input, Len(l) + 3, Len(input)) /\ UNCHANGED stream
        /\ IF SubSeq(input, Len(l) + 1, Len(l) + 2) # CRLF THEN Reject
           ELSE Line([state EXCEPT !.bulkLen = 0], SubSeq(input, 1, Len(l)))
    BY <1>4, <2>2 DEF ReadBulk
  <2>4. SubSeq(input, Len(l) + 1, Len(l) + 2) = CRLF
    <3> DEFINE n == Len(l)
               u == SubSeq(input, n + 1, n + 2)
    <3>1. \A i \in n + 1 .. n + 2 : input[i] \in Nat
      BY <1>1, SeqFacts
    <3>2. n + 1 \in Int /\ n + 2 \in Int
      BY <1>1
    <3>3. /\ u \in Seq(Nat) /\ Len(u) = IF n + 1 <= n + 2 THEN (n + 2) - (n + 1) + 1 ELSE 0
          /\ \A i \in 1 .. (n + 2) - (n + 1) + 1 : u[i] = input[(n + 1) + i - 1]
      BY <3>1, <3>2, SubSeqProperties
    <3> HIDE DEF u
    <3>4. Len(u) = 2 /\ u[1] = input[n + 1] /\ u[2] = input[n + 2]
      <4>1. /\ n + 1 <= n + 2 /\ (n + 2) - (n + 1) + 1 = 2
            /\ (n + 1) + 1 - 1 = n + 1 /\ (n + 1) + 2 - 1 = n + 2
        BY <1>1
      <4>2. 1 \in 1 .. 2 /\ 2 \in 1 .. 2
        OBVIOUS
      <4> QED
        BY <3>3, <4>1, <4>2
    <3>5. CRLF \in Seq(Nat) /\ Len(CRLF) = 2 /\ CRLF[1] = CR /\ CRLF[2] = LF
      BY DEF CRLF, CR, LF
    <3>6. \A i \in 1 .. 2 : i = 1 \/ i = 2
      OBVIOUS
    <3>7. \A i \in 1 .. Len(u) : u[i] = CRLF[i]
      BY <1>1, <3>4, <3>5, <3>6
    <3>8. u = CRLF
      BY <3>3, <3>4, <3>5, <3>7, SeqEqual
    <3> QED
      BY <3>8 DEF u
  <2>5. Line(Ready(state), l)
    BY <1>2, <2>1, <2>3, <2>4 DEF Ready
  <2>6. Len(l) + 3 = (Len(l) + 2) + 1
    BY <1>1
  <2> QED
    BY <2>3, <2>5, <2>6
<1> QED
  BY <1>3, <1>4

(* The stream ends before. *)
LEMMA Ended ==
  ASSUME input \in Seq(Nat), status = "run", Next,
         NEW l \in Seq(Nat), Len(input) < Len(l) + 2,
         \A i \in 1 .. Len(input) : (i \in 1 .. Len(l) /\ input[i] = l[i]) \/ input[i] = CR,
         \/ state.bulkLen = 0 /\ OneLine(l)
         \/ l # <<>> /\ state.bulkLen = Len(l)
  PROVE  ReadEnd
<1>1. Len(input) \in Nat /\ Len(l) \in Nat /\ DOMAIN input = 1 .. Len(input)
  BY SeqFacts
<1>2. CASE state.bulkLen = 0 /\ OneLine(l)
  <2>1. \A i \in 1 .. Len(input) : input[i] # LF
    <3>1. CR # LF
      BY DEF CR, LF
    <3> QED
      BY <1>2, <3>1 DEF OneLine
  <2>2. ~HasLine
    BY <1>1, <2>1 DEF HasLine, ToSet
  <2> QED
    BY <1>2, <2>2 DEF Next, ReadLine, ReadBulk, Stopped
<1>3. CASE l # <<>> /\ state.bulkLen = Len(l)
  <2>1. Len(l) # 0
    BY <1>3, EmptySeq
  <2>2. ~(Len(input) >= state.bulkLen + 2) /\ state.bulkLen # 0
    BY <1>1, <1>3, <2>1
  <2> QED
    BY <2>2 DEF Next, ReadLine, ReadBulk, Stopped
<1> QED
  BY <1>2, <1>3

LEMMA PrefixOfPrefix ==
  ASSUME NEW R, NEW r \in Seq(R), NEW S, NEW s \in Seq(S), NEW T, NEW t \in Seq(T),
         IsPrefix(r, s), IsPrefix(s, t)
  PROVE  IsPrefix(r, t)
<1> DEFINE m == Len(r)
           n == Len(s)
<1>1. m \in Nat /\ n \in Nat /\ Len(t) \in Nat
  BY SeqFacts
<1>2. /\ m <= n /\ SubSeq(r, 1, m) = SubSeq(s, 1, m)
      /\ n <= Len(t) /\ SubSeq(s, 1, n) = SubSeq(t, 1, n)
  BY DEF IsPrefix
<1>3. m \in 0 .. Len(s) /\ m \in 0 .. Len(t) /\ n \in 0 .. Len(t) /\ n \in 0 .. Len(s)
  BY <1>1, <1>2
<1> HIDE DEF m, n
<1>4. ASSUME NEW i \in 1 .. m PROVE s[i] = t[i]
  <2>1. i \in 1 .. n
    BY <1>1, <1>2
  <2>2. SubSeq(s, 1, n)[i] = s[i] /\ SubSeq(t, 1, n)[i] = t[i]
    BY <1>3, <2>1, Beginning
  <2> QED
    BY <1>2, <2>2
<1> DEFINE U == S \union T
           a == SubSeq(s, 1, m)
           b == SubSeq(t, 1, m)
<1>5. s \in Seq(U) /\ t \in Seq(U)
  BY SeqMonotonic
<1> HIDE DEF U
<1>6. /\ a \in Seq(U) /\ Len(a) = m /\ \A i \in 1 .. m : a[i] = s[i]
      /\ b \in Seq(U) /\ Len(b) = m /\ \A i \in 1 .. m : b[i] = t[i]
  BY <1>3, <1>5, Beginning
<1> HIDE DEF a, b
<1>7. a = b
  BY <1>4, <1>6, SeqEqual
<1> QED
  BY <1>1, <1>2, <1>7 DEF IsPrefix, a, b, m

LEMMA PrefixOfItself ==
  ASSUME NEW t
  PROVE  IsPrefix(t, t) <=> Len(t) <= Len(t)
BY DEF IsPrefix

(* A turn of the loop while the stream is the text of Q. *)
LEMMA SyncedStep ==
  ASSUME NEW Q, NEW T, NEW e, NEW L, NEW J,
         Setup(Q, T, e, L, J), Synced(Q, T, e, L, J), Next
  PROVE  Synced(Q, T, e, L, J)' \/ ReadOut(Q, J)' \/ Beyond(Q, J)
<1> DEFINE S == Stream
           N == Len(Q)
<1>1. /\ Q \in Seq(Items) /\ Laid(Texts(Q), T, e)
      /\ L \in Nat /\ J \in 0 .. N /\ e[J] <= L /\ L <= e[N]
      /\ J < N => L < e[J + 1]
      /\ S \in Seq(Nat) /\ L <= Len(S) /\ \A i \in 1 .. L : S[i] = T[i]
      /\ NotTorn => L = Len(S)
  BY DEF Setup
<1>2. PICK j \in 0 .. J, pos \in Nat :
        /\ status = "run" /\ out = Outs(Q, j)
        /\ pos <= L /\ input = SubSeq(S, pos + 1, Len(S))
        /\ \/ pos = e[j] /\ state = Fresh
           \/ j < N /\ PlaceIn(Q[j + 1], T, e[j + 1], pos, state)
  BY DEF Synced
<1>3. /\ N \in Nat /\ DOMAIN Q = 1 .. N /\ \A i \in 1 .. N : Q[i] \in Items
      /\ Len(S) \in Nat
  BY <1>1, SeqFacts
<1>4. /\ Texts(Q) \in Seq(Seq(Nat)) /\ Len(Texts(Q)) = N
      /\ \A i \in 1 .. N : Texts(Q)[i] = ToBytes(Q[i])
  <2>1. \A i \in 1 .. N : ToBytes(Q[i]) \in Seq(Nat)
    BY <1>3, BytesTyped
  <2>2. Texts(Q) = [i \in 1 .. N |-> ToBytes(Q[i])]
    BY <1>3 DEF Texts
  <2> QED
    BY <1>3, <2>1, <2>2
<1>5. e \in [0 .. N -> Nat] /\ j \in 0 .. N /\ j \in Nat
  BY <1>1, <1>2, <1>3, <1>4 DEF Laid
<1> HIDE DEF S, N
<1>6. /\ input \in Seq(Nat) /\ Len(input) = Len(S) - pos
      /\ \A i \in 1 .. Len(S) - pos : input[i] = S[pos + i]
  <2>1. pos \in 0 .. Len(S)
    BY <1>1, <1>2, <1>3
  <2> QED
    BY <1>1, <1>2, <2>1, Remainder
<1>7. ASSUME NEW i \in Nat \ {0}, pos + i <= L PROVE i \in 1 .. Len(input) /\ input[i] = T[pos + i]
  <2>1. i \in 1 .. Len(S) - pos /\ pos + i \in 1 .. L
    BY <1>1, <1>2, <1>3, <1>7
  <2> QED
    BY <1>1, <1>6, <2>1
<1>8. ASSUME j = J, ReadEnd PROVE ReadOut(Q, J)'
  <2>1. PICK U : Outs(Q, j) \in Seq(U)
    BY <1>5, OutsTyped
  <2>2. out' = Append(Outs(Q, j), Payload("end", <<>>)) /\ status' = "closed"
    BY <1>2, <1>8 DEF ReadEnd, Send
  <2>3. Front(out') = Outs(Q, j)
    BY <2>1, <2>2, FrontOfAppend
  <2> QED
    BY <1>8, <2>2, <2>3 DEF ReadOut, Delivered
<1>9. ASSUME j = J, ~NotTorn PROVE Beyond(Q, J)
  <2>1. PICK U : Outs(Q, j) \in Seq(U) /\ Len(Outs(Q, j)) = j
    BY <1>5, OutsTyped
  <2>2. IsPrefix(Outs(Q, j), Outs(Q, j))
    BY <1>5, <2>1, PrefixOfItself
  <2>3. Delivered = Outs(Q, j)
    BY <1>2 DEF Delivered
  <2> QED
    BY <1>2, <1>9, <2>1, <2>2, <2>3 DEF Beyond
<1>10. CASE j = N
  <2>1. J = N /\ j = J
    BY <1>1, <1>2, <1>3, <1>10
  <2>2. pos = e[N] /\ state = Fresh
    BY <1>2, <1>3, <1>10
  <2>3. pos = L
    BY <1>1, <1>2, <1>3, <1>5, <2>2
  <2>4. ASSUME NotTorn PROVE ReadEnd
    <3>1. Len(input) = 0
      BY <1>1, <1>3, <1>6, <2>3, <2>4
    <3>2. Fresh.bulkLen = 0 /\ <<>> \in Seq(Nat) /\ Len(<<>>) = 0 /\ OneLine(<<>>)
      BY DEF Fresh, OneLine
    <3> QED
      BY <1>2, <1>6, <2>2, <3>1, <3>2, Ended, SMTT(60)
  <2> QED
    BY <1>8, <1>9, <2>1, <2>4
<1>11. CASE j # N
  <2> DEFINE p == Q[j + 1]
             fin == e[j + 1]
  <2>1. /\ j < N /\ j + 1 \in 1 .. N /\ j + 1 \in 0 .. N /\ (j + 1) - 1 = j
        /\ p \in Items /\ fin \in Nat /\ e[j] \in Nat
    BY <1>3, <1>5, <1>11
  <2>2. /\ fin = e[j] + Len(ToBytes(p))
        /\ \A x \in 1 .. Len(ToBytes(p)) : T[e[j] + x] = ToBytes(p)[x]
    BY <1>1, <1>4, <2>1, SMTT(60) DEF Laid
  <2>3. PICK l : Turn(p, T, pos, fin, state, l)
    <3>1. CASE pos = e[j] /\ state = Fresh
      <4> HIDE DEF p, fin
      <4> QED
        BY <2>1, <2>2, <3>1, TurnAtStart
    <3>2. CASE PlaceIn(p, T, fin, pos, state)
      BY <1>2, <2>1, <3>2, TurnAtArg
    <3> QED
      BY <1>2, <3>1, <3>2
  <2> HIDE DEF p, fin
  <2>4. /\ l \in Seq(Nat) /\ l # <<>> /\ LineAt(T, pos, l) /\ pos + Len(l) + 2 <= fin
        /\ (state.bulkLen = 0 /\ OneLine(l)) \/ state.bulkLen = Len(l)
        /\ Line(Ready(state), l) => Proceeds(p, T, fin, pos + Len(l) + 2)
    BY <2>3 DEF Turn
  <2>5. Len(l) \in Nat /\ Len(input) \in Nat
    BY <1>6, <2>4, SeqFacts
  <2>6. CASE pos + Len(l) + 2 <= L
    <3> DEFINE m == Len(l) + 2
    <3>1. m <= Len(input)
      BY <1>1, <1>2, <1>3, <1>6, <2>5, <2>6
    <3>2. LineAt(input, 0, l)
      <4>1. \A i \in 1 .. m : input[i] = T[pos + i]
        BY <1>1, <1>2, <1>7, <2>5, <2>6, SMTT(60)
      <4>2. \A i \in 1 .. Len(l) : i \in 1 .. m
        BY <2>5
      <4>3. Len(l) + 1 \in 1 .. m /\ Len(l) + 2 \in 1 .. m
        BY <2>5
      <4>4. /\ \A i \in 1 .. Len(l) : T[pos + i] = l[i]
            /\ T[pos + Len(l) + 1] = CR /\ T[pos + Len(l) + 2] = LF
        BY <2>4 DEF LineAt
      <4>5. /\ pos + (Len(l) + 1) = pos + Len(l) + 1 /\ pos + (Len(l) + 2) = pos + Len(l) + 2
            /\ 0 + Len(l) + 1 = Len(l) + 1 /\ 0 + Len(l) + 2 = Len(l) + 2
        BY <2>5
      <4>6. input[Len(l) + 1] = CR /\ input[Len(l) + 2] = LF
        BY <4>1, <4>3, <4>4, <4>5
      <4>7. \A i \in 1 .. Len(l) : input[i] = l[i] /\ 0 + i = i
        BY <4>1, <4>2, <4>4
      <4> QED
        BY <4>5, <4>6, <4>7 DEF LineAt
    <3>3. /\ Line(Ready(state), l) /\ UNCHANGED stream
          /\ input' = SubSeq(input, m + 1, Len(input))
      BY <1>2, <1>6, <2>4, <3>1, <3>2, Taken
    <3>4. Proceeds(p, T, fin, pos + Len(l) + 2)
      BY <2>4, <3>3
    <3> DEFINE next == pos + Len(l) + 2
    <3>5. /\ next \in Nat /\ next <= L /\ Stream' = S
          /\ input' = SubSeq(S, next + 1, Len(S))
      <4>1. pos \in 0 .. Len(S) /\ m \in 0 .. Len(input) /\ pos + m = next /\ next \in Nat
        BY <1>1, <1>2, <1>3, <2>5, <3>1
      <4> HIDE DEF m, next
      <4>2. SubSeq(input, m + 1, Len(input)) = SubSeq(S, pos + m + 1, Len(S))
        BY <1>1, <1>2, <4>1, RemainderOfRemainder
      <4>3. Stream' = S
        BY <3>3 DEF stream, Stream, S
      <4> QED
        BY <2>6, <3>3, <4>1, <4>2, <4>3 DEF m, next
    <3> HIDE DEF next, m
    <3>6. CASE PlaceIn(p, T, fin, next, state') /\ UNCHANGED <<out, status>>
      <4>1. /\ status' = "run" /\ out' = Outs(Q, j)
            /\ next <= L /\ input' = SubSeq(Stream', next + 1, Len(Stream'))
            /\ j < N /\ PlaceIn(Q[j + 1], T, e[j + 1], next, state')
        BY <1>2, <2>1, <3>5, <3>6 DEF p, fin
      <4>2. Synced(Q, T, e, L, J)'
        BY <3>5, <4>1 DEF Synced, N
      <4> QED
        BY <4>2
    <3>7. CASE next = fin /\ Deliver(Outcome(p))
      <4>1. out' = Outs(Q, j + 1) /\ state' = Fresh /\ status' = "run"
        BY <1>2, <1>5, <3>7, OutsNext DEF Deliver, Send, p
      <4>2. j + 1 \in 0 .. J
        <5>1. J < N => e[J + 1] > L
          BY <1>1, <1>3, <1>5
        <5>2. j # J
          BY <1>1, <1>2, <1>3, <1>5, <2>1, <3>5, <3>7, <5>1 DEF fin
        <5> QED
          BY <1>1, <1>2, <1>3, <5>2
      <4>3. next = e[j + 1]
        BY <3>7 DEF fin
      <4>4. Synced(Q, T, e, L, J)'
        BY <3>5, <4>1, <4>2, <4>3 DEF Synced
      <4> QED
        BY <4>4
    <3> QED
      BY <3>4, <3>6, <3>7 DEF Proceeds, next
  <2>7. CASE ~(pos + Len(l) + 2 <= L)
    <3>1. j = J
      <4>1. fin > L
        BY <1>1, <2>1, <2>4, <2>5, <2>7
      <4>2. ASSUME j < J PROVE FALSE
        <5>1. J \in j + 1 .. N /\ J \in 0 .. N
          BY <1>1, <1>3, <1>5, <4>2
        <5>2. e[j + 1] <= e[J]
          BY <1>1, <1>4, <2>1, <5>1, LaidGrows
        <5>3. e[J] \in Nat
          BY <1>5, <5>1
        <5> QED
          BY <1>1, <2>1, <4>1, <5>2, <5>3 DEF fin
      <4> QED
        BY <1>1, <1>2, <1>3, <4>2
    <3>2. ASSUME NotTorn PROVE ReadEnd
      <4>1. Len(input) = L - pos /\ Len(input) < Len(l) + 2
        BY <1>1, <1>2, <1>6, <2>5, <2>7, <3>2
      <4>2. ASSUME NEW i \in 1 .. Len(input)
            PROVE  (i \in 1 .. Len(l) /\ input[i] = l[i]) \/ input[i] = CR
        <5>1. input[i] = T[pos + i]
          BY <1>1, <1>2, <1>7, <2>5, <4>1
        <5>2. i \in 1 .. Len(l) \/ i = Len(l) + 1
          BY <2>5, <4>1
        <5>3. CASE i \in 1 .. Len(l)
          BY <2>4, <5>1, <5>3 DEF LineAt
        <5>4. CASE i = Len(l) + 1
          <6>1. pos + i = pos + Len(l) + 1
            BY <2>5, <5>4
          <6> QED
            BY <2>4, <5>1, <6>1 DEF LineAt
        <5> QED
          BY <5>2, <5>3, <5>4
      <4> QED
        BY <1>2, <1>6, <2>4, <4>1, <4>2, Ended
    <3> QED
      BY <1>8, <1>9, <3>1, <3>2
  <2> QED
    BY <2>6, <2>7
<1> QED
  BY <1>10, <1>11

-----------------------------------------------------------------------------
(* Once the parser is past what it can be held to, and once it has stopped.*)

Emits ==
  \/ UNCHANGED <<out, status>>
  \/ UNCHANGED out /\ status' = "dead"
  \/ UNCHANGED status /\ \E x : Send(x)

LEMMA LineEmits ==
  ASSUME NEW s, NEW l, Line(s, l)
  PROVE  Emits
<1>1. ASSUME NEW p, Deliver(p) PROVE Emits
  BY <1>1 DEF Deliver, Emits
<1>2. ASSUME NEW t, GoOn(t) PROVE Emits
  BY <1>2 DEF GoOn, Emits
<1>3. Reject => Emits
  BY <1>1 DEF Reject
<1>4. Panic => Emits
  BY DEF Panic, Emits
<1>5. ASSUME NEW a, Argument(s, a) PROVE Emits
  BY <1>1, <1>2, <1>5 DEF Argument
<1>6. Body(s, l) => Emits
  BY <1>2, <1>3, <1>4, <1>5 DEF Body
<1>7. MultiBulkHeader(l) => Emits
  BY <1>1, <1>2, <1>3 DEF MultiBulkHeader
<1>8. BulkHeader(l) => Emits
  BY <1>1, <1>2, <1>3 DEF BulkHeader
<1>9. SingleLine(l) => Emits
  BY <1>1, <1>3 DEF SingleLine
<1> QED
  BY <1>4, <1>6, <1>7, <1>8, <1>9 DEF Line, FirstLine

LEMMA StepEmits ==
  ASSUME [Next]_vars
  PROVE  /\ UNCHANGED stream
         /\ \/ UNCHANGED <<out, status>>
            \/ /\ status = "run"
               /\ \/ Emits
                  \/ Send(Payload("end", <<>>)) /\ status' = "closed"
<1>1. CASE ReadLine
  <2>1. Panic => Emits
    BY DEF Panic, Emits
  <2>2. Reject => Emits
    BY DEF Reject, Deliver, Emits
  <2> QED
    BY <1>1, <2>1, <2>2, LineEmits DEF ReadLine
<1>2. CASE ReadBulk
  <2>1. Reject => Emits
    BY DEF Reject, Deliver, Emits
  <2> QED
    BY <1>2, <2>1, LineEmits DEF ReadBulk
<1>3. CASE ReadEnd
  BY <1>3 DEF ReadEnd
<1>4. CASE Stopped
  BY <1>4 DEF Stopped, vars, stream
<1>5. CASE UNCHANGED vars
  BY <1>5 DEF vars, stream
<1> QED
  BY <1>1, <1>2, <1>3, <1>4, <1>5 DEF Next

(* What was delivered stays delivered. *)
LEMMA BeyondStep ==
  ASSUME NEW Q, NEW J \in Nat, Beyond(Q, J), [Next]_vars
  PROVE  Beyond(Q, J)'
<1> DEFINE t == Outs(Q, J)
<1>1. ~NotTorn' /\ ~NotTorn
  BY StepEmits DEF Beyond, stream, NotTorn, WholeBefore
<1>2. Len(t) \in Nat
  BY OutsTyped
<1> HIDE DEF t
<1>3. IsPrefix(t, Delivered)
  BY DEF Beyond, t
<1>4. PICK S : out \in Seq(S)
  BY DEF Beyond
<1>5. SUFFICES IsPrefix(t, Delivered') /\ (\E U : out' \in Seq(U)) /\ \E U : Delivered' \in Seq(U)
  BY <1>1 DEF Beyond, t
<1>6. CASE UNCHANGED <<out, status>>
  <2>1. Delivered' = Delivered
    BY <1>6 DEF Delivered
  <2> QED
    BY <1>3, <1>4, <1>6, <2>1 DEF Beyond
<1>7. CASE status = "run" /\ Emits /\ ~UNCHANGED <<out, status>>
  <2>1. Delivered = out
    BY <1>7 DEF Delivered
  <2>2. Delivered' = out'
    BY <1>7 DEF Delivered, Emits
  <2>3. CASE UNCHANGED out
    BY <1>3, <1>4, <2>1, <2>2, <2>3
  <2>4. CASE \E x : Send(x)
    <3>1. PICK x : out' = Append(out, x)
      BY <2>4 DEF Send
    <3> QED
      BY <1>2, <1>3, <1>4, <2>1, <2>2, <3>1, FrontOfAppend
  <2> QED
    BY <1>7, <2>3, <2>4 DEF Emits
<1>8. CASE status = "run" /\ Send(Payload("end", <<>>)) /\ status' = "closed"
  <2>1. out' = Append(out, Payload("end", <<>>)) /\ Delivered = out /\ Delivered' = Front(out')
    BY <1>8 DEF Delivered, Send
  <2>2. Delivered' = out /\ \E U : out' \in Seq(U)
    BY <1>4, <2>1, FrontOfAppend
  <2> QED
    BY <1>3, <2>1, <2>2
<1> QED
  BY <1>6, <1>7, <1>8, StepEmits

LEMMA ParsingStep ==
  ASSUME NEW Q, NEW T, NEW e, NEW L, NEW J, Parsing(Q, T, e, L, J), [Next]_vars
  PROVE  Parsing(Q, T, e, L, J)'
<1>1. Setup(Q, T, e, L, J)
  BY DEF Parsing
<1>2. UNCHANGED stream
  BY StepEmits
<1>3. Stream' = Stream /\ NotTorn' = NotTorn
  BY <1>2 DEF stream, Stream, NotTorn, WholeBefore
<1>4. Setup(Q, T, e, L, J)'
  BY <1>1, <1>3 DEF Setup
<1>5. J \in Nat
  <2>1. Len(Q) \in Nat
    BY <1>1, SeqFacts DEF Setup
  <2> QED
    BY <1>1, <2>1 DEF Setup
<1>6. CASE UNCHANGED vars
  <2>1. Synced(Q, T, e, L, J) => Synced(Q, T, e, L, J)'
    BY <1>3, <1>6 DEF Synced, vars
  <2>2. ReadOut(Q, J) => ReadOut(Q, J)'
    BY <1>6 DEF ReadOut, Delivered, vars
  <2>3. Beyond(Q, J) => Beyond(Q, J)'
    BY <1>5, BeyondStep
  <2> QED
    BY <1>4, <2>1, <2>2, <2>3 DEF Parsing
<1>7. CASE Next
  <2>1. CASE Synced(Q, T, e, L, J)
    BY <1>1, <1>4, <1>5, <1>7, <2>1, SyncedStep, BeyondStep DEF Parsing
  <2>2. CASE ReadOut(Q, J)
    <3>1. UNCHANGED <<out, status>>
      BY <2>2, StepEmits DEF ReadOut
    <3> QED
      BY <1>4, <2>2, <3>1 DEF Parsing, ReadOut, Delivered
  <2>3. CASE Beyond(Q, J)
    BY <1>4, <1>5, <2>3, BeyondStep DEF Parsing
  <2> QED
    BY <2>1, <2>2, <2>3 DEF Parsing
<1> QED
  BY <1>6, <1>7

-----------------------------------------------------------------------------
(* At first.                                                               *)

LEMMA CommandsAreItems ==
  ASSUME Readable
  PROVE  Commands \subseteq Items /\ Replies \subseteq Items
<1>1. \A a \in Args : a \in Readables
  <2> SUFFICES ASSUME NEW a \in Args PROVE a \in Readables
    OBVIOUS
  <2>1. a \in Seq(0 .. 255) /\ Len(a) <= 9 /\ a # <<>> /\ Head(a) # Dollar
    BY ArgsAssumption DEF Readable
  <2>2. Len(a) \in Nat /\ Len(a) # 0 /\ Head(a) = a[1]
    BY <2>1, SeqFacts, EmptySeq
  <2>3. Len(a) \in 1 .. 9 /\ a[1] # Dollar
    <3>1. \A u \in Nat : u # 0 /\ u <= 9 => u \in 1 .. 9
      OBVIOUS
    <3>2. Len(a) \in 1 .. 9
      BY <2>1, <2>2, <3>1, Zenon
    <3>3. a[1] # Dollar
      BY <2>1, <2>2, Zenon
    <3> QED
      BY <3>2, <3>3
  <2> QED
    BY <2>1, <2>3 DEF Readables
<1>2. ASSUME NEW p \in Commands PROVE p \in Items
  <2>1. PICK args \in UpTo(Args, MaxArgs) \ {<<>>} : p = Payload("multi", args)
    BY DEF Commands
  <2>2. PICK k \in 0 .. MaxArgs : args \in [1 .. k -> Args]
    BY <2>1 DEF UpTo
  <2>3. k \in 0 .. 9 /\ k \in Nat
    BY <2>2, BoundsAssumption
  <2>4. args \in [1 .. k -> Readables]
    BY <1>1, <2>2
  <2>5. args \in Seq(Readables) /\ Len(args) = k
    BY <2>3, <2>4
  <2>6. k # 0
    BY <2>1, <2>5, EmptySeq
  <2>7. args \in ArgLists
    <3>1. Len(args) \in 1 .. 9
      BY <2>3, <2>5, <2>6
    <3> QED
      BY <2>5, <3>1 DEF ArgLists
  <2> QED
    BY <2>1, <2>7 DEF Items
<1>3. ASSUME NEW a \in Args PROVE <<a>> \in ArgLists
  <2>1. a \in Readables
    BY <1>1
  <2> QED
    BY <2>1 DEF ArgLists
<1>4. ASSUME NEW p \in Replies PROVE p \in Items
  <2>1. CASE p \in {Payload(kind, <<>>) : kind \in {"null", "status", "errorReply", "int"}}
    BY <2>1 DEF Items, SingleKinds
  <2>2. CASE p \in {Payload(kind, <<a>>) : kind \in {"bulk", "multi"}, a \in Args}
    <3>1. PICK kind \in {"bulk", "multi"}, a \in Args : p = Payload(kind, <<a>>)
      BY <2>2
    <3> QED
      BY <1>1, <1>3, <3>1 DEF Items
  <2> QED
    BY <2>1, <2>2 DEF Replies
<1> QED
  BY <1>2, <1>4

LEMMA StreamTyped ==
  ASSUME Readable, Init
  PROVE  /\ before \in Seq(Items) /\ after \in Seq(Items)
         /\ cut \in 0 .. Len(Written(before))
<1>1. ASSUME NEW S, S \subseteq Items, NEW n \in Nat, NEW q \in UpTo(S, n)
      PROVE  q \in Seq(Items)
  <2>1. PICK k \in 0 .. n : q \in [1 .. k -> S]
    BY DEF UpTo
  <2>2. k \in Nat /\ q \in [1 .. k -> Items]
    BY <1>1, <2>1
  <2> QED
    BY <2>2
<1>2. MaxCmds \in Nat /\ MaxReplies \in Nat
  BY BoundsAssumption
<1>3. <<>> \in Seq(Items)
  OBVIOUS
<1> QED
  BY <1>1, <1>2, <1>3, CommandsAreItems DEF Init

LEMMA TextsTyped ==
  ASSUME NEW Q \in Seq(Items)
  PROVE  /\ Texts(Q) \in Seq(Seq(Nat)) /\ Len(Texts(Q)) = Len(Q)
         /\ \A i \in 1 .. Len(Q) : Texts(Q)[i] = ToBytes(Q[i])
         /\ Written(Q) = FlattenSeq(Texts(Q))
<1>1. /\ Len(Q) \in Nat /\ DOMAIN Q = 1 .. Len(Q)
      /\ \A i \in 1 .. Len(Q) : Q[i] \in Items
  BY SeqFacts
<1>2. \A i \in 1 .. Len(Q) : ToBytes(Q[i]) \in Seq(Nat)
  BY <1>1, BytesTyped
<1>3. Texts(Q) = [i \in 1 .. Len(Q) |-> ToBytes(Q[i])]
  BY <1>1 DEF Texts
<1>4. Written(Q) = FlattenSeq(Texts(Q))
  BY DEF Written, Texts
<1> QED
  BY <1>1, <1>2, <1>3, <1>4

(* Where the texts of Q end in what is written of it. *)
LEMMA WrittenLaid ==
  ASSUME NEW Q \in Seq(Items)
  PROVE  /\ Written(Q) \in Seq(Nat)
         /\ \E e : /\ Laid(Texts(Q), Written(Q), e) /\ e[0] = 0
                  /\ e[Len(Q)] = Len(Written(Q))
                  /\ \A n \in 0 .. Len(Q) : e[n] = Len(Written(SubSeq(Q, 1, n)))
<1> DEFINE P == Texts(Q)
<1>1. /\ P \in Seq(Seq(Nat)) /\ Len(P) = Len(Q)
      /\ \A i \in 1 .. Len(Q) : P[i] = ToBytes(Q[i])
      /\ Written(Q) = FlattenSeq(P)
  BY TextsTyped
<1> HIDE DEF P
<1>2. PICK e : /\ Laid(P, FlattenSeq(P), e) /\ e[0] = 0
               /\ e[Len(P)] = Len(FlattenSeq(P))
               /\ \A n \in 0 .. Len(P) : e[n] = Len(FlattenSeq(SubSeq(P, 1, n)))
  BY <1>1, TextLaid
<1>3. ASSUME NEW n \in 0 .. Len(Q) PROVE FlattenSeq(SubSeq(P, 1, n)) = Written(SubSeq(Q, 1, n))
  <2> DEFINE q == SubSeq(Q, 1, n)
             u == SubSeq(P, 1, n)
  <2>1. q \in Seq(Items) /\ Len(q) = n /\ \A i \in 1 .. n : q[i] = Q[i]
    BY Beginning
  <2>2. u \in Seq(Seq(Nat)) /\ Len(u) = n /\ \A i \in 1 .. n : u[i] = P[i]
    BY <1>1, Beginning
  <2> HIDE DEF q, u
  <2>3. /\ Texts(q) \in Seq(Seq(Nat)) /\ Len(Texts(q)) = n
        /\ \A i \in 1 .. n : Texts(q)[i] = ToBytes(q[i])
        /\ Written(q) = FlattenSeq(Texts(q))
    BY <2>1, TextsTyped
  <2>4. Len(Q) \in Nat /\ \A i \in 1 .. n : i \in 1 .. Len(Q)
    BY SeqFacts
  <2>5. \A i \in 1 .. n : u[i] = Texts(q)[i]
    BY <1>1, <2>1, <2>2, <2>3, <2>4
  <2>6. u = Texts(q)
    BY <2>2, <2>3, <2>5, SeqEqual
  <2> QED
    BY <2>3, <2>6 DEF q, u
<1>4. FlattenSeq(P) \in Seq(Nat)
  BY <1>1, TextLaid
<1>5. \A n \in 0 .. Len(Q) : e[n] = Len(Written(SubSeq(Q, 1, n)))
  BY <1>1, <1>2, <1>3
<1>6. Laid(P, Written(Q), e) /\ e[0] = 0 /\ e[Len(Q)] = Len(Written(Q))
  BY <1>1, <1>2
<1> QED
  BY <1>1, <1>4, <1>5, <1>6 DEF P

(* How much of "before" is whole. *)
LEMMA WholeIs ==
  ASSUME before \in Seq(Items), cut \in 0 .. Len(Written(before)),
         NEW e, \A n \in 0 .. Len(before) : e[n] = Len(Written(SubSeq(before, 1, n))),
         e[0] = 0, e \in [0 .. Len(before) -> Nat]
  PROVE  \E n \in 0 .. Len(before) :
           /\ WholeBefore = SubSeq(before, 1, n) /\ e[n] = Len(Written(WholeBefore))
           /\ e[n] <= cut /\ (n < Len(before) => cut < e[n + 1])
<1> DEFINE N == Len(before)
           Fits(n) == /\ Len(Written(SubSeq(before, 1, n))) <= cut
                      /\ n = N \/ Len(Written(SubSeq(before, 1, n + 1))) > cut
<1>1. N \in Nat /\ Len(Written(before)) \in Nat /\ cut \in Nat
  BY SeqFacts, WrittenLaid
<1>2. \E n \in 0 .. N : Fits(n)
  <2> SUFFICES ASSUME \A n \in 0 .. N : ~Fits(n) PROVE FALSE
    OBVIOUS
  <2> DEFINE I == {n \in Nat : n <= N => e[n] <= cut}
  <2>1. 0 \in I
    BY <1>1
  <2>2. ASSUME NEW n \in I PROVE n + 1 \in I
    <3> SUFFICES ASSUME n + 1 <= N PROVE e[n + 1] <= cut
      OBVIOUS
    <3>1. n \in 0 .. N /\ n + 1 \in 0 .. N /\ n # N /\ e[n] <= cut
      BY <1>1
    <3>2. ~(Len(Written(SubSeq(before, 1, n + 1))) > cut)
      BY <3>1
    <3>3. ~(e[n + 1] > cut) /\ e[n + 1] \in Nat
      BY <3>1, <3>2
    <3> QED
      BY <1>1, <3>3
  <2> HIDE DEF I
  <2>3. I = Nat
    <3>1. I \subseteq Nat
      BY DEF I
    <3> QED
      BY <2>1, <2>2, <3>1, SetInduction
  <2>4. e[N] <= cut /\ N \in 0 .. N
    BY <1>1, <2>3 DEF I
  <2>5. Fits(N)
    BY <2>4
  <2> QED
    BY <2>4, <2>5
<1> DEFINE c == CHOOSE n \in 0 .. N : Fits(n)
<1>3. c \in 0 .. N /\ Fits(c)
  <2> HIDE DEF Fits, N
  <2> QED
    BY <1>2
<1>4. WholeBefore = SubSeq(before, 1, c)
  BY DEF WholeBefore
<1> HIDE DEF c
<1>5. e[c] = Len(Written(WholeBefore)) /\ e[c] <= cut
  BY <1>3, <1>4
<1>6. ASSUME c < N PROVE cut < e[c + 1]
  <2>1. c + 1 \in 0 .. N /\ c # N
    BY <1>1, <1>3, <1>6
  <2>2. e[c + 1] > cut
    BY <1>3, <2>1
  <2> QED
    BY <1>1, <2>1, <2>2
<1> QED
  BY <1>3, <1>4, <1>5, <1>6

LEMMA StreamIs ==
  ASSUME before \in Seq(Items), after \in Seq(Items), cut \in 0 .. Len(Written(before))
  PROVE  /\ Stream \in Seq(Nat) /\ Len(Stream) = cut + Len(Written(after))
         /\ \A i \in 1 .. cut : Stream[i] = Written(before)[i]
         /\ \A i \in 1 .. Len(Written(after)) : Stream[cut + i] = Written(after)[i]
<1> DEFINE b == Written(before)
           u == SubSeq(b, 1, cut)
           t == Written(after)
<1>1. b \in Seq(Nat) /\ t \in Seq(Nat)
  BY WrittenLaid
<1>2. Stream = u \o t
  BY DEF Stream
<1>3. cut \in 0 .. Len(b)
  OBVIOUS
<1> HIDE DEF b, t
<1>4. u \in Seq(Nat) /\ Len(u) = cut /\ \A i \in 1 .. cut : u[i] = b[i]
  BY <1>1, <1>3, Beginning
<1> HIDE DEF u
<1>5. /\ u \o t \in Seq(Nat) /\ Len(u \o t) = Len(u) + Len(t)
      /\ \A i \in 1 .. Len(u) : (u \o t)[i] = u[i]
      /\ \A i \in 1 .. Len(t) : (u \o t)[Len(u) + i] = t[i]
  BY <1>1, <1>4, Joined
<1> QED
  BY <1>2, <1>4, <1>5 DEF b, t

LEMMA ParsedIs ==
  ASSUME NEW Q \in Seq(Items)
  PROVE  Parsed(Q) = Outs(Q, Len(Q)) /\ \E S : Parsed(Q) \in Seq(S)
<1>1. DOMAIN Q = 1 .. Len(Q)
  BY SeqFacts
<1>2. \A i \in 1 .. Len(Q) :
        (IF Q[i].kind = "bulk" THEN Payload("multi", Q[i].args) ELSE Q[i]) = Outcome(Q[i])
  BY DEF Outcome
<1>3. Parsed(Q) = Outs(Q, Len(Q))
  BY <1>1, <1>2 DEF Parsed, Outs
<1>4. Len(Q) \in Nat
  BY SeqFacts
<1> QED
  BY <1>3, <1>4, OutsTyped

LEMMA ParsedBegins ==
  ASSUME NEW W \in Seq(Items), NEW Q \in Seq(Items), NEW j \in Nat, Len(W) <= j,
         \A i \in 1 .. Len(W) : Q[i] = W[i]
  PROVE  IsPrefix(Parsed(W), Outs(Q, j))
<1> DEFINE s == Outs(Q, j)
           t == Outs(W, Len(W))
           n == Len(W)
<1>1. n \in Nat /\ \A i \in 1 .. n : i \in 1 .. j
  BY SeqFacts
<1>2. PICK S : s \in Seq(S) /\ Len(s) = j /\ \A i \in 1 .. j : Outcome(Q[i]) \in S
  BY OutsTyped
<1>3. \A i \in 1 .. j : s[i] = Outcome(Q[i])
  BY DEF Outs
<1>4. \A i \in 1 .. n : Outcome(W[i]) = Outcome(Q[i]) /\ Outcome(W[i]) \in S
  BY <1>1, <1>2
<1>5. t \in [1 .. n -> S] /\ \A i \in 1 .. n : t[i] = Outcome(W[i])
  BY <1>4 DEF Outs
<1>6. t = Parsed(W)
  BY ParsedIs
<1> HIDE DEF s, t, n
<1>7. t \in Seq(S) /\ Len(t) = n
  BY <1>1, <1>5
<1>8. n <= j
  BY DEF n
<1>9. SubSeq(s, 1, Len(t)) = t
  <2>1. \A i \in 1 .. Len(t) : s[i] = t[i]
    BY <1>1, <1>3, <1>4, <1>5, <1>7
  <2> QED
    BY <1>2, <1>7, <1>8, <2>1, BeginsWith
<1>10. SubSeq(t, 1, Len(t)) = t
  BY <1>7, SubSeqFull
<1>11. IsPrefix(t, s)
  BY <1>2, <1>7, <1>8, <1>9, <1>10 DEF IsPrefix
<1> QED
  BY <1>6, <1>11 DEF s

(* What is to be read of Q is what the properties speak of. *)
Answers(Q, J) ==
  /\ NotTorn => Outs(Q, J) = Parsed(WholeBefore \o after)
  /\ IsPrefix(Parsed(WholeBefore), Outs(Q, J))
  /\ \E S : Parsed(WholeBefore) \in Seq(S)

(* The stream is the text of Q up to L; at the cut, or with what follows. *)
Placed(Q, T, e, L, J) == Setup(Q, T, e, L, J) /\ Answers(Q, J) /\ e[0] = 0

LEMMA CutShort ==
  ASSUME before \in Seq(Items), after \in Seq(Items), cut \in 0 .. Len(Written(before)),
         NotTorn => after = <<>>
  PROVE  \E T, e, L, J : Placed(before, T, e, L, J)
<1> DEFINE T == Written(before)
<1>1. /\ T \in Seq(Nat) /\ Stream \in Seq(Nat) /\ Len(Stream) = cut + Len(Written(after))
      /\ \A i \in 1 .. cut : Stream[i] = T[i]
  BY StreamIs, WrittenLaid
<1>2. PICK e : /\ Laid(Texts(before), T, e) /\ e[0] = 0 /\ e[Len(before)] = Len(T)
               /\ \A n \in 0 .. Len(before) : e[n] = Len(Written(SubSeq(before, 1, n)))
  BY WrittenLaid
<1>3. e \in [0 .. Len(before) -> Nat]
  BY <1>2, TextsTyped DEF Laid
<1>4. PICK n \in 0 .. Len(before) :
        /\ WholeBefore = SubSeq(before, 1, n) /\ e[n] = Len(Written(WholeBefore))
        /\ e[n] <= cut /\ (n < Len(before) => cut < e[n + 1])
  BY <1>2, <1>3, WholeIs
<1>5. cut \in Nat /\ cut <= Len(T) /\ Len(Written(after)) \in Nat /\ n \in Nat
  BY <1>1, SeqFacts, WrittenLaid
<1>6. cut <= Len(Stream)
  BY <1>1, <1>5
<1>7. NotTorn => cut = Len(Stream)
  <2> SUFFICES ASSUME NotTorn PROVE Len(Written(after)) = 0
    BY <1>1, <1>5
  <2>1. after = <<>> /\ after \in Seq(Items) /\ Len(after) = 0
    OBVIOUS
  <2>2. \E f : f[0] = 0 /\ f[Len(after)] = Len(Written(after))
    BY <2>1, WrittenLaid
  <2> QED
    BY <2>1, <2>2
<1>8. Setup(before, T, e, cut, n)
  BY <1>1, <1>2, <1>4, <1>5, <1>6, <1>7 DEF Setup
<1>9. Answers(before, n)
  <2> DEFINE W == WholeBefore
  <2>1. W \in Seq(Items) /\ Len(W) = n /\ \A i \in 1 .. n : W[i] = before[i]
    BY <1>4, Beginning
  <2>2. ASSUME NotTorn PROVE Outs(before, n) = Parsed(W \o after)
    <3>1. W \o after = W
      BY <2>1, <2>2, ConcatEmptySeq
    <3>2. Outs(W, Len(W)) = Outs(before, n)
      BY <2>1 DEF Outs
    <3> QED
      BY <2>1, <3>1, <3>2, ParsedIs
  <2>3. IsPrefix(Parsed(W), Outs(before, n))
    BY <1>5, <2>1, ParsedBegins
  <2>4. \E S : Parsed(W) \in Seq(S)
    BY <2>1, ParsedIs
  <2> QED
    BY <2>2, <2>3, <2>4 DEF Answers
<1> QED
  BY <1>2, <1>8, <1>9 DEF Placed

LEMMA CutBetween ==
  ASSUME before \in Seq(Items), after \in Seq(Items), cut \in 0 .. Len(Written(before)),
         Len(Written(WholeBefore)) = cut
  PROVE  \E T, e, L, J : Placed(WholeBefore \o after, T, e, L, J)
<1> DEFINE W == WholeBefore
           Q == W \o after
           m == Len(after)
           wa == Written(after)
           B == Texts(before)
           A == Texts(after)
<1>1. /\ Written(before) \in Seq(Nat) /\ wa \in Seq(Nat)
      /\ Stream \in Seq(Nat) /\ Len(Stream) = cut + Len(wa)
      /\ \A i \in 1 .. cut : Stream[i] = Written(before)[i]
      /\ \A i \in 1 .. Len(wa) : Stream[cut + i] = wa[i]
  BY StreamIs, WrittenLaid
<1>2. PICK e : /\ Laid(B, Written(before), e) /\ e[0] = 0
               /\ e[Len(before)] = Len(Written(before))
               /\ \A i \in 0 .. Len(before) : e[i] = Len(Written(SubSeq(before, 1, i)))
  BY WrittenLaid
<1>3. PICK g : Laid(A, wa, g) /\ g[0] = 0 /\ g[m] = Len(wa)
  BY WrittenLaid
<1>4. /\ B \in Seq(Seq(Nat)) /\ Len(B) = Len(before)
      /\ \A i \in 1 .. Len(before) : B[i] = ToBytes(before[i])
      /\ A \in Seq(Seq(Nat)) /\ Len(A) = m
      /\ \A i \in 1 .. m : A[i] = ToBytes(after[i])
  BY TextsTyped
<1>5. e \in [0 .. Len(before) -> Nat] /\ g \in [0 .. m -> Nat]
  BY <1>2, <1>3, <1>4 DEF Laid
<1>6. PICK n \in 0 .. Len(before) :
        /\ W = SubSeq(before, 1, n) /\ e[n] = Len(Written(W))
        /\ e[n] <= cut /\ (n < Len(before) => cut < e[n + 1])
  BY <1>2, <1>5, WholeIs
<1>7. W \in Seq(Items) /\ Len(W) = n /\ \A i \in 1 .. n : W[i] = before[i]
  BY <1>6, Beginning
<1>8. /\ e[n] = cut /\ cut \in Nat /\ n \in Nat /\ m \in Nat
      /\ Len(before) \in Nat /\ Len(wa) \in Nat
  BY <1>1, <1>6, <1>7, SeqFacts
<1> HIDE DEF W, m, wa, A, B
<1>9. /\ Q \in Seq(Items) /\ Len(Q) = n + m
      /\ \A i \in 1 .. n : Q[i] = before[i]
      /\ \A i \in 1 .. m : Q[n + i] = after[i]
  <2>1. /\ Q \in Seq(Items) /\ Len(Q) = Len(W) + m
        /\ \A i \in 1 .. Len(W) + m :
             Q[i] = IF i <= Len(W) THEN W[i] ELSE after[i - Len(W)]
    BY <1>7, ConcatProperties DEF m
  <2>2. ASSUME NEW i \in 1 .. n PROVE Q[i] = before[i]
    <3>1. i \in 1 .. Len(W) + m /\ i <= Len(W)
      BY <1>7, <1>8
    <3> QED
      BY <1>7, <2>1, <3>1
  <2>3. ASSUME NEW i \in 1 .. m PROVE Q[n + i] = after[i]
    <3>1. n + i \in 1 .. Len(W) + m /\ ~(n + i <= Len(W)) /\ (n + i) - Len(W) = i
      BY <1>7, <1>8
    <3>2. Q[n + i] = IF n + i <= Len(W) THEN W[n + i] ELSE after[(n + i) - Len(W)]
      BY <2>1, <3>1
    <3> HIDE DEF Q
    <3> QED
      BY <3>1, <3>2
  <2> QED
    BY <1>7, <2>1, <2>2, <2>3
<1> HIDE DEF Q
<1> DEFINE P == Texts(Q)
<1>10. /\ P \in Seq(Seq(Nat)) /\ Len(P) = n + m
       /\ \A i \in 1 .. n + m : P[i] = ToBytes(Q[i])
  BY <1>9, TextsTyped
<1>11. /\ \A i \in 1 .. n : P[i] = B[i]
       /\ \A i \in 1 .. m : P[n + i] = A[i]
  <2>1. \A i \in 1 .. n : i \in 1 .. n + m /\ i \in 1 .. Len(before)
    BY <1>8
  <2>2. \A i \in 1 .. m : n + i \in 1 .. n + m
    BY <1>8
  <2>3. ASSUME NEW i \in 1 .. m PROVE P[n + i] = A[i]
    <3>1. P[n + i] = ToBytes(Q[n + i]) /\ Q[n + i] = after[i] /\ A[i] = ToBytes(after[i])
      BY <1>4, <1>9, <1>10, <2>2
    <3> QED
      BY <3>1
  <2> QED
    BY <1>4, <1>9, <1>10, <2>1, <2>3
<1> HIDE DEF P
<1> DEFINE a == [i \in 0 .. m |-> cut + g[i]]
           f == [i \in 0 .. n + m |-> IF i <= n THEN e[i] ELSE cut + g[i - n]]
<1>12. Laid(A, Stream, a)
  <2>1. g[Len(A)] <= Len(wa)
    BY <1>3, <1>4, <1>8
  <2>2. Laid(A, Stream, [i \in 0 .. Len(A) |-> cut + g[i]])
    BY <1>1, <1>3, <1>4, <1>8, <2>1, LaidShift, ZenonT(60)
  <2> QED
    BY <1>4, <2>2
<1>13. /\ \A i \in 0 .. n : f[i] = e[i]
       /\ \A i \in 0 .. m : f[n + i] = a[i] /\ a[i] = cut + g[i]
  <2>1. \A i \in 0 .. n : i \in 0 .. n + m /\ i <= n
    BY <1>8
  <2>2. ASSUME NEW i \in 0 .. m PROVE f[n + i] = cut + g[i]
    <3>1. n + i \in 0 .. n + m /\ n + i - n = i
      BY <1>8
    <3>2. CASE i = 0
      <4>1. n + i = n /\ n \in 0 .. n /\ n <= n
        BY <1>8, <3>2
      <4>2. f[n + i] = e[n] /\ cut + g[i] = cut
        BY <1>3, <1>8, <2>1, <3>2, <4>1
      <4> QED
        BY <1>8, <4>2
    <3>3. CASE i # 0
      <4>1. ~(n + i <= n)
        BY <1>8, <3>3
      <4> QED
        BY <3>1, <4>1
    <3> QED
      BY <3>2, <3>3
  <2> QED
    BY <2>1, <2>2
<1>14. f \in [0 .. n + m -> Nat]
  <2> SUFFICES ASSUME NEW i \in 0 .. n + m
               PROVE  (IF i <= n THEN e[i] ELSE cut + g[i - n]) \in Nat
    OBVIOUS
  <2>1. CASE i <= n
    <3>1. i \in 0 .. Len(before)
      BY <1>8, <2>1
    <3> QED
      BY <1>5, <2>1, <3>1
  <2>2. CASE ~(i <= n)
    <3>1. i - n \in 0 .. m
      BY <1>8, <2>2
    <3>2. g[i - n] \in Nat
      BY <1>5, <3>1
    <3> QED
      BY <1>8, <2>2, <3>2
  <2> QED
    BY <2>1, <2>2
<1> HIDE DEF f, a
<1>15. ASSUME NEW i \in 1 .. n
       PROVE  /\ f[i] = f[i - 1] + Len(P[i])
              /\ \A x \in 1 .. Len(P[i]) : Stream[f[i - 1] + x] = P[i][x]
  <2>1. /\ i \in 1 .. Len(B) /\ i \in 0 .. n /\ i - 1 \in 0 .. n
        /\ i \in 0 .. Len(B) /\ n \in i .. Len(B) /\ i - 1 \in 0 .. Len(before)
        /\ i \in 0 .. Len(before)
    BY <1>4, <1>8
  <2>2. /\ e[i] = e[i - 1] + Len(B[i])
        /\ \A x \in 1 .. Len(B[i]) : Written(before)[e[i - 1] + x] = B[i][x]
    BY <1>2, <2>1 DEF Laid
  <2>3. e[i] <= e[n]
    BY <1>2, <1>4, <2>1, LaidGrows
  <2>4. e[i - 1] \in Nat /\ e[i] \in Nat /\ Len(B[i]) \in Nat
    <3>1. B[i] \in Seq(Nat)
      BY <1>4, <2>1, SeqFacts
    <3> QED
      BY <1>5, <2>1, <3>1, SeqFacts
  <2>5. P[i] = B[i] /\ f[i] = e[i] /\ f[i - 1] = e[i - 1]
    BY <1>11, <1>13, <2>1
  <2>6. ASSUME NEW x \in 1 .. Len(B[i]) PROVE Stream[e[i - 1] + x] = B[i][x]
    <3>1. e[i - 1] + x \in 1 .. cut
      BY <1>8, <2>2, <2>3, <2>4, SMTT(60)
    <3> QED
      BY <1>1, <2>2, <3>1
  <2> QED
    BY <2>2, <2>5, <2>6
<1>16. ASSUME NEW k \in 1 .. m
       PROVE  /\ f[n + k] = f[n + k - 1] + Len(P[n + k])
              /\ \A x \in 1 .. Len(P[n + k]) : Stream[f[n + k - 1] + x] = P[n + k][x]
  <2>1. k \in 0 .. m /\ k - 1 \in 0 .. m /\ n + k - 1 = n + (k - 1) /\ k \in 1 .. Len(A)
    BY <1>4, <1>8
  <2>2. /\ a[k] = a[k - 1] + Len(A[k])
        /\ \A x \in 1 .. Len(A[k]) : Stream[a[k - 1] + x] = A[k][x]
    BY <1>12, <2>1 DEF Laid
  <2>3. f[n + k] = a[k] /\ f[n + k - 1] = a[k - 1] /\ P[n + k] = A[k]
    BY <1>11, <1>13, <2>1
  <2> QED
    BY <2>2, <2>3
<1>17. Laid(P, Stream, f)
  <2> SUFFICES ASSUME NEW i \in 1 .. n + m
               PROVE  /\ f[i] = f[i - 1] + Len(P[i])
                      /\ \A x \in 1 .. Len(P[i]) : Stream[f[i - 1] + x] = P[i][x]
    BY <1>10, <1>14 DEF Laid
  <2>1. CASE i \in 1 .. n
    BY <1>15, <2>1
  <2>2. CASE i \notin 1 .. n
    <3>1. i - n \in 1 .. m /\ n + (i - n) = i
      BY <1>8, <2>2
    <3>2. PICK k \in 1 .. m : n + k = i
      BY <3>1
    <3> QED
      BY <1>16, <3>2
  <2> QED
    BY <2>1, <2>2
<1>18. f[n + m] = Len(Stream) /\ f[0] = 0
  <2>1. m \in 0 .. m /\ 0 \in 0 .. n
    BY <1>8
  <2>2. f[n + m] = cut + g[m] /\ f[0] = e[0]
    BY <1>13, <2>1
  <2> QED
    BY <1>1, <1>2, <1>3, <2>2
<1>19. Setup(Q, Stream, f, Len(Stream), n + m)
  <2>1. n + m \in 0 .. Len(Q) /\ ~(n + m < Len(Q)) /\ Len(Stream) \in Nat
    BY <1>1, <1>8, <1>9
  <2>2. /\ f[n + m] <= Len(Stream) /\ Len(Stream) <= f[Len(Q)]
        /\ Len(Stream) <= Len(Stream)
    BY <1>9, <1>18, <2>1
  <2> QED
    BY <1>1, <1>9, <1>17, <2>1, <2>2 DEF Setup, P
<1>20. Answers(Q, n + m)
  <2>1. Outs(Q, n + m) = Parsed(Q)
    BY <1>9, ParsedIs
  <2>2. IsPrefix(Parsed(W), Outs(Q, n + m))
    <3>1. \A i \in 1 .. Len(W) : Q[i] = W[i]
      BY <1>7, <1>9
    <3>2. n + m \in Nat /\ Len(W) <= n + m
      BY <1>7, <1>8
    <3> QED
      BY <1>7, <1>9, <3>1, <3>2, ParsedBegins
  <2>3. \E S : Parsed(W) \in Seq(S)
    BY <1>7, ParsedIs
  <2> QED
    BY <2>1, <2>2, <2>3 DEF Answers, W, Q
<1> QED
  BY <1>18, <1>19, <1>20 DEF Placed, Q, W

-----------------------------------------------------------------------------
(* The inductive invariant, and what follows from it.                      *)

Reading ==
  \E Q, T, e, L, J : Parsing(Q, T, e, L, J) /\ Answers(Q, J)

LEMMA ReadingInit ==
  ASSUME Readable, Init
  PROVE  Reading
<1>1. /\ before \in Seq(Items) /\ after \in Seq(Items)
      /\ cut \in 0 .. Len(Written(before))
  BY StreamTyped
<1>2. PICK Q, T, e, L, J : Placed(Q, T, e, L, J)
  <2>1. CASE NotTorn => after = <<>>
    BY <1>1, <2>1, CutShort
  <2>2. CASE ~(NotTorn => after = <<>>)
    <3>1. Len(Written(WholeBefore)) = cut
      BY <2>2 DEF NotTorn
    <3> QED
      BY <1>1, <3>1, CutBetween
  <2> QED
    BY <2>1, <2>2
<1>3. Setup(Q, T, e, L, J) /\ Answers(Q, J) /\ e[0] = 0
  BY <1>2 DEF Placed
<1>4. Stream \in Seq(Nat) /\ Len(Q) \in Nat /\ L \in Nat /\ J \in 0 .. Len(Q)
  BY <1>3, SeqFacts DEF Setup
<1>5. status = "run" /\ state = Fresh /\ input = Stream /\ out = <<>>
  BY DEF Init, Stream
<1>6. Outs(Q, 0) = <<>>
  <2>1. \E S : Outs(Q, 0) \in Seq(S) /\ Len(Outs(Q, 0)) = 0
    BY OutsTyped
  <2> QED
    BY <2>1, EmptySeq
<1>7. Stream = SubSeq(Stream, 0 + 1, Len(Stream))
  <2>1. SubSeq(Stream, 1, Len(Stream)) = Stream
    BY <1>4, SubSeqFull
  <2> QED
    BY <2>1
<1>8. 0 \in 0 .. J /\ 0 \in Nat /\ 0 <= L
  BY <1>4
<1>9. Synced(Q, T, e, L, J)
  BY <1>3, <1>5, <1>6, <1>7, <1>8 DEF Synced
<1> QED
  BY <1>3, <1>9 DEF Reading, Parsing

LEMMA ReadingNext ==
  ASSUME Reading, [Next]_vars
  PROVE  Reading'
<1>1. PICK Q, T, e, L, J : Parsing(Q, T, e, L, J) /\ Answers(Q, J)
  BY DEF Reading
<1>2. UNCHANGED stream
  BY StepEmits
<1>3. Answers(Q, J)'
  BY <1>1, <1>2 DEF Answers, NotTorn, WholeBefore, stream
<1>4. Parsing(Q, T, e, L, J)'
  BY <1>1, ParsingStep
<1> QED
  BY <1>3, <1>4 DEF Reading

LEMMA ReadingIsSafe == Reading => BinarySafe
<1> SUFFICES ASSUME Reading, NotTorn, status # "run"
             PROVE  Delivered = Parsed(WholeBefore \o after) /\ status = "closed"
  BY DEF BinarySafe
<1>1. PICK Q, T, e, L, J : Parsing(Q, T, e, L, J) /\ Answers(Q, J)
  BY DEF Reading
<1>2. Delivered = Outs(Q, J) /\ status = "closed"
  BY <1>1 DEF Parsing, Synced, ReadOut, Beyond
<1> QED
  BY <1>1, <1>2 DEF Answers

(* aof.go:34-66 and client.go:141-195: as long as no argument is empty or  *)
(* begins with '$', what was written is read back, however long the        *)
(* commands are and whatever their arguments hold, line ends included.     *)
THEOREM WholeCommandsRead == ASSUME Readable PROVE Spec => []ReadsBack
<1>1. Reading => ReadsBack
  BY ReadingIsSafe DEF BinarySafe, ReadsBack
<1> QED
  BY <1>1, ReadingInit, ReadingNext, PTL DEF Spec

(* Notebook.md:111: what it says of every argument is so of these: the     *)
(* parser does not stop in their middle either.                            *)
THEOREM ReadableIsSafe == ASSUME Readable PROVE Spec => []BinarySafe
BY ReadingIsSafe, ReadingInit, ReadingNext, PTL DEF Spec

(* aof.go:89-124: what comes before a command that was cut short is        *)
(* delivered, whatever follows the cut.                                    *)
THEOREM CutKeepsPrefix == ASSUME Readable PROVE Spec => []PrefixSurvives
<1>1. Reading => PrefixSurvives
  <2> SUFFICES ASSUME Reading, status # "run"
               PROVE  IsPrefix(Parsed(WholeBefore), Delivered)
    BY DEF PrefixSurvives
  <2>1. PICK Q, T, e, L, J : Parsing(Q, T, e, L, J) /\ Answers(Q, J)
    BY DEF Reading
  <2>2. IsPrefix(Parsed(WholeBefore), Outs(Q, J))
    BY <2>1 DEF Answers
  <2>3. CASE ReadOut(Q, J)
    BY <2>2, <2>3 DEF ReadOut
  <2>4. CASE Beyond(Q, J)
    <3>1. PICK S : Delivered \in Seq(S)
      BY <2>4 DEF Beyond
    <3>2. J \in Nat
      <4>1. Len(Q) \in Nat
        BY <2>1, SeqFacts DEF Parsing, Setup
      <4> QED
        BY <2>1, <4>1 DEF Parsing, Setup
    <3>3. PICK V : Outs(Q, J) \in Seq(V)
      BY <3>2, OutsTyped
    <3>4. \E R : Parsed(WholeBefore) \in Seq(R)
      BY <2>1 DEF Answers
    <3> QED
      BY <2>2, <2>4, <3>1, <3>3, <3>4, PrefixOfPrefix DEF Beyond
  <2> QED
    BY <2>1, <2>3, <2>4 DEF Parsing, Synced
<1> QED
  BY <1>1, ReadingInit, ReadingNext, PTL DEF Spec
=============================================================================
