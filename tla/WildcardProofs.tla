--------------------------- MODULE WildcardProofs ---------------------------
(***************************************************************************)
(* A compiled pattern matches the keys that its tokens mean: what every    *)
(* item stands for, how far CompilePattern is in the text of the tokens,   *)
(* and what every entry of IsMatch's table says.                           *)
(***************************************************************************)
EXTENDS Wildcard, SequenceTheorems, Induction

Bytes    == 0 .. 255
TokenSet == [src : Seq(Nat), many : BOOLEAN, bytes : SUBSET Nat]

LEMMA TokenIn ==
  ASSUME NEW x \in Seq(Nat), NEW m \in BOOLEAN, NEW B \in SUBSET Nat
  PROVE  Token(x, m, B) \in TokenSet
BY DEF Token, TokenSet

LEMMA ToSetIs ==
  ASSUME NEW T, NEW s \in Seq(T)
  PROVE  ToSet(s) = {s[i] : i \in 1 .. Len(s)} /\ ToSet(s) \subseteq T
<1>1. DOMAIN s = 1 .. Len(s) /\ \A i \in 1 .. Len(s) : s[i] \in T
  BY LenProperties, ElementOfSeq
<1> QED
  BY <1>1 DEF ToSet

LEMMA TokenTyped ==
  ASSUME NEW t, IsToken(t)
  PROVE  t \in TokenSet
<1>1. t.src \in Seq(Nat) /\ ToSet(t.src) \subseteq Nat
  BY ToSetIs DEF IsToken
<1>2. ASSUME NEW x, NEW m \in BOOLEAN, NEW B \in SUBSET Nat, t = Token(x, m, B)
      PROVE  t \in TokenSet
  <2>1. t.src = x
    BY <1>2 DEF Token
  <2> QED
    BY <1>1, <1>2, <2>1, TokenIn
<1>3. 0 .. 255 \subseteq Nat
  OBVIOUS
<1>4. CASE t = AnyBytes \/ t = AnyByte
  BY <1>2, <1>3, <1>4, ZenonT(60) DEF AnyBytes, AnyByte
<1>5. ASSUME NEW r \in ToSet(t.src), t = Escaped(r) \/ t = Plain(r) PROVE t \in TokenSet
  <2>1. {r} \in SUBSET Nat
    BY <1>1
  <2> QED
    BY <1>2, <1>5, <2>1 DEF Escaped, Plain
<1>6. ASSUME NEW a \in ToSet(t.src), NEW b \in ToSet(t.src), t = From(a, b) PROVE t \in TokenSet
  <2>1. a .. b \in SUBSET Nat
    BY <1>1
  <2> QED
    BY <1>2, <1>6, <2>1 DEF From
<1>7. ASSUME NEW n \in {2, 3}, NEW s, s = SubSeq(t.src, n, Len(t.src) - 1),
             t = OneOf(s) \/ t = NoneOf(s)
      PROVE  t \in TokenSet
  <2>1. s \in Seq(Nat)
    BY <1>1, <1>7, SMTT(60)
  <2>2. ToSet(s) \in SUBSET Nat /\ (0 .. 255) \ ToSet(s) \in SUBSET Nat
    BY <1>3, <2>1, ToSetIs
  <2> QED
    BY <1>2, <1>7, <2>2, ZenonT(60) DEF OneOf, NoneOf
<1> QED
  BY <1>4, <1>5, <1>6, <1>7 DEF IsToken, Letters

-----------------------------------------------------------------------------
(* The text of a pattern.                                                  *)
LEMMA EndingsDef ==
  ASSUME NEW p \in Seq(TokenSet)
  PROVE  /\ \A n \in 0 .. Len(p) : Endings(p)[n] \in Seq(Nat)
         /\ Endings(p)[0] = <<>>
         /\ \A n \in 1 .. Len(p) : Endings(p)[n] = p[Len(p) - n + 1].src \o Endings(p)[n - 1]
<1> DEFINE N == Len(p)
           D == Seq(Nat)
           s == [x \in (1 .. N) \X D |-> p[N - x[1] + 1].src \o x[2]]
           E(f) == f = [n \in 0 .. N |-> IF n = 0 THEN <<>> ELSE p[N - n + 1].src \o f[n - 1]]
<1>1. N \in Nat /\ \A n \in 1 .. N : p[N - n + 1].src \in Seq(Nat)
  <2>1. N \in Nat
    OBVIOUS
  <2>2. ASSUME NEW n \in 1 .. N PROVE p[N - n + 1].src \in Seq(Nat)
    <3>1. N - n + 1 \in 1 .. N
      BY <2>1
    <3>2. p[N - n + 1] \in TokenSet
      BY <3>1, ElementOfSeq
    <3> QED
      BY <3>2 DEF TokenSet
  <2> QED
    BY <2>1, <2>2
<1>2. s \in [(1 .. N) \X D -> D] /\ <<>> \in D
  BY <1>1
<1>3. \A n \in 1 .. N : \A v \in D : s[<<n, v>>] = p[N - n + 1].src \o v
  OBVIOUS
<1>4. Endings(p) = CHOOSE f : E(f)
  BY DEF Endings
<1> HIDE DEF s, N, D
<1>5. PICK g : Unfolded(g, D, <<>>, N, s)
  BY <1>1, <1>2, Unfolding
<1>6. E(g)
  <2>1. \A n \in 0 .. N : g[n] = IF n = 0 THEN <<>> ELSE p[N - n + 1].src \o g[n - 1]
    <3>1. ASSUME NEW n \in 0 .. N, n # 0 PROVE g[n] = p[N - n + 1].src \o g[n - 1]
      <4>1. n \in 1 .. N /\ n - 1 \in 0 .. N
        BY <1>1, <3>1
      <4>2. g[n] = s[<<n, g[n - 1]>>] /\ g[n - 1] \in D
        BY <1>5, <3>1, <4>1 DEF Unfolded
      <4> QED
        BY <1>3, <4>1, <4>2
    <3>2. g[0] = <<>>
      BY <1>1, <1>5 DEF Unfolded
    <3> QED
      BY <3>1, <3>2
  <2>2. DOMAIN g = 0 .. N /\ g = [n \in 0 .. N |-> g[n]]
    BY <1>5 DEF Unfolded
  <2> QED
    BY <2>1, <2>2
<1>7. E(Endings(p))
  <2>1. \E f : E(f)
    BY <1>6
  <2> HIDE DEF E
  <2> QED
    BY <1>4, <2>1
<1> DEFINE e == Endings(p)
<1>8. DOMAIN e = 0 .. N /\ e[0] = <<>> /\ \A n \in 1 .. N : e[n] = p[N - n + 1].src \o e[n - 1]
  <2> HIDE DEF e
  <2>1. e = [n \in 0 .. N |-> IF n = 0 THEN <<>> ELSE p[N - n + 1].src \o e[n - 1]]
    BY <1>7 DEF e
  <2>2. DOMAIN e = 0 .. N /\ \A n \in 0 .. N : e[n] = IF n = 0 THEN <<>> ELSE p[N - n + 1].src \o e[n - 1]
    BY <2>1
  <2> QED
    BY <1>1, <2>2
<1> HIDE DEF e
<1>9. Unfolds(e, D, <<>>, N, s)
  <2>1. \A n \in 1 .. N : e[n - 1] \in D => e[n] = s[<<n, e[n - 1]>>]
    BY <1>3, <1>8
  <2> QED
    BY <1>8, <2>1 DEF Unfolds
<1>10. \A n \in 0 .. N : e[n] \in D
  BY <1>1, <1>2, <1>9, UnfoldsInto
<1> QED
  BY <1>8, <1>10 DEF e, N, D

(* What is left of the text after n tokens. *)
Rest(p, n) == Endings(p)[Len(p) - n]

LEMMA RestDef ==
  ASSUME NEW p \in Seq(TokenSet)
  PROVE  /\ \A n \in 0 .. Len(p) : Rest(p, n) \in Seq(Nat)
         /\ Rest(p, 0) = Text(p) /\ Rest(p, Len(p)) = <<>>
         /\ \A n \in 0 .. Len(p) - 1 : Rest(p, n) = p[n + 1].src \o Rest(p, n + 1)
<1>1. Len(p) \in Nat
  OBVIOUS
<1>2. ASSUME NEW n \in 0 .. Len(p) PROVE Rest(p, n) \in Seq(Nat)
  <2>1. Len(p) - n \in 0 .. Len(p)
    BY <1>1
  <2> QED
    BY <2>1, EndingsDef DEF Rest
<1>3. Rest(p, 0) = Text(p) /\ Rest(p, Len(p)) = <<>>
  <2>1. Len(p) - 0 = Len(p) /\ Len(p) - Len(p) = 0
    BY <1>1
  <2> QED
    BY <2>1, EndingsDef DEF Rest, Text
<1>4. ASSUME NEW n \in 0 .. Len(p) - 1 PROVE Rest(p, n) = p[n + 1].src \o Rest(p, n + 1)
  <2>1. /\ Len(p) - n \in 1 .. Len(p) /\ Len(p) - (Len(p) - n) + 1 = n + 1
        /\ (Len(p) - n) - 1 = Len(p) - (n + 1)
    BY <1>1
  <2> QED
    BY <2>1, EndingsDef DEF Rest
<1> QED
  BY <1>2, <1>3, <1>4

-----------------------------------------------------------------------------
(* What an item stands for.                                                *)
LEMMA FitsTable ==
  ASSUME NEW S, NEW b
  PROVE  /\ Fits(Item("any", 0, {}), b)
         /\ \A r : Fits(Item("normal", r, {}), b) <=> b = r
         /\ Fits(Item("set", 0, S), b) <=> b \in S
         /\ Fits(Item("range", 0, S), b) <=> \E lo, hi \in S : lo <= b /\ b <= hi
         /\ Fits(Item("neg", 0, S), b) <=> b \notin S
<1>1. Fits(Item("any", 0, {}), b)
  BY DEF Fits, Item
<1>2. ASSUME NEW r PROVE Fits(Item("normal", r, {}), b) <=> b = r
  BY DEF Fits, Item
<1>3. Fits(Item("set", 0, S), b) <=> b \in S
  BY DEF Fits, Item, ItemContains
<1>4. Fits(Item("range", 0, S), b) <=> \E lo, hi \in S : lo <= b /\ b <= hi
  <2>1. Fits(Item("range", 0, S), b) = ItemContains(Item("range", 0, S), b)
    BY DEF Fits, Item
  <2> QED
    BY <2>1 DEF Item, ItemContains
<1>5. Fits(Item("neg", 0, S), b) <=> b \notin S
  BY DEF Fits, Item, ItemContains
<1> QED
  BY <1>1, <1>2, <1>3, <1>4, <1>5

Stands(item, t) ==
  IF t.many THEN item.typeCode = "all"
  ELSE item.typeCode # "all" /\ \A b \in Bytes : Fits(item, b) <=> b \in t.bytes

(* The item that is emitted for the set S between brackets. *)
ItemOf(S) ==
  Item(IF Caret \in S THEN "neg" ELSE IF Dash \in S THEN "range" ELSE "set",
       0, S \ {Dash, Caret})

(* A token with brackets, and what is between them.                        *)
Bracketed(t, s) ==
  /\ s \in Seq(Nat) /\ (\A i \in 1 .. Len(s) : s[i] \notin Special)
  /\ t.src = Brackets(s) /\ Stands(ItemOf(ToSet(s)), t)

(* Each token is one of these, and the item it should be compiled to.      *)
Shape(t) ==
  \/ t.src = <<Star>> /\ Stands(Item("all", 0, {}), t)
  \/ t.src = <<Query>> /\ Stands(Item("any", 0, {}), t)
  \/ \E r \in Nat \ Special : t.src = <<r>> /\ Stands(Item("normal", r, {}), t)
  \/ \E r \in Nat : t.src = <<Backslash, r>> /\ Stands(Item("normal", r, {}), t)
  \/ \E s : Bracketed(t, s)

LEMMA RangeStands ==
  ASSUME NEW a \in Nat, NEW b \in Nat, a <= b,
         a \notin Special \union {Dash, Caret}, b \notin Special \union {Dash, Caret}
  PROVE  Bracketed(From(a, b), <<a, Dash, b>>)
<1> DEFINE s == <<a, Dash, b>>
<1>1. s \in Seq(Nat) /\ Len(s) = 3 /\ \A i \in 1 .. 3 : s[i] \notin Special
  BY DEF Dash, Special, Star, Query, Backslash, Open, Close
<1>2. From(a, b).src = Brackets(s)
  BY DEF From, Token
<1>3. ToSet(s) = {a, Dash, b}
  <2>1. s[1] = a /\ s[2] = Dash /\ s[3] = b /\ 1 .. 3 = {1, 2, 3}
    OBVIOUS
  <2> HIDE DEF s
  <2>2. ToSet(s) = {s[i] : i \in 1 .. 3}
    BY <1>1, ToSetIs
  <2> QED
    BY <2>1, <2>2
<1>4. ItemOf(ToSet(s)) = Item("range", 0, {a, b})
  BY <1>3 DEF ItemOf, Dash, Caret
<1>5. ASSUME NEW x \in Bytes
      PROVE  (\E lo, hi \in {a, b} : lo <= x /\ x <= hi) <=> x \in a .. b
  BY DEF Bytes
<1>6. Stands(ItemOf(ToSet(s)), From(a, b))
  <2>1. ~From(a, b).many /\ From(a, b).bytes = a .. b
    BY DEF From, Token
  <2>2. Item("range", 0, {a, b}).typeCode # "all"
    BY DEF Item
  <2>3. \A x \in Bytes : Fits(Item("range", 0, {a, b}), x) <=> x \in a .. b
    BY <1>5, FitsTable
  <2> QED
    BY <1>4, <2>1, <2>2, <2>3 DEF Stands
<1> QED
  BY <1>1, <1>2, <1>6 DEF Bracketed

LEMMA SetStands ==
  ASSUME NEW s \in Seq(Nat), \A i \in 1 .. Len(s) : s[i] \notin Special \union {Dash, Caret}
  PROVE  /\ Bracketed(OneOf(s), s)
         /\ Bracketed(NoneOf(s), <<Caret>> \o s)
<1> DEFINE t == <<Caret>> \o s
<1>1. Dash \notin ToSet(s) /\ Caret \notin ToSet(s)
  BY ToSetIs
<1>2. Bracketed(OneOf(s), s)
  <2>1. ItemOf(ToSet(s)) = Item("set", 0, ToSet(s))
    BY <1>1 DEF ItemOf
  <2>2. OneOf(s).src = Brackets(s) /\ ~OneOf(s).many /\ OneOf(s).bytes = ToSet(s)
    BY DEF OneOf, Token
  <2>3. Stands(Item("set", 0, ToSet(s)), OneOf(s))
    <3>1. Item("set", 0, ToSet(s)).typeCode # "all"
      BY DEF Item
    <3> QED
      BY <2>2, <3>1, FitsTable DEF Stands
  <2> QED
    BY <2>1, <2>2, <2>3 DEF Bracketed
<1>3. Bracketed(NoneOf(s), t)
  <2>1. t \in Seq(Nat) /\ Len(t) = Len(s) + 1 /\ t[1] = Caret /\ \A i \in 1 .. Len(s) : t[i + 1] = s[i]
    BY DEF Caret
  <2>2. \A i \in 1 .. Len(t) : t[i] \notin Special
    <3>1. Caret \notin Special
      BY DEF Caret, Special, Star, Query, Backslash, Open, Close
    <3>2. ASSUME NEW i \in 1 .. Len(t), i # 1 PROVE t[i] \notin Special
      <4>1. i - 1 \in 1 .. Len(s) /\ (i - 1) + 1 = i
        BY <2>1, <3>2
      <4> QED
        BY <2>1, <4>1
    <3> QED
      BY <2>1, <3>1, <3>2
  <2>3. ToSet(t) = {Caret} \union ToSet(s)
    <3> HIDE DEF t
    <3>1. ToSet(t) = {t[i] : i \in 1 .. Len(t)} /\ ToSet(s) = {s[i] : i \in 1 .. Len(s)}
      BY <2>1, ToSetIs
    <3>2. ASSUME NEW i \in 1 .. Len(t) PROVE t[i] \in {Caret} \union ToSet(s)
      <4>1. CASE i = 1
        BY <2>1, <4>1
      <4>2. CASE i # 1
        <5>1. i - 1 \in 1 .. Len(s) /\ (i - 1) + 1 = i
          BY <2>1, <4>2
        <5>2. t[i] = s[i - 1]
          BY <2>1, <5>1
        <5> QED
          BY <3>1, <5>1, <5>2
      <4> QED
        BY <4>1, <4>2
    <3>3. ASSUME NEW i \in 1 .. Len(s) PROVE s[i] \in ToSet(t)
      <4>1. i + 1 \in 1 .. Len(t) /\ t[i + 1] = s[i]
        BY <2>1
      <4> QED
        BY <3>1, <4>1
    <3>4. 1 \in 1 .. Len(t) /\ t[1] = Caret
      BY <2>1
    <3>5. Caret \in ToSet(t)
      BY <3>1, <3>4
    <3> QED
      BY <3>1, <3>2, <3>3, <3>5
  <2>4. ItemOf(ToSet(t)) = Item("neg", 0, ToSet(s))
    <3>1. ({Caret} \union ToSet(s)) \ {Dash, Caret} = ToSet(s)
      BY <1>1
    <3> QED
      BY <2>3, <3>1 DEF ItemOf
  <2>5. NoneOf(s).src = Brackets(t) /\ ~NoneOf(s).many
        /\ NoneOf(s).bytes = Bytes \ ToSet(s)
    BY DEF NoneOf, Token, Bytes
  <2>7. Stands(Item("neg", 0, ToSet(s)), NoneOf(s))
    <3>1. Item("neg", 0, ToSet(s)).typeCode # "all"
      BY DEF Item
    <3> QED
      BY <2>5, <3>1, FitsTable DEF Stands
  <2> QED
    BY <2>1, <2>2, <2>4, <2>5, <2>7 DEF Bracketed
<1> QED
  BY <1>2, <1>3

LEMMA TokenShape ==
  ASSUME NEW t, IsToken(t)
  PROVE  Shape(t)
<1>1. CASE t = AnyBytes
  <2>1. Stands(Item("all", 0, {}), t)
    BY <1>1 DEF AnyBytes, Token, Stands, Item
  <2> QED
    BY <1>1, <2>1 DEF Shape, AnyBytes, Token
<1>2. CASE t = AnyByte
  <2>1. ~t.many /\ t.bytes = Bytes /\ t.src = <<Query>> /\ Item("any", 0, {}).typeCode # "all"
    BY <1>2 DEF AnyByte, Token, Item, Bytes
  <2> QED
    BY <2>1, FitsTable DEF Shape, Stands
<1>3. ASSUME NEW r \in ToSet(t.src), t = Escaped(r) \/ (t = Plain(r) /\ r \notin Special)
      PROVE  Shape(t)
  <2>1. r \in Nat
    BY DEF IsToken, ToSet
  <2>2. ~t.many /\ t.bytes = {r} /\ Item("normal", r, {}).typeCode # "all"
    BY <1>3 DEF Escaped, Plain, Token, Item
  <2>3. Stands(Item("normal", r, {}), t)
    BY <2>2, FitsTable DEF Stands
  <2> QED
    BY <1>3, <2>1, <2>3 DEF Shape, Escaped, Plain, Token
<1>4. ASSUME NEW a \in Letters(ToSet(t.src)), NEW b \in Letters(ToSet(t.src)), a <= b,
             t = From(a, b)
      PROVE  Shape(t)
  <2>1. /\ a \in Nat /\ a \notin Special \union {Dash, Caret}
        /\ b \in Nat /\ b \notin Special \union {Dash, Caret}
    BY DEF IsToken, ToSet, Letters
  <2> QED
    BY <1>4, <2>1, RangeStands DEF Shape
<1>5. ASSUME NEW n \in {2, 3}, NEW s, s = SubSeq(t.src, n, Len(t.src) - 1),
             Letters(ToSet(s)) = ToSet(s), t = OneOf(s) \/ t = NoneOf(s)
      PROVE  Shape(t)
  <2>1. s \in Seq(Nat)
    BY <1>5, SMTT(60) DEF IsToken
  <2>2. \A i \in 1 .. Len(s) : s[i] \notin Special \union {Dash, Caret}
    <3>1. \A x \in ToSet(s) : x \notin Special \union {Dash, Caret}
      BY <1>5 DEF Letters
    <3> QED
      <4>1. ToSet(s) = {s[i] : i \in 1 .. Len(s)}
        BY <2>1, ToSetIs
      <4> QED
        BY <3>1, <4>1
  <2>3. Bracketed(OneOf(s), s) /\ Bracketed(NoneOf(s), <<Caret>> \o s)
    BY <2>1, <2>2, SetStands
  <2> QED
    BY <1>5, <2>3 DEF Shape
<1> QED
  BY <1>1, <1>2, <1>3, <1>4, <1>5 DEF IsToken

-----------------------------------------------------------------------------
(* Sequences of runes.                                                     *)
LEMMA FirstOf ==
  ASSUME NEW r \in Nat, NEW u \in Seq(Nat)
  PROVE  <<r>> \o u \in Seq(Nat) /\ <<r>> \o u # <<>> /\ Head(<<r>> \o u) = r /\ Tail(<<r>> \o u) = u
<1> DEFINE f == <<r>>
           v == f \o u
<1>1. f \in Seq(Nat) /\ Len(f) = 1 /\ f[1] = r
  OBVIOUS
<1> HIDE DEF f
<1>2. v \in Seq(Nat) /\ Len(v) = 1 + Len(u) /\ Len(u) \in Nat
      /\ \A i \in 1 .. Len(f) + Len(u) : v[i] = IF i <= Len(f) THEN f[i] ELSE u[i - Len(f)]
  <2>1. v \in Seq(Nat) /\ Len(v) = Len(f) + Len(u)
    BY <1>1, ConcatProperties
  <2>2. \A i \in 1 .. Len(f) + Len(u) : v[i] = IF i <= Len(f) THEN f[i] ELSE u[i - Len(f)]
    BY <1>1, ConcatProperties, Zenon
  <2> QED
    BY <1>1, <2>1, <2>2
<1> HIDE DEF v
<1>3. v # <<>> /\ Head(v) = v[1] /\ v[1] = r
  <2>1. 1 \in 1 .. Len(f) + Len(u)
    BY <1>1, <1>2
  <2> QED
    BY <1>1, <1>2, <2>1
<1>4. Tail(v) = u
  <2>1. Tail(v) \in Seq(Nat) /\ Len(Tail(v)) = Len(u) /\ \A i \in 1 .. Len(u) : Tail(v)[i] = v[i + 1]
    BY <1>2, <1>3, HeadTailProperties
  <2>2. ASSUME NEW i \in 1 .. Len(u) PROVE v[i + 1] = u[i]
    <3>1. i + 1 \in 1 .. Len(f) + Len(u) /\ ~(i + 1 <= Len(f)) /\ (i + 1) - Len(f) = i
      BY <1>1, <1>2
    <3> QED
      BY <1>2, <3>1
  <2> QED
    BY <2>1, <2>2, SeqEqual
<1> QED
  BY <1>2, <1>3, <1>4 DEF v, f

LEMMA Beheaded ==
  ASSUME NEW s \in Seq(Nat), s # <<>>
  PROVE  Head(s) \in Nat /\ Tail(s) \in Seq(Nat) /\ s = <<Head(s)>> \o Tail(s)
         /\ ToSet(s) = {Head(s)} \union ToSet(Tail(s))
         /\ Len(s) \in Nat \ {0} /\ Head(s) = s[1]
         /\ Len(Tail(s)) = Len(s) - 1 /\ \A i \in 1 .. Len(s) - 1 : Tail(s)[i] = s[i + 1]
<1>1. Len(s) \in Nat \ {0} /\ Head(s) = s[1]
  BY EmptySeq
<1>2. /\ Head(s) \in Nat /\ Tail(s) \in Seq(Nat) /\ Len(Tail(s)) = Len(s) - 1
      /\ \A i \in 1 .. Len(s) - 1 : Tail(s)[i] = s[i + 1]
  BY HeadTailProperties
<1>3. s = <<Head(s)>> \o Tail(s)
  <2>1. 1 \in 1 .. Len(s) /\ Len(s) \in 1 .. Len(s) /\ SubSeq(s, 1, Len(s)) = s
    BY <1>1, SubSeqFull
  <2>2. SubSeq(s, 1, Len(s)) = <<s[1]>> \o SubSeq(s, 1 + 1, Len(s))
    BY <2>1, SubSeqRecursiveFirst
  <2>3. Tail(s) = SubSeq(s, 2, Len(s))
    BY TailIsSubSeq
  <2> QED
    BY <1>1, <2>1, <2>2, <2>3
<1>4. ToSet(s) = {Head(s)} \union ToSet(Tail(s))
  <2>1. ToSet(s) = {s[i] : i \in 1 .. Len(s)}
        /\ ToSet(Tail(s)) = {Tail(s)[i] : i \in 1 .. Len(s) - 1}
    BY <1>2, ToSetIs
  <2>2. ASSUME NEW i \in 1 .. Len(s) PROVE s[i] \in {Head(s)} \union ToSet(Tail(s))
    <3>1. CASE i = 1
      BY <1>1, <3>1
    <3>2. CASE i # 1
      <4>1. i - 1 \in 1 .. Len(s) - 1 /\ (i - 1) + 1 = i
        BY <1>1, <3>2
      <4>2. Tail(s)[i - 1] = s[i]
        BY <1>2, <4>1
      <4> QED
        BY <2>1, <4>1, <4>2
    <3> QED
      BY <3>1, <3>2
  <2>3. ASSUME NEW i \in 1 .. Len(s) - 1 PROVE Tail(s)[i] \in ToSet(s)
    <3>1. i + 1 \in 1 .. Len(s) /\ Tail(s)[i] = s[i + 1]
      BY <1>1, <1>2
    <3> QED
      BY <2>1, <3>1
  <2>4. Head(s) \in ToSet(s)
    <3>1. 1 \in 1 .. Len(s)
      BY <1>1
    <3> QED
      BY <1>1, <2>1, <3>1
  <2> QED
    BY <2>1, <2>2, <2>3, <2>4
<1> QED
  BY <1>1, <1>2, <1>3, <1>4

(* What is left between brackets and after them. *)
Inside(s, u) == (s \o <<Close>>) \o u

LEMMA InsideFacts ==
  ASSUME NEW s \in Seq(Nat), NEW u \in Seq(Nat)
  PROVE  /\ Inside(s, u) \in Seq(Nat)
         /\ s = <<>> => Inside(s, u) = <<Close>> \o u
         /\ s # <<>> => Inside(s, u) = <<Head(s)>> \o Inside(Tail(s), u)
         /\ Brackets(s) \o u = <<Open>> \o Inside(s, u)
<1>1. <<Close>> \in Seq(Nat) /\ <<Open>> \in Seq(Nat)
  BY DEF Close, Open
<1>2. Inside(s, u) \in Seq(Nat)
  BY <1>1, ConcatProperties DEF Inside
<1>3. ASSUME s = <<>> PROVE Inside(s, u) = <<Close>> \o u
  BY <1>1, <1>3, ConcatEmptySeq DEF Inside
<1>4. ASSUME s # <<>> PROVE Inside(s, u) = <<Head(s)>> \o Inside(Tail(s), u)
  <2> DEFINE h == <<Head(s)>>
             t == Tail(s)
  <2>1. h \in Seq(Nat) /\ t \in Seq(Nat) /\ s = h \o t
    BY <1>4, Beheaded
  <2> HIDE DEF h, t
  <2>2. t \o <<Close>> \in Seq(Nat)
    BY <1>1, <2>1, ConcatProperties
  <2>3. (h \o t) \o <<Close>> = h \o (t \o <<Close>>)
    BY <1>1, <2>1, ConcatAssociative, SMTT(60)
  <2>4. (h \o (t \o <<Close>>)) \o u = h \o ((t \o <<Close>>) \o u)
    BY <2>1, <2>2, ConcatAssociative, SMTT(60)
  <2> QED
    BY <2>1, <2>3, <2>4 DEF Inside, h, t
<1>5. Brackets(s) \o u = <<Open>> \o Inside(s, u)
  <2>1. s \o <<Close>> \in Seq(Nat)
    BY <1>1, ConcatProperties
  <2>2. (<<Open>> \o s) \o <<Close>> = <<Open>> \o (s \o <<Close>>)
    BY <1>1, ConcatAssociative
  <2>3. (<<Open>> \o (s \o <<Close>>)) \o u = <<Open>> \o ((s \o <<Close>>) \o u)
    BY <1>1, <2>1, ConcatAssociative, SMTT(60)
  <2> QED
    BY <2>2, <2>3 DEF Brackets, Inside
<1> QED
  BY <1>2, <1>3, <1>4, <1>5

-----------------------------------------------------------------------------
(* CompilePattern, rune by rune.  After n tokens it is between two, after  *)
(* a backslash, or between brackets, of which s is left.                   *)
Items == [typeCode : {"all", "any", "normal", "set", "range", "neg"},
          character : Nat, set : SUBSET Nat]

Compiled(xs, p, n) ==
  xs \in Seq(Items) /\ Len(xs) = n /\ \A j \in 1 .. n : Stands(xs[j], p[j])

PatternInv == pattern \in Seq(TokenSet) /\ \A j \in 1 .. Len(pattern) : Shape(pattern[j])

Between(n) == src = Rest(pattern, n) /\ ~escape /\ ~inSet

AfterBackslash(n) ==
  /\ n < Len(pattern) /\ escape /\ ~inSet
  /\ \E r \in Nat : /\ src = <<r>> \o Rest(pattern, n + 1)
                    /\ Stands(Item("normal", r, {}), pattern[n + 1])

InBrackets(n) ==
  /\ n < Len(pattern) /\ ~escape /\ inSet
  /\ \E s \in Seq(Nat) : /\ \A i \in 1 .. Len(s) : s[i] \notin Special
                         /\ src = Inside(s, Rest(pattern, n + 1))
                         /\ Stands(ItemOf(set \union ToSet(s)), pattern[n + 1])

Reading ==
  /\ src \in Seq(0 .. 127) /\ set \subseteq Nat
  /\ \E n \in 0 .. Len(pattern) :
       /\ Compiled(items, pattern, n)
       /\ Between(n) \/ AfterBackslash(n) \/ InBrackets(n)

LEMMA AppendCompiled ==
  ASSUME NEW p, NEW n \in Nat, NEW xs, Compiled(xs, p, n),
         NEW e \in Items, Stands(e, p[n + 1])
  PROVE  Compiled(Append(xs, e), p, n + 1)
<1>1. /\ Append(xs, e) \in Seq(Items) /\ Len(Append(xs, e)) = n + 1
      /\ Append(xs, e)[n + 1] = e /\ \A j \in 1 .. n : Append(xs, e)[j] = xs[j]
  BY DEF Compiled
<1>2. ASSUME NEW j \in 1 .. n + 1 PROVE Stands(Append(xs, e)[j], p[j])
  <2>1. CASE j = n + 1
    BY <1>1, <2>1
  <2>2. CASE j # n + 1
    <3>1. j \in 1 .. n
      BY <2>2
    <3> QED
      BY <1>1, <3>1 DEF Compiled
  <2> QED
    BY <2>1, <2>2
<1> QED
  BY <1>1, <1>2 DEF Compiled

(* What the next rune does. *)
LEMMA RuneEffects ==
  ASSUME Compile, src \in Seq(0 .. 127), NEW r \in Nat, NEW u \in Seq(Nat), src = <<r>> \o u
  PROVE  /\ r \in 0 .. 127 /\ src' = u /\ src' \in Seq(0 .. 127) /\ phase' = "compile"
         /\ UNCHANGED <<pattern, key, at, row>>
         /\ escape => /\ items' = Append(items, Item("normal", r, {})) /\ ~escape'
                      /\ UNCHANGED <<inSet, set>>
         /\ ~escape /\ r = Star => /\ items' = Append(items, Item("all", 0, {}))
                                   /\ UNCHANGED <<escape, inSet, set>>
         /\ ~escape /\ r = Query => /\ items' = Append(items, Item("any", 0, {}))
                                    /\ UNCHANGED <<escape, inSet, set>>
         /\ ~escape /\ r = Backslash => escape' /\ UNCHANGED <<inSet, set, items>>
         /\ ~escape /\ r = Open /\ ~inSet => inSet' /\ set' = {} /\ UNCHANGED <<escape, items>>
         /\ ~escape /\ r = Close /\ inSet => /\ ~inSet' /\ items' = Append(items, ItemOf(set))
                                             /\ UNCHANGED <<escape, set>>
         /\ ~escape /\ r \notin Special => \/ /\ inSet /\ set' = set \union {r}
                                              /\ UNCHANGED <<escape, inSet, items>>
                                           \/ /\ ~inSet
                                              /\ items' = Append(items, Item("normal", r, {}))
                                              /\ UNCHANGED <<escape, inSet, set>>
<1>1. src # <<>> /\ Head(src) = r /\ Tail(src) = u
  BY FirstOf
<1>2. r \in 0 .. 127 /\ Tail(src) \in Seq(0 .. 127)
  BY <1>1, HeadTailProperties
<1>3. Low = r
  <2>1. ASSUME NEW x \in 0 .. 127 PROVE x % 256 = x
    OBVIOUS
  <2> QED
    BY <1>1, <1>2, <2>1 DEF Low
<1>4. src' = u /\ phase' = "compile" /\ UNCHANGED <<pattern, key, at, row>>
  BY <1>1 DEF Compile, TakeEscaped, TakeWildcard, TakeBackslash, TakeOpen, TakeClose, TakePlain, Take
<1>5. ASSUME escape
      PROVE  items' = Append(items, Item("normal", r, {})) /\ ~escape' /\ UNCHANGED <<inSet, set>>
  BY <1>3, <1>5 DEF Compile, TakeEscaped, TakeWildcard, TakeBackslash, TakeOpen, TakeClose, TakePlain,
       Take, Emit
<1> USE DEF Star, Query, Backslash, Open, Close, Special
<1>6. ASSUME ~escape, r \in {Star, Query} PROVE TakeWildcard
  BY <1>3, <1>6 DEF Compile, TakeEscaped, TakeBackslash, TakeOpen, TakeClose, TakePlain, Take
<1>7. ASSUME ~escape, r = Backslash PROVE TakeBackslash
  BY <1>3, <1>7 DEF Compile, TakeEscaped, TakeWildcard, TakeOpen, TakeClose, TakePlain, Take
<1>8. ASSUME ~escape, r = Open PROVE TakeOpen
  BY <1>3, <1>8 DEF Compile, TakeEscaped, TakeWildcard, TakeBackslash, TakeClose, TakePlain, Take
<1>9. ASSUME ~escape, r = Close PROVE TakeClose
  BY <1>3, <1>9 DEF Compile, TakeEscaped, TakeWildcard, TakeBackslash, TakeOpen, TakePlain, Take
<1>10. ASSUME ~escape, r \notin Special PROVE TakePlain
  BY <1>3, <1>10 DEF Compile, TakeEscaped, TakeWildcard, TakeBackslash, TakeOpen, TakeClose, Take
<1>11. ~escape /\ r = Star => items' = Append(items, Item("all", 0, {})) /\ UNCHANGED <<escape, inSet, set>>
  BY <1>3, <1>6 DEF TakeWildcard, Emit
<1>12. ~escape /\ r = Query => items' = Append(items, Item("any", 0, {})) /\ UNCHANGED <<escape, inSet, set>>
  BY <1>3, <1>6 DEF TakeWildcard, Emit
<1>13. ~escape /\ r = Backslash => escape' /\ UNCHANGED <<inSet, set, items>>
  BY <1>7 DEF TakeBackslash
<1>14. ~escape /\ r = Open /\ ~inSet => inSet' /\ set' = {} /\ UNCHANGED <<escape, items>>
  BY <1>8 DEF TakeOpen
<1>15. ~escape /\ r = Close /\ inSet =>
          ~inSet' /\ items' = Append(items, ItemOf(set)) /\ UNCHANGED <<escape, set>>
  BY <1>9 DEF TakeClose, Emit, SetItem, ItemOf
<1>16. ~escape /\ r \notin Special =>
          \/ inSet /\ set' = set \union {r} /\ UNCHANGED <<escape, inSet, items>>
          \/ /\ ~inSet /\ items' = Append(items, Item("normal", r, {}))
             /\ UNCHANGED <<escape, inSet, set>>
  BY <1>3, <1>10 DEF TakePlain, Gather, Emit
<1> QED
  BY <1>1, <1>2, <1>4, <1>5, <1>11, <1>12, <1>13, <1>14, <1>15, <1>16

LEMMA Emits ==
  ASSUME PatternInv, NEW n \in 0 .. Len(pattern) - 1, Compiled(items, pattern, n),
         NEW e \in Items, Stands(e, pattern[n + 1]), items' = Append(items, e),
         UNCHANGED pattern, src' = Rest(pattern, n + 1), src' \in Seq(0 .. 127),
         ~escape', ~inSet', set' \subseteq Nat
  PROVE  Reading'
<1>1. Len(pattern) \in Nat /\ n + 1 \in 0 .. Len(pattern) /\ n \in Nat
  BY DEF PatternInv
<1>2. Compiled(items', pattern', n + 1)
  BY <1>1, AppendCompiled
<1>3. src' = Rest(pattern', n + 1)
  OBVIOUS
<1>4. Between(n + 1)'
  BY <1>3 DEF Between
<1> QED
  BY <1>1, <1>2, <1>4 DEF Reading

LEMMA PairIs ==
  ASSUME NEW a \in Nat, NEW b \in Nat
  PROVE  <<a, b>> = <<a>> \o <<b>>
<1> DEFINE f == <<a>>
           g == <<b>>
           h == <<a, b>>
           v == f \o g
<1>1. /\ f \in Seq(Nat) /\ Len(f) = 1 /\ f[1] = a
      /\ g \in Seq(Nat) /\ Len(g) = 1 /\ g[1] = b
      /\ h \in Seq(Nat) /\ Len(h) = 2 /\ h[1] = a /\ h[2] = b
  OBVIOUS
<1> HIDE DEF f, g, h
<1>2. v \in Seq(Nat) /\ Len(v) = Len(f) + Len(g)
  BY <1>1, ConcatProperties
<1>3. \A i \in 1 .. Len(f) + Len(g) : v[i] = IF i <= Len(f) THEN f[i] ELSE g[i - Len(f)]
  BY <1>1, ConcatProperties, Zenon
<1> HIDE DEF v
<1>4. \A i \in 1 .. Len(h) : h[i] = v[i]
  BY <1>1, <1>3
<1>5. h = v
  BY <1>1, <1>2, <1>4, SeqEqual
<1> QED
  BY <1>5 DEF f, g, h, v

LEMMA ItemTypes ==
  ASSUME NEW r \in Nat, NEW S \in SUBSET Nat
  PROVE  /\ Item("all", 0, {}) \in Items /\ Item("any", 0, {}) \in Items
         /\ Item("normal", r, {}) \in Items /\ ItemOf(S) \in Items
<1>1. S \ {Dash, Caret} \in SUBSET Nat
  OBVIOUS
<1> QED
  BY <1>1 DEF Items, Item, ItemOf

LEMMA CompileNext ==
  ASSUME PatternInv, Reading, Compile
  PROVE  Reading'
<1>1. PICK n \in 0 .. Len(pattern) :
        Compiled(items, pattern, n) /\ (Between(n) \/ AfterBackslash(n) \/ InBrackets(n))
  BY DEF Reading
<1>2. src \in Seq(0 .. 127) /\ set \subseteq Nat /\ pattern \in Seq(TokenSet) /\ Len(pattern) \in Nat
      /\ src # <<>>
  BY DEF Reading, PatternInv, Compile, TakeEscaped, TakeWildcard, TakeBackslash, TakeOpen,
         TakeClose, TakePlain, Take
<1>3. n < Len(pattern)
  <2>1. CASE Between(n)
    <3>1. n # Len(pattern)
      BY <1>2, <2>1, RestDef DEF Between
    <3> QED
      BY <1>2, <3>1
  <2> QED
    BY <1>1, <2>1 DEF AfterBackslash, InBrackets
<1> DEFINE t == pattern[n + 1]
           u == Rest(pattern, n + 1)
<1>4. /\ n \in 0 .. Len(pattern) - 1 /\ n + 1 \in 1 .. Len(pattern) /\ n + 1 \in 0 .. Len(pattern)
      /\ Shape(t) /\ t.src \in Seq(Nat) /\ u \in Seq(Nat) /\ Rest(pattern, n) = t.src \o u
  <2>1. n \in 0 .. Len(pattern) - 1 /\ n + 1 \in 1 .. Len(pattern) /\ n + 1 \in 0 .. Len(pattern)
    BY <1>2, <1>3
  <2>2. t \in TokenSet
    BY <1>2, <2>1, ElementOfSeq
  <2> QED
    BY <1>2, <2>1, <2>2, RestDef DEF PatternInv, TokenSet
<1> HIDE DEF t, u
<1>5. ASSUME NEW e \in Items, Stands(e, t), items' = Append(items, e), UNCHANGED pattern,
             src' = u, src' \in Seq(0 .. 127), ~escape', ~inSet', set' \subseteq Nat
      PROVE  Reading'
  BY <1>1, <1>4, <1>5, Emits DEF t, u
<1>6. ASSUME NEW s \in Seq(Nat), \A i \in 1 .. Len(s) : s[i] \notin Special,
             Stands(ItemOf(set' \union ToSet(s)), t), set' \subseteq Nat, ~escape', inSet',
             src' = Inside(s, u), src' \in Seq(0 .. 127), UNCHANGED <<pattern, items>>
      PROVE  Reading'
  <2>1. InBrackets(n)'
    BY <1>3, <1>6 DEF InBrackets, t, u
  <2>2. Compiled(items', pattern', n) /\ n \in 0 .. Len(pattern')
    BY <1>1, <1>6
  <2> QED
    BY <1>6, <2>1, <2>2 DEF Reading
<1>7. ASSUME Between(n) PROVE Reading'
  <2>1. src = t.src \o u /\ ~escape /\ ~inSet
    BY <1>4, <1>7 DEF Between
  <2>2. CASE t.src = <<Star>> /\ Stands(Item("all", 0, {}), t)
    <3>1. Star \in Nat /\ src = <<Star>> \o u
      BY <2>1, <2>2 DEF Star
    <3>2. /\ src' = u /\ src' \in Seq(0 .. 127) /\ items' = Append(items, Item("all", 0, {}))
          /\ ~escape' /\ ~inSet' /\ set' = set /\ UNCHANGED pattern
      BY <1>2, <1>4, <2>1, <3>1, RuneEffects
    <3>3. Item("all", 0, {}) \in Items
      BY ItemTypes
    <3> QED
      BY <1>2, <1>5, <2>2, <3>2, <3>3
  <2>3. CASE t.src = <<Query>> /\ Stands(Item("any", 0, {}), t)
    <3>1. Query \in Nat /\ src = <<Query>> \o u
      BY <2>1, <2>3 DEF Query
    <3>2. /\ src' = u /\ src' \in Seq(0 .. 127) /\ items' = Append(items, Item("any", 0, {}))
          /\ ~escape' /\ ~inSet' /\ set' = set /\ UNCHANGED pattern
      BY <1>2, <1>4, <2>1, <3>1, RuneEffects
    <3>3. Item("any", 0, {}) \in Items
      BY ItemTypes
    <3> QED
      BY <1>2, <1>5, <2>3, <3>2, <3>3
  <2>4. ASSUME NEW r \in Nat \ Special, t.src = <<r>>, Stands(Item("normal", r, {}), t)
        PROVE  Reading'
    <3>1. r \in Nat /\ r \notin Special /\ src = <<r>> \o u
      BY <2>1, <2>4
    <3>2. /\ src' = u /\ src' \in Seq(0 .. 127) /\ items' = Append(items, Item("normal", r, {}))
          /\ ~escape' /\ ~inSet' /\ set' = set /\ UNCHANGED pattern
      BY <1>2, <1>4, <2>1, <3>1, RuneEffects
    <3>3. Item("normal", r, {}) \in Items
      BY <3>1, ItemTypes
    <3> QED
      BY <1>2, <1>5, <2>4, <3>2, <3>3
  <2>5. ASSUME NEW r \in Nat, t.src = <<Backslash, r>>, Stands(Item("normal", r, {}), t)
        PROVE  Reading'
    <3> DEFINE v == <<r>> \o u
    <3>1. Backslash \in Nat /\ v \in Seq(Nat) /\ <<Backslash>> \in Seq(Nat) /\ <<r>> \in Seq(Nat)
      BY <1>4, FirstOf DEF Backslash
    <3>2. src = <<Backslash>> \o v
      <4>1. (<<Backslash>> \o <<r>>) \o u = <<Backslash>> \o (<<r>> \o u)
        BY <1>4, <3>1, ConcatAssociative
      <4> QED
        BY <2>1, <2>5, <3>1, <4>1, PairIs
    <3> HIDE DEF v
    <3>3. /\ src' = v /\ src' \in Seq(0 .. 127) /\ UNCHANGED <<pattern, items, inSet, set>>
          /\ escape'
      BY <1>2, <2>1, <3>1, <3>2, RuneEffects
    <3>4. AfterBackslash(n)'
      BY <1>3, <2>1, <2>5, <3>3 DEF AfterBackslash, t, u, v
    <3>5. Compiled(items', pattern', n) /\ n \in 0 .. Len(pattern')
      BY <1>1, <3>3
    <3> QED
      BY <1>2, <3>3, <3>4, <3>5 DEF Reading
  <2>6. ASSUME NEW s, Bracketed(t, s) PROVE Reading'
    <3>1. /\ s \in Seq(Nat) /\ (\A i \in 1 .. Len(s) : s[i] \notin Special)
          /\ t.src = Brackets(s) /\ Stands(ItemOf(ToSet(s)), t)
      BY <2>6 DEF Bracketed
    <3>2. src = <<Open>> \o Inside(s, u) /\ Inside(s, u) \in Seq(Nat) /\ Open \in Nat
      <4>1. Brackets(s) \o u = <<Open>> \o Inside(s, u) /\ Inside(s, u) \in Seq(Nat)
        BY <1>4, <3>1, InsideFacts
      <4> QED
        BY <2>1, <3>1, <4>1 DEF Open
    <3>3. /\ src' = Inside(s, u) /\ src' \in Seq(0 .. 127) /\ inSet' /\ set' = {}
          /\ UNCHANGED <<pattern, escape, items>>
      BY <1>2, <2>1, <3>2, RuneEffects
    <3>4. set' \union ToSet(s) = ToSet(s)
      BY <3>3
    <3> QED
      BY <1>6, <2>1, <3>1, <3>3, <3>4
  <2> QED
    BY <1>4, <2>2, <2>3, <2>4, <2>5, <2>6 DEF Shape
<1>8. ASSUME AfterBackslash(n) PROVE Reading'
  <2>1. PICK r \in Nat : src = <<r>> \o u /\ Stands(Item("normal", r, {}), t)
    BY <1>8 DEF AfterBackslash, t, u
  <2>2. escape /\ ~inSet
    BY <1>8 DEF AfterBackslash
  <2>3. /\ src' = u /\ src' \in Seq(0 .. 127) /\ items' = Append(items, Item("normal", r, {}))
        /\ ~escape' /\ ~inSet' /\ set' = set /\ UNCHANGED pattern
    BY <1>2, <1>4, <2>1, <2>2, RuneEffects
  <2>4. Item("normal", r, {}) \in Items
    BY ItemTypes
  <2> QED
    BY <1>2, <1>5, <2>1, <2>3, <2>4
<1>9. ASSUME InBrackets(n) PROVE Reading'
  <2>1. PICK s \in Seq(Nat) : /\ \A i \in 1 .. Len(s) : s[i] \notin Special
                              /\ src = Inside(s, u) /\ Stands(ItemOf(set \union ToSet(s)), t)
    BY <1>9 DEF InBrackets, t, u
  <2>2. ~escape /\ inSet
    BY <1>9 DEF InBrackets
  <2>3. CASE s = <<>>
    <3>1. src = <<Close>> \o u /\ Close \in Nat
      BY <1>4, <2>1, <2>3, InsideFacts DEF Close
    <3>2. set \union ToSet(s) = set
      BY <2>3 DEF ToSet
    <3>3. ItemOf(set) \in Items /\ Stands(ItemOf(set), t)
      BY <1>2, <2>1, <3>2, ItemTypes
    <3>4. /\ src' = u /\ src' \in Seq(0 .. 127) /\ items' = Append(items, ItemOf(set))
          /\ ~escape' /\ ~inSet' /\ set' = set /\ UNCHANGED pattern
      BY <1>2, <1>4, <2>2, <3>1, RuneEffects
    <3> QED
      BY <1>2, <1>5, <3>3, <3>4
  <2>4. CASE s # <<>>
    <3> DEFINE r == Head(s)
               v == Tail(s)
    <3>1. /\ r \in Nat /\ v \in Seq(Nat) /\ ToSet(s) = {r} \union ToSet(v)
          /\ Len(s) \in Nat \ {0} /\ r = s[1] /\ Len(v) = Len(s) - 1
          /\ \A i \in 1 .. Len(s) - 1 : v[i] = s[i + 1]
      BY <2>4, Beheaded
    <3>2. src = <<r>> \o Inside(v, u)
      BY <1>4, <2>1, <2>4, InsideFacts
    <3> HIDE DEF r, v
    <3>3. r \notin Special /\ \A i \in 1 .. Len(v) : v[i] \notin Special
      <4>1. 1 \in 1 .. Len(s) /\ Len(s) \in Nat
        BY <3>1
      <4>2. ASSUME NEW i \in 1 .. Len(v) PROVE v[i] \notin Special
        <5>1. i \in 1 .. Len(s) - 1 /\ i + 1 \in 1 .. Len(s)
          BY <3>1
        <5> QED
          BY <2>1, <3>1, <5>1
      <4>3. r \notin Special
        BY <2>1, <3>1, <4>1
      <4> QED
        BY <4>2, <4>3
    <3>4. Inside(v, u) \in Seq(Nat)
      BY <1>4, <3>1, InsideFacts
    <3>5. /\ src' = Inside(v, u) /\ src' \in Seq(0 .. 127) /\ set' = set \union {r}
          /\ UNCHANGED <<pattern, escape, inSet, items>>
      BY <1>2, <2>2, <3>1, <3>2, <3>3, <3>4, RuneEffects
    <3>6. set' \union ToSet(v) = set \union ToSet(s) /\ set' \subseteq Nat
      BY <1>2, <3>1, <3>5
    <3> QED
      BY <1>6, <2>1, <2>2, <3>1, <3>3, <3>5, <3>6
  <2> QED
    BY <2>3, <2>4
<1> QED
  BY <1>1, <1>7, <1>8, <1>9

(* At the end of the text the whole pattern is compiled. *)
LEMMA CompileEnds ==
  ASSUME PatternInv, Reading, src = <<>>
  PROVE  Compiled(items, pattern, Len(pattern))
<1>1. PICK n \in 0 .. Len(pattern) :
        Compiled(items, pattern, n) /\ (Between(n) \/ AfterBackslash(n) \/ InBrackets(n))
  BY DEF Reading
<1>2. pattern \in Seq(TokenSet) /\ Len(pattern) \in Nat
  BY DEF PatternInv
<1>3. ASSUME n < Len(pattern) PROVE FALSE
  <2> DEFINE t == pattern[n + 1]
             u == Rest(pattern, n + 1)
  <2>1. Shape(t) /\ t.src \in Seq(Nat) /\ u \in Seq(Nat) /\ Rest(pattern, n) = t.src \o u
    <3>1. n \in 0 .. Len(pattern) - 1 /\ n + 1 \in 1 .. Len(pattern) /\ n + 1 \in 0 .. Len(pattern)
      BY <1>2, <1>3
    <3>2. t \in TokenSet
      BY <1>2, <3>1, ElementOfSeq
    <3> QED
      BY <1>2, <3>1, <3>2, RestDef DEF PatternInv, TokenSet
  <2>2. CASE Between(n)
    <3>1. t.src \o u = <<>>
      BY <2>1, <2>2 DEF Between
    <3> HIDE DEF t, u
    <3>2. t.src = <<>>
      BY <2>1, <3>1, ConcatEqualIffEmpty
    <3>3. \A x : <<x>> # <<>>
      OBVIOUS
    <3>4. \A x, y : <<x, y>> # <<>>
      OBVIOUS
    <3>5. ASSUME NEW s \in Seq(Nat) PROVE Brackets(s) # <<>>
      <4>1. Brackets(s) \o <<>> = <<Open>> \o Inside(s, <<>>) /\ Inside(s, <<>>) \in Seq(Nat) /\ Open \in Nat
        <5>1. <<>> \in Seq(Nat) /\ Open \in Nat
          BY DEF Open
        <5>2. Brackets(s) \o <<>> = <<Open>> \o Inside(s, <<>>) /\ Inside(s, <<>>) \in Seq(Nat)
          BY <5>1, InsideFacts
        <5> QED
          BY <5>1, <5>2
      <4>2. <<Open>> \o Inside(s, <<>>) # <<>>
        BY <4>1, FirstOf
      <4>3. <<>> \o <<>> = <<>>
        OBVIOUS
      <4> QED
        BY <4>1, <4>2, <4>3
    <3> QED
      BY <2>1, <3>2, <3>3, <3>4, <3>5 DEF Shape, Bracketed
  <2>3. CASE AfterBackslash(n)
    BY <2>1, <2>3, FirstOf DEF AfterBackslash
  <2>4. CASE InBrackets(n)
    <3>1. PICK s \in Seq(Nat) : src = Inside(s, u)
      BY <2>4 DEF InBrackets
    <3>2. Close \in Nat /\ (s # <<>> => Head(s) \in Nat /\ Tail(s) \in Seq(Nat))
      BY HeadTailProperties DEF Close
    <3>3. src # <<>>
      <4> HIDE DEF t, u
      <4>1. CASE s = <<>>
        <5>1. src = <<Close>> \o u
          BY <2>1, <3>1, <4>1, InsideFacts
        <5>2. <<Close>> \o u # <<>>
          BY <2>1, <3>2, FirstOf
        <5> QED
          BY <5>1, <5>2
      <4>2. CASE s # <<>>
        <5>1. Inside(Tail(s), u) \in Seq(Nat)
          BY <2>1, <3>2, <4>2, InsideFacts
        <5>2. src = <<Head(s)>> \o Inside(Tail(s), u)
          BY <2>1, <3>1, <4>2, InsideFacts
        <5>3. <<Head(s)>> \o Inside(Tail(s), u) # <<>>
          BY <3>2, <4>2, <5>1, FirstOf
        <5> QED
          BY <5>2, <5>3
      <4> QED
        BY <4>1, <4>2
    <3> QED
      BY <3>3
  <2> QED
    BY <1>1, <2>2, <2>3, <2>4
<1>4. n = Len(pattern)
  BY <1>2, <1>3
<1> QED
  BY <1>1, <1>4

-----------------------------------------------------------------------------
(* Keys cut into pieces: the first i bytes of s are made of the first j    *)
(* tokens of p.                                                            *)
Piece(t, s, h, i) == IF t.many THEN h <= i ELSE i = h + 1 /\ s[i] \in t.bytes

Pieces(p, s, j, i, end) ==
  /\ end \in [0 .. j -> 0 .. Len(s)] /\ end[0] = 0 /\ end[j] = i
  /\ \A k \in 1 .. j : Piece(p[k], s, end[k - 1], end[k])

Cut(p, s, j, i) == \E end : Pieces(p, s, j, i, end)

LEMMA MeansCut ==
  ASSUME NEW p \in Seq(TokenSet), NEW s
  PROVE  Means(p, s) <=> Cut(p, s, Len(p), Len(s))
<1>1. DOMAIN p = 1 .. Len(p)
  OBVIOUS
<1> QED
  BY <1>1 DEF Means, Cut, Pieces, Piece

LEMMA CutNone ==
  ASSUME NEW p, NEW s \in Seq(Bytes), NEW i \in 0 .. Len(s)
  PROVE  Cut(p, s, 0, i) <=> i = 0
<1>1. ASSUME NEW end, Pieces(p, s, 0, i, end) PROVE i = 0
  BY <1>1 DEF Pieces
<1>2. ASSUME i = 0 PROVE Pieces(p, s, 0, i, [k \in 0 .. 0 |-> 0])
  <2>1. 0 \in 0 .. Len(s)
    OBVIOUS
  <2> QED
    BY <1>2, <2>1 DEF Pieces
<1> QED
  BY <1>1, <1>2 DEF Cut

LEMMA CutMore ==
  ASSUME NEW p, NEW s \in Seq(Bytes), NEW j \in Nat \ {0}, NEW i \in 0 .. Len(s)
  PROVE  Cut(p, s, j, i) <=> \E h \in 0 .. Len(s) : Cut(p, s, j - 1, h) /\ Piece(p[j], s, h, i)
<1>1. ASSUME NEW end, Pieces(p, s, j, i, end)
      PROVE  \E h \in 0 .. Len(s) : Cut(p, s, j - 1, h) /\ Piece(p[j], s, h, i)
  <2> DEFINE e == [k \in 0 .. j - 1 |-> end[k]]
  <2>1. end[j - 1] \in 0 .. Len(s) /\ Piece(p[j], s, end[j - 1], i)
    <3>1. j - 1 \in 0 .. j /\ j \in 1 .. j
      OBVIOUS
    <3> QED
      BY <1>1, <3>1 DEF Pieces
  <2>2. e \in [0 .. j - 1 -> 0 .. Len(s)] /\ e[0] = 0 /\ e[j - 1] = end[j - 1]
    BY <1>1 DEF Pieces
  <2>3. ASSUME NEW k \in 1 .. j - 1 PROVE Piece(p[k], s, e[k - 1], e[k])
    <3>1. k \in 1 .. j /\ e[k - 1] = end[k - 1] /\ e[k] = end[k]
      OBVIOUS
    <3> QED
      BY <1>1, <3>1 DEF Pieces
  <2>4. Pieces(p, s, j - 1, end[j - 1], e)
    <3> HIDE DEF e
    <3> QED
      BY <2>2, <2>3 DEF Pieces
  <2> QED
    BY <2>1, <2>4 DEF Cut
<1>2. ASSUME NEW h \in 0 .. Len(s), NEW end, Pieces(p, s, j - 1, h, end), Piece(p[j], s, h, i)
      PROVE  Cut(p, s, j, i)
  <2> DEFINE e == [k \in 0 .. j |-> IF k = j THEN i ELSE end[k]]
  <2>1. e \in [0 .. j -> 0 .. Len(s)] /\ e[0] = 0 /\ e[j] = i
    BY <1>2 DEF Pieces
  <2>2. ASSUME NEW k \in 1 .. j PROVE Piece(p[k], s, e[k - 1], e[k])
    <3>1. CASE k = j
      <4>1. e[k] = i /\ e[k - 1] = end[j - 1] /\ end[j - 1] = h
        BY <1>2, <3>1 DEF Pieces
      <4> QED
        BY <1>2, <3>1, <4>1
    <3>2. CASE k # j
      <4>1. k \in 1 .. j - 1 /\ e[k] = end[k] /\ e[k - 1] = end[k - 1]
        BY <3>2
      <4> QED
        BY <1>2, <4>1 DEF Pieces
    <3> QED
      BY <3>1, <3>2
  <2>3. Pieces(p, s, j, i, e)
    <3> HIDE DEF e
    <3> QED
      BY <2>1, <2>2 DEF Pieces
  <2> QED
    BY <2>3 DEF Cut
<1> QED
  BY <1>1, <1>2 DEF Cut

LEMMA CutStar ==
  ASSUME NEW p, NEW s \in Seq(Bytes), NEW j \in Nat \ {0}, p[j].many
  PROVE  /\ Cut(p, s, j, 0) <=> Cut(p, s, j - 1, 0)
         /\ \A i \in 1 .. Len(s) : Cut(p, s, j, i) <=> Cut(p, s, j, i - 1) \/ Cut(p, s, j - 1, i)
<1>1. ASSUME NEW i \in 0 .. Len(s)
      PROVE  Cut(p, s, j, i) <=> \E h \in 0 .. Len(s) : Cut(p, s, j - 1, h) /\ h <= i
  <2>1. \A h : Piece(p[j], s, h, i) <=> h <= i
    BY DEF Piece
  <2> QED
    BY <2>1, CutMore
<1>2. Cut(p, s, j, 0) <=> Cut(p, s, j - 1, 0)
  <2>1. 0 \in 0 .. Len(s) /\ \A h \in 0 .. Len(s) : h <= 0 <=> h = 0
    OBVIOUS
  <2> QED
    BY <1>1, <2>1
<1>3. ASSUME NEW i \in 1 .. Len(s)
      PROVE  Cut(p, s, j, i) <=> Cut(p, s, j, i - 1) \/ Cut(p, s, j - 1, i)
  <2>1. i \in 0 .. Len(s) /\ i - 1 \in 0 .. Len(s)
        /\ \A h \in 0 .. Len(s) : h <= i <=> h <= i - 1 \/ h = i
    OBVIOUS
  <2>2. /\ Cut(p, s, j, i) <=> \E h \in 0 .. Len(s) : Cut(p, s, j - 1, h) /\ h <= i
        /\ Cut(p, s, j, i - 1) <=> \E h \in 0 .. Len(s) : Cut(p, s, j - 1, h) /\ h <= i - 1
    BY <1>1, <2>1
  <2> QED
    BY <2>1, <2>2
<1> QED
  BY <1>2, <1>3

LEMMA CutByte ==
  ASSUME NEW p, NEW s \in Seq(Bytes), NEW j \in Nat \ {0}, ~p[j].many
  PROVE  /\ ~Cut(p, s, j, 0)
         /\ \A i \in 1 .. Len(s) : Cut(p, s, j, i) <=> Cut(p, s, j - 1, i - 1) /\ s[i] \in p[j].bytes
<1>1. \A h, i : Piece(p[j], s, h, i) <=> i = h + 1 /\ s[i] \in p[j].bytes
  BY DEF Piece
<1>2. ~Cut(p, s, j, 0)
  <2>1. 0 \in 0 .. Len(s) /\ \A h \in 0 .. Len(s) : 0 # h + 1
    OBVIOUS
  <2> QED
    BY <1>1, <2>1, CutMore
<1>3. ASSUME NEW i \in 1 .. Len(s)
      PROVE  Cut(p, s, j, i) <=> Cut(p, s, j - 1, i - 1) /\ s[i] \in p[j].bytes
  <2>1. i \in 0 .. Len(s) /\ i - 1 \in 0 .. Len(s) /\ \A h \in 0 .. Len(s) : i = h + 1 <=> h = i - 1
    OBVIOUS
  <2>2. Cut(p, s, j, i) <=> \E h \in 0 .. Len(s) : Cut(p, s, j - 1, h) /\ Piece(p[j], s, h, i)
    BY <2>1, CutMore
  <2> QED
    BY <1>1, <2>1, <2>2
<1> QED
  BY <1>2, <1>3

-----------------------------------------------------------------------------
(* The rows of the table.                                                  *)
LEMMA FirstRowDef ==
  ASSUME Len(items) \in Nat
  PROVE  /\ FirstRow[0]
         /\ \A j \in 1 .. Len(items) : FirstRow[j] <=> FirstRow[j - 1] /\ items[j].typeCode = "all"
<1> DEFINE N == Len(items)
           s == [x \in (1 .. N) \X BOOLEAN |-> x[2] /\ items[x[1]].typeCode = "all"]
           E(f) == f = [j \in 0 .. N |-> j = 0 \/ (f[j - 1] /\ items[j].typeCode = "all")]
<1>1. s \in [(1 .. N) \X BOOLEAN -> BOOLEAN] /\ TRUE \in BOOLEAN /\ N \in Nat
  OBVIOUS
<1>2. \A n \in 1 .. N : \A v \in BOOLEAN : s[<<n, v>>] = (v /\ items[n].typeCode = "all")
  OBVIOUS
<1>3. FirstRow = CHOOSE f : E(f)
  BY DEF FirstRow
<1> HIDE DEF s, N
<1>4. PICK g : Unfolded(g, BOOLEAN, TRUE, N, s)
  BY <1>1, Unfolding
<1>5. E(g)
  <2>1. g[0] = TRUE /\ g = [j \in 0 .. N |-> g[j]] /\ \A j \in 0 .. N : g[j] \in BOOLEAN
    <3>1. g \in [0 .. N -> BOOLEAN]
      BY <1>4 DEF Unfolded
    <3>2. 0 \in 0 .. N
      BY <1>1
    <3>3. g[0] = TRUE
      BY <1>4, <3>2 DEF Unfolded
    <3> QED
      BY <3>1, <3>3
  <2>2. ASSUME NEW j \in 0 .. N, j # 0 PROVE g[j] = (g[j - 1] /\ items[j].typeCode = "all")
    <3>1. j \in 1 .. N /\ j - 1 \in 0 .. N
      BY <1>1, <2>2
    <3>2. g[j] = s[<<j, g[j - 1]>>] /\ g[j - 1] \in BOOLEAN
      BY <1>4, <2>1, <2>2, <3>1 DEF Unfolded
    <3> QED
      BY <1>2, <3>1, <3>2
  <2>3. \A j \in 0 .. N : g[j] = (j = 0 \/ (g[j - 1] /\ items[j].typeCode = "all"))
    BY <2>1, <2>2
  <2> QED
    BY <2>1, <2>3
<1>6. E(FirstRow)
  <2>1. \E f : E(f)
    BY <1>5
  <2> HIDE DEF E
  <2> QED
    BY <1>3, <2>1
<1> DEFINE e == FirstRow
<1>7. \A j \in 0 .. N : e[j] = (j = 0 \/ (e[j - 1] /\ items[j].typeCode = "all"))
  <2> HIDE DEF e
  <2>1. e = [j \in 0 .. N |-> j = 0 \/ (e[j - 1] /\ items[j].typeCode = "all")]
    BY <1>6 DEF e
  <2> QED
    BY <2>1
<1> HIDE DEF e
<1>8. e[0] /\ \A j \in 1 .. N : e[j] <=> e[j - 1] /\ items[j].typeCode = "all"
  <2>1. 0 \in 0 .. N /\ \A j \in 1 .. N : j \in 0 .. N /\ j # 0
    BY <1>1
  <2>2. e[0] = TRUE
    BY <1>7, <2>1
  <2>3. e[0]
    BY <2>2, Zenon
  <2>4. ASSUME NEW j \in 1 .. N PROVE e[j] <=> e[j - 1] /\ items[j].typeCode = "all"
    <3>1. e[j] = (e[j - 1] /\ items[j].typeCode = "all")
      BY <1>7, <2>1
    <3> QED
      BY <3>1
  <2> QED
    BY <2>3, <2>4
<1> QED
  BY <1>8 DEF e, N

LEMMA NextRowDef ==
  ASSUME Len(items) \in Nat, NEW above, NEW b
  PROVE  LET t == NextRow(above, b)
         IN  /\ ~t[0]
             /\ \A j \in 1 .. Len(items) :
                  t[j] <=> IF items[j].typeCode = "all" THEN above[j] \/ t[j - 1]
                           ELSE above[j - 1] /\ Fits(items[j], b)
<1> DEFINE N == Len(items)
           Entry(j, v) == IF items[j].typeCode = "all" THEN above[j] \/ v
                          ELSE above[j - 1] /\ Fits(items[j], b)
           s == [x \in (1 .. N) \X BOOLEAN |-> Entry(x[1], x[2])]
           E(f) == f = [j \in 0 .. N |->
                          IF j = 0 THEN FALSE
                          ELSE IF items[j].typeCode = "all" THEN above[j] \/ f[j - 1]
                          ELSE above[j - 1] /\ Fits(items[j], b)]
<1>1. s \in [(1 .. N) \X BOOLEAN -> BOOLEAN] /\ FALSE \in BOOLEAN /\ N \in Nat
  OBVIOUS
<1>2. \A n \in 1 .. N : \A v \in BOOLEAN : s[<<n, v>>] = Entry(n, v)
  OBVIOUS
<1>3. NextRow(above, b) = CHOOSE f : E(f)
  BY DEF NextRow
<1> HIDE DEF s, N
<1>4. PICK g : Unfolded(g, BOOLEAN, FALSE, N, s)
  BY <1>1, Unfolding
<1>5. E(g)
  <2>1. g[0] = FALSE /\ g = [j \in 0 .. N |-> g[j]] /\ \A j \in 0 .. N : g[j] \in BOOLEAN
    <3>1. g \in [0 .. N -> BOOLEAN]
      BY <1>4 DEF Unfolded
    <3>2. 0 \in 0 .. N
      BY <1>1
    <3>3. g[0] = FALSE
      BY <1>4, <3>2 DEF Unfolded
    <3> QED
      BY <3>1, <3>3
  <2>2. ASSUME NEW j \in 0 .. N, j # 0 PROVE g[j] = Entry(j, g[j - 1])
    <3>1. j \in 1 .. N /\ j - 1 \in 0 .. N
      BY <1>1, <2>2
    <3>2. g[j] = s[<<j, g[j - 1]>>] /\ g[j - 1] \in BOOLEAN
      BY <1>4, <2>1, <2>2, <3>1 DEF Unfolded
    <3> HIDE DEF Entry
    <3> QED
      BY <1>2, <3>1, <3>2
  <2>3. \A j \in 0 .. N : g[j] = IF j = 0 THEN FALSE ELSE Entry(j, g[j - 1])
    <3> HIDE DEF Entry
    <3> QED
      BY <2>1, <2>2
  <2>4. g = [j \in 0 .. N |-> IF j = 0 THEN FALSE ELSE Entry(j, g[j - 1])]
    <3> HIDE DEF Entry
    <3> QED
      BY <2>1, <2>3
  <2> QED
    BY <2>4
<1>6. E(NextRow(above, b))
  <2>1. \E f : E(f)
    BY <1>5
  <2> HIDE DEF E
  <2> QED
    BY <1>3, <2>1
<1> DEFINE e == NextRow(above, b)
<1>7. \A j \in 0 .. N : e[j] = IF j = 0 THEN FALSE ELSE Entry(j, e[j - 1])
  <2> HIDE DEF e
  <2>1. e = [j \in 0 .. N |-> IF j = 0 THEN FALSE ELSE Entry(j, e[j - 1])]
    BY <1>6 DEF e
  <2> HIDE DEF Entry
  <2> QED
    BY <2>1
<1> HIDE DEF e
<1>8. ~e[0] /\ \A j \in 1 .. N : e[j] <=> Entry(j, e[j - 1])
  <2> HIDE DEF Entry
  <2>1. ~e[0]
    <3>1. 0 \in 0 .. N
      BY <1>1
    <3>2. e[0] = FALSE
      BY <1>7, <3>1
    <3> QED
      BY <3>2, Zenon
  <2>2. ASSUME NEW j \in 1 .. N PROVE e[j] <=> Entry(j, e[j - 1])
    <3>1. j \in 0 .. N /\ j # 0
      BY <1>1
    <3> QED
      BY <1>7, <3>1
  <2> QED
    BY <2>1, <2>2
<1> QED
  BY <1>8 DEF e, N

(* Entry j of row i says whether the first j tokens are what the first i   *)
(* bytes are made of.                                                      *)
RowSays(r, i) == \A j \in 0 .. Len(pattern) : r[j] <=> Cut(pattern, key, j, i)

LEMMA FirstRowSays ==
  ASSUME PatternInv, Compiled(items, pattern, Len(pattern)), NEW s \in Seq(Bytes)
  PROVE  \A j \in 0 .. Len(pattern) : FirstRow[j] <=> Cut(pattern, s, j, 0)
<1> DEFINE T == {j \in Nat : j <= Len(pattern) => (FirstRow[j] <=> Cut(pattern, s, j, 0))}
<1>1. /\ Len(pattern) \in Nat /\ Len(items) = Len(pattern) /\ 0 \in 0 .. Len(s)
      /\ \A j \in 1 .. Len(pattern) : Stands(items[j], pattern[j])
  BY LenProperties DEF PatternInv, Compiled
<1>2. 0 \in T
  BY <1>1, FirstRowDef, CutNone
<1>3. ASSUME NEW j \in Nat, j + 1 <= Len(pattern), FirstRow[j] <=> Cut(pattern, s, j, 0)
      PROVE  FirstRow[j + 1] <=> Cut(pattern, s, j + 1, 0)
  <2>1. j + 1 \in 1 .. Len(pattern) /\ (j + 1) - 1 = j /\ j + 1 \in Nat \ {0}
    BY <1>1, <1>3
  <2>2. FirstRow[j + 1] <=> FirstRow[j] /\ items[j + 1].typeCode = "all"
    BY <1>1, <2>1, FirstRowDef
  <2>3. CASE pattern[j + 1].many
    <3>1. Cut(pattern, s, j + 1, 0) <=> Cut(pattern, s, j, 0)
      BY <2>1, <2>3, CutStar
    <3>2. items[j + 1].typeCode = "all"
      BY <1>1, <2>1, <2>3 DEF Stands
    <3> QED
      BY <1>3, <2>2, <3>1, <3>2
  <2>4. CASE ~pattern[j + 1].many
    <3>1. ~Cut(pattern, s, j + 1, 0)
      BY <2>1, <2>4, CutByte
    <3>2. items[j + 1].typeCode # "all"
      BY <1>1, <2>1, <2>4 DEF Stands
    <3> QED
      BY <2>2, <3>1, <3>2
  <2> QED
    BY <2>3, <2>4
<1>4. T = Nat
  <2>1. T \in SUBSET Nat /\ \A j \in T : j + 1 \in T
    BY <1>1, <1>3
  <2> HIDE DEF T
  <2> QED
    BY <1>2, <2>1, SetInduction
<1> QED
  BY <1>1, <1>4

LEMMA NextRowSays ==
  ASSUME PatternInv, Compiled(items, pattern, Len(pattern)), key \in Seq(Bytes),
         NEW i \in 0 .. Len(key) - 1, RowSays(row, i)
  PROVE  RowSays(NextRow(row, key[i + 1]), i + 1)
<1> DEFINE b == key[i + 1]
           r == NextRow(row, b)
           T == {j \in Nat : j <= Len(pattern) => (r[j] <=> Cut(pattern, key, j, i + 1))}
<1>1. /\ Len(pattern) \in Nat /\ Len(items) = Len(pattern) /\ Len(key) \in Nat
      /\ \A j \in 1 .. Len(pattern) : Stands(items[j], pattern[j])
  BY LenProperties DEF PatternInv, Compiled
<1>2. /\ i + 1 \in 1 .. Len(key) /\ i + 1 \in 0 .. Len(key) /\ i + 1 # 0 /\ (i + 1) - 1 = i
      /\ b \in Bytes
  <2>1. i + 1 \in 1 .. Len(key) /\ i + 1 \in 0 .. Len(key) /\ i + 1 # 0 /\ (i + 1) - 1 = i
    BY <1>1
  <2> QED
    BY <2>1, ElementOfSeq
<1>3. /\ ~r[0]
      /\ \A j \in 1 .. Len(items) :
           r[j] <=> IF items[j].typeCode = "all" THEN row[j] \/ r[j - 1]
                    ELSE row[j - 1] /\ Fits(items[j], b)
  BY <1>1, NextRowDef
<1> HIDE DEF b, r
<1>4. 0 \in T
  BY <1>2, <1>3, CutNone
<1>5. ASSUME NEW j \in Nat, j + 1 <= Len(pattern), r[j] <=> Cut(pattern, key, j, i + 1)
      PROVE  r[j + 1] <=> Cut(pattern, key, j + 1, i + 1)
  <2>1. /\ j + 1 \in 1 .. Len(pattern) /\ (j + 1) - 1 = j /\ j + 1 \in Nat \ {0}
        /\ j \in 0 .. Len(pattern) /\ j + 1 \in 0 .. Len(pattern)
    BY <1>1, <1>5
  <2>2. /\ row[j] <=> Cut(pattern, key, j, i)
        /\ row[j + 1] <=> Cut(pattern, key, j + 1, i)
    BY <2>1 DEF RowSays
  <2>3. r[j + 1] <=> IF items[j + 1].typeCode = "all" THEN row[j + 1] \/ r[j]
                     ELSE row[j] /\ Fits(items[j + 1], b)
    BY <1>1, <1>3, <2>1
  <2>4. CASE pattern[j + 1].many
    <3>1. Cut(pattern, key, j + 1, i + 1) <=>
            Cut(pattern, key, j + 1, i) \/ Cut(pattern, key, j, i + 1)
      BY <1>2, <2>1, <2>4, CutStar, SMTT(60)
    <3>2. items[j + 1].typeCode = "all"
      BY <1>1, <2>1, <2>4 DEF Stands
    <3> QED
      BY <1>5, <2>2, <2>3, <3>1, <3>2
  <2>5. CASE ~pattern[j + 1].many
    <3>1. Cut(pattern, key, j + 1, i + 1) <=>
            Cut(pattern, key, j, i) /\ key[i + 1] \in pattern[j + 1].bytes
      BY <1>2, <2>1, <2>5, CutByte
    <3>2. items[j + 1].typeCode # "all" /\ (Fits(items[j + 1], b) <=> b \in pattern[j + 1].bytes)
      BY <1>1, <1>2, <2>1, <2>5 DEF Stands
    <3> QED
      BY <2>2, <2>3, <3>1, <3>2 DEF b
  <2> QED
    BY <2>4, <2>5
<1>6. T = Nat
  <2>1. T \in SUBSET Nat /\ \A j \in T : j + 1 \in T
    BY <1>1, <1>5
  <2> HIDE DEF T
  <2> QED
    BY <1>4, <2>1, SetInduction
<1> QED
  BY <1>1, <1>6 DEF RowSays, r, b

-----------------------------------------------------------------------------
Matching ==
  /\ Compiled(items, pattern, Len(pattern)) /\ key \in Seq(Bytes)
  /\ at \in 0 .. Len(key) /\ RowSays(row, at)
  /\ phase = "done" => at = Len(key)

WildcardInv ==
  /\ PatternInv /\ phase \in {"compile", "match", "done"}
  /\ Ascii(pattern) => IF phase = "compile" THEN Reading ELSE Matching

LEMMA WordsTyped ==
  ASSUME NEW S, NEW T, S \subseteq T, NEW n, NEW w \in UpTo(S, n)
  PROVE  w \in Seq(T) /\ \A i \in 1 .. Len(w) : w[i] \in S
<1>1. PICK k \in 0 .. n : w \in [1 .. k -> S]
  BY DEF UpTo
<1>2. k \in Nat
  BY <1>1
<1>3. w \in Seq(S)
  BY <1>1, <1>2
<1> QED
  BY <1>3, SeqMonotonic, ElementOfSeq

LEMMA WildcardInit == Init => WildcardInv
<1> SUFFICES ASSUME Init PROVE WildcardInv
  OBVIOUS
<1>1. Tokens \subseteq TokenSet
  BY TokensAssumption, TokenTyped
<1>2. pattern \in Seq(TokenSet) /\ \A j \in 1 .. Len(pattern) : pattern[j] \in Tokens
  BY <1>1, WordsTyped DEF Init
<1>3. PatternInv
  BY <1>2, TokensAssumption, TokenShape DEF PatternInv
<1>4. phase = "compile" /\ src = Text(pattern) /\ ~escape /\ ~inSet /\ set = {} /\ items = <<>>
  BY DEF Init
<1>5. ASSUME Ascii(pattern) PROVE Reading
  <2>1. Len(pattern) \in Nat /\ 0 \in 0 .. Len(pattern)
    BY <1>2
  <2>2. src \in Seq(Nat) /\ src = Rest(pattern, 0)
    BY <1>2, <1>4, <2>1, RestDef
  <2>3. src \in Seq(0 .. 127)
    <3>1. Len(src) \in Nat /\ DOMAIN src = 1 .. Len(src) /\ src = [i \in 1 .. Len(src) |-> src[i]]
      BY <2>2
    <3>2. ASSUME NEW i \in 1 .. Len(src) PROVE src[i] \in 0 .. 127
      <4>1. src[i] < 128
        BY <1>4, <1>5, <3>1 DEF Ascii
      <4>2. src[i] \in Nat
        BY <2>2, ElementOfSeq
      <4>3. \A x \in Nat : x < 128 => x \in 0 .. 127
        OBVIOUS
      <4> QED
        BY <4>1, <4>2, <4>3
    <3>3. src \in [1 .. Len(src) -> 0 .. 127]
      BY <3>1, <3>2
    <3> QED
      BY <3>1, <3>3, SeqDef, ZenonT(60)
  <2>4. Compiled(items, pattern, 0)
    BY <1>4 DEF Compiled
  <2>5. Between(0)
    BY <1>4, <2>2 DEF Between
  <2> QED
    BY <1>4, <2>1, <2>3, <2>4, <2>5 DEF Reading
<1> QED
  BY <1>3, <1>4, <1>5 DEF WildcardInv

LEMMA WildcardNext == WildcardInv /\ [Next]_vars => WildcardInv'
<1> SUFFICES ASSUME WildcardInv, [Next]_vars PROVE WildcardInv'
  OBVIOUS
<1>1. CASE Compile
  <2>1. phase = "compile" /\ phase' = "compile" /\ pattern' = pattern
    BY <1>1 DEF Compile, TakeEscaped, TakeWildcard, TakeBackslash, TakeOpen, TakeClose, TakePlain, Take
  <2>2. Ascii(pattern) => Reading'
    BY <1>1, <2>1, CompileNext DEF WildcardInv
  <2>3. PatternInv' /\ (Ascii(pattern') <=> Ascii(pattern))
    BY <2>1 DEF WildcardInv, PatternInv
  <2> QED
    BY <2>1, <2>2, <2>3 DEF WildcardInv
<1>2. CASE StartMatch
  <2>1. /\ phase = "compile" /\ phase' = "match" /\ src = <<>> /\ at' = 0 /\ row' = FirstRow
        /\ key' \in UpTo(KeyBytes, MaxKey) /\ UNCHANGED <<pattern, items>>
    BY <1>2 DEF StartMatch, compiling
  <2>2. PatternInv /\ PatternInv' /\ (Ascii(pattern') <=> Ascii(pattern))
    BY <2>1 DEF WildcardInv, PatternInv
  <2>3. ASSUME Ascii(pattern) PROVE Matching'
    <3>1. Compiled(items, pattern, Len(pattern))
      BY <2>1, <2>2, <2>3, CompileEnds DEF WildcardInv
    <3>2. PICK s : s = key'
      OBVIOUS
    <3>3. s \in Seq(Bytes)
      BY <2>1, <3>2, BytesAssumption, WordsTyped DEF Bytes
    <3>4. \A j \in 0 .. Len(pattern) : FirstRow[j] <=> Cut(pattern, s, j, 0)
      BY <2>2, <3>1, <3>3, FirstRowSays
    <3>5. RowSays(row, at)'
      BY <2>1, <3>2, <3>4 DEF RowSays
    <3>6. at' \in 0 .. Len(key')
      BY <2>1, <3>2, <3>3
    <3> QED
      BY <2>1, <3>1, <3>2, <3>3, <3>5, <3>6 DEF Matching
  <2> QED
    BY <2>1, <2>2, <2>3 DEF WildcardInv
<1>3. CASE FillRow
  <2>1. /\ phase = "match" /\ phase' = "match" /\ at < Len(key) /\ at' = at + 1
        /\ row' = NextRow(row, key[at + 1]) /\ UNCHANGED <<pattern, items, key>>
    BY <1>3 DEF FillRow, compiling
  <2>2. PatternInv /\ PatternInv' /\ (Ascii(pattern') <=> Ascii(pattern))
    BY <2>1 DEF WildcardInv, PatternInv
  <2>3. ASSUME Ascii(pattern) PROVE Matching'
    <3>1. Matching
      BY <2>1, <2>3 DEF WildcardInv
    <3>2. Len(key) \in Nat /\ at \in 0 .. Len(key) - 1 /\ at + 1 \in 0 .. Len(key)
      BY <2>1, <3>1 DEF Matching
    <3>3. RowSays(NextRow(row, key[at + 1]), at + 1)
      BY <2>2, <3>1, <3>2, NextRowSays DEF Matching
    <3>4. RowSays(row, at)'
      BY <2>1, <3>3 DEF RowSays
    <3> QED
      BY <2>1, <3>1, <3>2, <3>4 DEF Matching
  <2> QED
    BY <2>1, <2>2, <2>3 DEF WildcardInv
<1>4. CASE EndMatch
  <2>1. /\ phase = "match" /\ phase' = "done" /\ at = Len(key)
        /\ UNCHANGED <<pattern, items, key, at, row>>
    BY <1>4 DEF EndMatch, compiling
  <2>2. PatternInv' /\ (Ascii(pattern') <=> Ascii(pattern))
    BY <2>1 DEF WildcardInv, PatternInv
  <2>3. ASSUME Ascii(pattern) PROVE Matching'
    BY <2>1, <2>3 DEF WildcardInv, Matching, RowSays
  <2> QED
    BY <2>1, <2>2, <2>3 DEF WildcardInv
<1>5. CASE UNCHANGED vars
  BY <1>5 DEF vars, WildcardInv, PatternInv, Reading, Matching, RowSays, Between, AfterBackslash, InBrackets
<1> QED
  BY <1>1, <1>2, <1>3, <1>4, <1>5 DEF Next, IsMatch, Stopped

(* wildcard.go:3: any pattern of ASCII tokens, in any order and of any     *)
(* length, matches a key just when the key is made of what its tokens      *)
(* mean.                                                                   *)
THEOREM PatternsMean == Spec => []MatchesMeaning
<1>1. WildcardInv => MatchesMeaning
  <2> SUFFICES ASSUME WildcardInv, phase = "done", Ascii(pattern)
               PROVE  Matched <=> Means(pattern, key)
    BY DEF MatchesMeaning
  <2>1. /\ Matching /\ pattern \in Seq(TokenSet) /\ Len(pattern) \in 0 .. Len(pattern)
    BY DEF WildcardInv, PatternInv
  <2>2. row[Len(pattern)] <=> Cut(pattern, key, Len(pattern), Len(key))
    BY <2>1 DEF Matching, RowSays
  <2> QED
    BY <2>1, <2>2, MeansCut DEF Matched, Matching, Compiled
<1> QED
  BY <1>1, WildcardInit, WildcardNext, PTL DEF Spec
=============================================================================
