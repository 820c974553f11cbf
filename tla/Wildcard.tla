------------------------------ MODULE Wildcard ------------------------------
(***************************************************************************)
(* lib/wildcard: CompilePattern turns the argument of KEYS into items, one *)
(* turn of its loop for each rune, and IsMatch fills a table, one row for  *)
(* each byte of the key.                                                   *)
(*                                                                         *)
(* A pattern is put together from what wildcard.go:3 says is supported,    *)
(* *, ?, [], [a-b] and [^a], with escapes and plain characters: a token is *)
(* its text and the bytes it is meant to match.  Runes and bytes are       *)
(* numbers.                                                                *)
(***************************************************************************)
EXTENDS Integers, Sequences, SequencesExt

CONSTANTS Tokens,     \* what patterns are made of
          KeyBytes,   \* the bytes of keys
          MaxTokens,  \* bound: tokens in a pattern
          MaxKey      \* bound: bytes in a key

ASSUME BoundsAssumption == MaxTokens \in Nat /\ MaxKey \in Nat
ASSUME BytesAssumption == KeyBytes \subseteq 0 .. 255

Star      == 42
Query     == 63
Backslash == 92
Open      == 91
Close     == 93
Dash      == 45
Caret     == 94

Special == {Star, Query, Backslash, Open, Close}

-----------------------------------------------------------------------------
(* The patterns and what they mean.                                        *)

Token(src, many, bytes) == [src |-> src, many |-> many, bytes |-> bytes]

AnyBytes   == Token(<<Star>>, TRUE, 0 .. 255)
AnyByte    == Token(<<Query>>, FALSE, 0 .. 255)
Plain(r)   == Token(<<r>>, FALSE, {r})
Escaped(r) == Token(<<Backslash, r>>, FALSE, {r})
Brackets(s) == <<Open>> \o s \o <<Close>>
OneOf(s)   == Token(Brackets(s), FALSE, ToSet(s))
From(a, b) == Token(Brackets(<<a, Dash, b>>), FALSE, a .. b)
NoneOf(s)  == Token(Brackets(<<Caret>> \o s), FALSE, (0 .. 255) \ ToSet(s))

(* What tokens are made of: only an escape makes a letter of a special      *)
(* rune, and between brackets '-' and '^' have a meaning of their own.     *)
Letters(S) == {r \in S : r \notin Special \union {Dash, Caret}}

IsToken(t) ==
  /\ t.src \in Seq(Nat)
  /\ \/ t \in {AnyBytes, AnyByte}
     \/ \E r \in ToSet(t.src) : t = Escaped(r) \/ (t = Plain(r) /\ r \notin Special)
     \/ \E a, b \in Letters(ToSet(t.src)) : a <= b /\ t = From(a, b)
     \/ \E n \in {2, 3} : LET s == SubSeq(t.src, n, Len(t.src) - 1)
                         IN  /\ Letters(ToSet(s)) = ToSet(s)
                             /\ t = OneOf(s) \/ t = NoneOf(s)

ASSUME TokensAssumption == \A t \in Tokens : IsToken(t)

UpTo(S, n) == UNION {[1 .. k -> S] : k \in 0 .. n}

(* The text of the last n tokens, and of all. *)
Endings(p) ==
  LET text[n \in 0 .. Len(p)] ==
        IF n = 0 THEN <<>> ELSE p[Len(p) - n + 1].src \o text[n - 1]
  IN  text
Text(p)  == Endings(p)[Len(p)]
Ascii(p) == \A i \in DOMAIN Text(p) : Text(p)[i] < 128

(* The key can be cut into pieces, one for each token: any number of bytes *)
(* for a star, and else one of the token's.                                *)
Means(p, s) ==
  \E end \in [0 .. Len(p) -> 0 .. Len(s)] :
    /\ end[0] = 0 /\ end[Len(p)] = Len(s)
    /\ \A j \in DOMAIN p :
         IF p[j].many THEN end[j - 1] <= end[j]
         ELSE end[j] = end[j - 1] + 1 /\ s[end[j]] \in p[j].bytes

-----------------------------------------------------------------------------
VARIABLES
  pattern,                   \* what KEYS was given, as tokens
  src, escape, inSet, set,   \* CompilePattern: runes left, and its locals
  items,                     \* Pattern.items
  key, at, row,              \* IsMatch: the key, and row "at" of its table
  phase                      \* "compile"; "match"; "done"

compiling == <<src, escape, inSet, set, items>>
vars == <<pattern, src, escape, inSet, set, items, key, at, row, phase>>

Item(code, char, S) == [typeCode |-> code, character |-> char, set |-> S]

-----------------------------------------------------------------------------
(* CompilePattern: the next rune, of which only the low byte counts.       *)

Low == Head(src) % 256

Take(guard) ==
  /\ phase = "compile" /\ src # <<>> /\ guard
  /\ src' = Tail(src)
  /\ UNCHANGED <<pattern, key, at, row, phase>>

Emit(item) == items' = Append(items, item)
Gather     == set' = set \union {Low} /\ UNCHANGED <<escape, inSet, items>>

TakeEscaped ==
  /\ Take(escape)
  /\ Emit(Item("normal", Low, {})) /\ escape' = FALSE
  /\ UNCHANGED <<inSet, set>>

(* Also between brackets. *)
TakeWildcard ==
  /\ Take(~escape /\ Low \in {Star, Query})
  /\ Emit(Item(IF Low = Star THEN "all" ELSE "any", 0, {}))
  /\ UNCHANGED <<escape, inSet, set>>

TakeBackslash ==
  /\ Take(~escape /\ Low = Backslash)
  /\ escape' = TRUE
  /\ UNCHANGED <<inSet, set, items>>

TakeOpen ==
  /\ Take(~escape /\ Low = Open)
  /\ IF inSet THEN Gather
     ELSE inSet' = TRUE /\ set' = {} /\ UNCHANGED <<escape, items>>

SetItem == Item(IF Caret \in set THEN "neg" ELSE IF Dash \in set THEN "range" ELSE "set",
                0, set \ {Dash, Caret})

TakeClose ==
  /\ Take(~escape /\ Low = Close)
  /\ IF inSet THEN inSet' = FALSE /\ Emit(SetItem)
     ELSE Emit(Item("normal", Low, {})) /\ UNCHANGED inSet
  /\ UNCHANGED <<escape, set>>

TakePlain ==
  /\ Take(~escape /\ Low \notin Special)
  /\ IF inSet THEN Gather
     ELSE Emit(Item("normal", Low, {})) /\ UNCHANGED <<escape, inSet, set>>

-----------------------------------------------------------------------------
(* IsMatch.                                                                *)

(* Faulty variant: a range without its ends. *)
ContainsInside(item, b) ==
  CASE item.typeCode = "set"   -> b \in item.set
    [] item.typeCode = "range" -> \E lo, hi \in item.set : lo < b /\ b < hi
    [] OTHER                   -> b \notin item.set

(* item.contains: a range goes from the least to the greatest byte of its  *)
(* set.                                                                    *)
ItemContains(item, b) ==
  CASE item.typeCode = "set"   -> b \in item.set
    [] item.typeCode = "range" -> \E lo, hi \in item.set : lo <= b /\ b <= hi
    [] OTHER                   -> b \notin item.set

Fits(item, b) ==
  CASE item.typeCode = "any"    -> TRUE
    [] item.typeCode = "normal" -> b = item.character
    [] OTHER                    -> ItemContains(item, b)

FirstRow ==
  LET t[j \in 0 .. Len(items)] == j = 0 \/ (t[j - 1] /\ items[j].typeCode = "all")
  IN  t

NextRow(above, b) ==
  LET t[j \in 0 .. Len(items)] ==
        IF j = 0 THEN FALSE
        ELSE IF items[j].typeCode = "all" THEN above[j] \/ t[j - 1]
        ELSE above[j - 1] /\ Fits(items[j], b)
  IN  t

(* A set that was not closed is dropped, and so is a last backslash.  Then *)
(* the pattern meets any key.                                              *)
StartMatch ==
  /\ phase = "compile" /\ src = <<>> /\ phase' = "match"
  /\ key' \in UpTo(KeyBytes, MaxKey)
  /\ at' = 0 /\ row' = FirstRow
  /\ UNCHANGED <<pattern, compiling>>

FillRow ==
  /\ phase = "match" /\ at < Len(key)
  /\ at' = at + 1 /\ row' = NextRow(row, key[at + 1])
  /\ UNCHANGED <<pattern, compiling, key, phase>>

EndMatch ==
  /\ phase = "match" /\ at = Len(key) /\ phase' = "done"
  /\ UNCHANGED <<pattern, compiling, key, at, row>>

(* IsMatch's result; without items only the empty key matches, which the   *)
(* table says as well.                                                     *)
Matched == row[Len(items)]

-----------------------------------------------------------------------------
Init ==
  /\ pattern \in UpTo(Tokens, MaxTokens) /\ src = Text(pattern)
  /\ escape = FALSE /\ inSet = FALSE /\ set = {} /\ items = <<>>
  /\ key = <<>> /\ at = 0 /\ row = <<>> /\ phase = "compile"

Compile == TakeEscaped \/ TakeWildcard \/ TakeBackslash \/ TakeOpen \/ TakeClose \/ TakePlain
IsMatch == StartMatch \/ FillRow \/ EndMatch
Stopped == phase = "done" /\ UNCHANGED vars

Next == Compile \/ IsMatch \/ Stopped

Spec == Init /\ [][Next]_vars

-----------------------------------------------------------------------------
(* Properties.                                                             *)

(* wildcard.go:3: in whatever order the tokens come, the compiled pattern  *)
(* matches a key just when the key is made of what they mean.  Only of     *)
(* ASCII patterns: one byte is kept of each rune, while a key is matched   *)
(* byte by byte.                                                           *)
MatchesMeaning ==
  phase = "done" /\ Ascii(pattern) => (Matched <=> Means(pattern, key))
=============================================================================
