---------------------------- MODULE MCWildcard ----------------------------
EXTENDS Wildcard

(* Each kind of token, those that look into the set for '-' and '^' with   *)
(* sets of one byte and of more, and a rune of two bytes.                  *)
AllTokens == {AnyBytes, AnyByte, Plain(98), Plain(Dash), Plain(233),
              Escaped(Star), OneOf(<<97>>), OneOf(<<99, 97>>), From(97, 99), From(98, 98),
              NoneOf(<<97>>), NoneOf(<<97, 98>>)}

SomeBytes == {Star, Dash, 97, 98, 99, 195}
=============================================================================
