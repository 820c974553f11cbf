---------------------------- MODULE MCRespStream ----------------------------
EXTENDS RespStream

(* An ordinary argument, one that is a line end, and one that looks like   *)
(* the start of a command.                                                 *)
PlainArgs == {<<65>>, CRLF, <<Star, Digit(1), CR, LF>>}

(* With one that begins with '$', and the empty one.                       *)
AllArgs == PlainArgs \union {<<Dollar, Digit(1)>>, <<>>}
=============================================================================
