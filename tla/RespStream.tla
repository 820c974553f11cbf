----------------------------- MODULE RespStream -----------------------------
(***************************************************************************)
(* resp/parser reading back what resp/reply's ToBytes wrote: the records   *)
(* of the append-only file, the requests of a PeerClient, and the replies  *)
(* it gets.  A stream is what was written of some commands when the        *)
(* process stopped, at any byte, and what was appended to it after a       *)
(* restart; or the replies of a peer, up to any byte.                      *)
(*                                                                         *)
(* One step is one turn of the loop in parse0.  A byte is its code; the    *)
(* bytes matter here, because framing is what the parser is about.         *)
(***************************************************************************)
EXTENDS Integers, Sequences, SequencesExt

CONSTANTS Args,     \* the arguments that commands are made of
          MaxArgs,  \* bound: arguments of a command
          MaxCmds,  \* bound: commands before the stop, and after it
          MaxReplies \* bound: replies on a connection

ASSUME ArgsAssumption == \A a \in Args : a \in Seq(0 .. 255) /\ Len(a) <= 9
ASSUME BoundsAssumption == MaxArgs \in 1 .. 9 /\ MaxCmds \in Nat /\ MaxReplies \in Nat

CR     == 13
LF     == 10
Star   == 42
Dollar == 36
Plus   == 43
Minus  == 45
Colon  == 58
CRLF == <<CR, LF>>
Digit(n) == 48 + n

-----------------------------------------------------------------------------
(* Writing.  An empty argument is written as a null bulk with one line end *)
(* too many.                                                               *)
EncodeArg(a) ==
  IF a = <<>> THEN <<Dollar, Minus, Digit(1)>> \o CRLF \o CRLF
  ELSE <<Dollar, Digit(Len(a))>> \o CRLF \o a \o CRLF

EncodeMulti(args) ==
  <<Star, Digit(Len(args))>> \o CRLF \o FlattenSeq([i \in DOMAIN args |-> EncodeArg(args[i])])

(* An empty value is a null bulk without its line end.                     *)
EncodeBulk(a) ==
  IF a = <<>> THEN <<Dollar, Minus, Digit(1)>>
  ELSE <<Dollar, Digit(Len(a))>> \o CRLF \o a \o CRLF

(* What is written is named as the parser's payloads are; "bulk" is none.  *)
Payload(kind, args) == [kind |-> kind, args |-> args]

ToBytes(p) ==
  CASE p.kind = "multi"      -> EncodeMulti(p.args)
    [] p.kind = "bulk"       -> EncodeBulk(p.args[1])
    [] p.kind = "null"       -> <<Dollar, Minus, Digit(1)>> \o CRLF
    [] p.kind = "status"     -> <<Plus, 79, 75>> \o CRLF
    [] p.kind = "errorReply" -> <<Minus, 69>> \o CRLF
    [] p.kind = "int"        -> <<Colon, Digit(1)>> \o CRLF

Written(ps) == FlattenSeq([i \in DOMAIN ps |-> ToBytes(ps[i])])

UpTo(S, n) == UNION {[1 .. k -> S] : k \in 0 .. n}
Commands   == {Payload("multi", args) : args \in UpTo(Args, MaxArgs) \ {<<>>}}
Replies    == {Payload(kind, <<>>) : kind \in {"null", "status", "errorReply", "int"}}
              \union {Payload(kind, <<a>>) : kind \in {"bulk", "multi"}, a \in Args}

-----------------------------------------------------------------------------
VARIABLES
  before, cut, after,  \* the stream: "cut" bytes of "before", then "after"
  input,               \* what is left to read
  state,               \* readState
  out,                 \* the payloads sent on the channel
  status               \* "run"; "closed", the channel too; "dead": parse0
                       \* recovered from a panic and left the channel open

stream == <<before, cut, after>>
vars   == <<before, cut, after, input, state, out, status>>

Fresh == [multi |-> FALSE, expected |-> 0, args |-> <<>>, bulkLen |-> 0]
Send(p) == out' = Append(out, p)

Deliver(p) == Send(p) /\ state' = Fresh /\ UNCHANGED status
Reject     == Deliver(Payload("error", <<>>))
GoOn(s)    == state' = s /\ UNCHANGED <<out, status>>
Panic      == status' = "dead" /\ UNCHANGED <<state, out>>

(* strconv.ParseUint and ParseInt. *)
IsDigits(s) == s # <<>> /\ \A i \in DOMAIN s : s[i] \in Digit(0) .. Digit(9)
NatOf(s)    == FoldLeft(LAMBDA n, d : 10 * n + d - Digit(0), 0, s)
IsInt(s)    == IsDigits(s) \/ (s # <<>> /\ Head(s) \in {Plus, Minus} /\ IsDigits(Tail(s)))
IntOf(s)    == IF Head(s) = Minus THEN -NatOf(Tail(s))
               ELSE IF Head(s) = Plus THEN NatOf(Tail(s)) ELSE NatOf(s)

-----------------------------------------------------------------------------
(* What parse0 does with a line, its line end taken off.                   *)

MultiBulkHeader(line) ==
  LET n == Tail(line)
  IN  IF ~IsDigits(n) THEN Reject
      ELSE IF NatOf(n) = 0 THEN Deliver(Payload("empty", <<>>))
      ELSE GoOn([Fresh EXCEPT !.multi = TRUE, !.expected = NatOf(n)])

BulkHeader(line) ==
  LET n == Tail(line)
  IN  IF ~IsInt(n) \/ IntOf(n) < -1 \/ IntOf(n) = 0 THEN Reject
      ELSE IF IntOf(n) = -1 THEN Deliver(Payload("null", <<>>))
      ELSE GoOn([Fresh EXCEPT !.multi = TRUE, !.expected = 1, !.bulkLen = IntOf(n)])

(* A line of another kind is delivered without any data. *)
SingleLine(line) ==
  CASE Head(line) = Plus  -> Deliver(Payload("status", <<>>))
    [] Head(line) = Minus -> Deliver(Payload("errorReply", <<>>))
    [] Head(line) = Colon -> IF IsInt(Tail(line)) THEN Deliver(Payload("int", <<>>)) ELSE Reject
    [] OTHER -> Deliver(Payload("nil", <<>>))

FirstLine(line) ==
  IF line = <<>> THEN Panic
  ELSE IF Head(line) = Star THEN MultiBulkHeader(line)
  ELSE IF Head(line) = Dollar THEN BulkHeader(line)
  ELSE SingleLine(line)

(* Faulty variant: the count of arguments is off by one. *)
ArgumentLate(s, a) ==
  LET args == Append(s.args, a)
  IN  IF Len(args) > s.expected THEN Deliver(Payload("multi", args))
      ELSE GoOn([s EXCEPT !.args = args, !.bulkLen = 0])

(* The argument just read, and the command if it was the last one.         *)
Argument(s, a) ==
  LET args == Append(s.args, a)
  IN  IF Len(args) = s.expected THEN Deliver(Payload("multi", args))
      ELSE GoOn([s EXCEPT !.args = args, !.bulkLen = 0])

(* readBody: whatever begins with '$' is the length of an argument. *)
Body(s, line) ==
  IF line = <<>> THEN Panic
  ELSE IF Head(line) # Dollar THEN Argument(s, line)
  ELSE IF ~IsInt(Tail(line)) THEN Reject
  ELSE IF IntOf(Tail(line)) <= 0 THEN Argument(s, <<>>)
  ELSE GoOn([s EXCEPT !.bulkLen = IntOf(Tail(line))])

Line(s, line) == IF s.multi THEN Body(s, line) ELSE FirstLine(line)

-----------------------------------------------------------------------------
(* readLine.                                                               *)

HasLine == LF \in ToSet(input)
LineEnd == SelectInSeq(input, LAMBDA byte : byte = LF)

(* A line end alone makes readLine look before the beginning of its slice. *)
ReadLine ==
  /\ status = "run" /\ state.bulkLen = 0 /\ HasLine
  /\ input' = SubSeq(input, LineEnd + 1, Len(input))
  /\ IF LineEnd = 1 THEN Panic
     ELSE IF input[LineEnd - 1] # CR THEN Reject
     ELSE Line(state, SubSeq(input, 1, LineEnd - 2))
  /\ UNCHANGED stream

(* Faulty variant: the body is read up to its first line end. *)
ReadBulkAsLine ==
  /\ status = "run" /\ state.bulkLen # 0 /\ HasLine
  /\ input' = SubSeq(input, LineEnd + 1, Len(input))
  /\ IF LineEnd = 1 THEN Panic
     ELSE Line([state EXCEPT !.bulkLen = 0], SubSeq(input, 1, LineEnd - 2))
  /\ UNCHANGED stream

ReadBulk ==
  /\ status = "run" /\ state.bulkLen # 0 /\ Len(input) >= state.bulkLen + 2
  /\ LET n == state.bulkLen
     IN  /\ input' = SubSeq(input, n + 3, Len(input))
         /\ IF SubSeq(input, n + 1, n + 2) # CRLF THEN Reject
            ELSE Line([state EXCEPT !.bulkLen = 0], SubSeq(input, 1, n))
  /\ UNCHANGED stream

(* Faulty variant: the end inside an argument is no end. *)
ReadEndOfLine ==
  /\ status = "run" /\ state.bulkLen = 0 /\ ~HasLine
  /\ Send(Payload("end", <<>>)) /\ status' = "closed"
  /\ UNCHANGED <<stream, input, state>>

(* io.EOF or io.ErrUnexpectedEOF. *)
ReadEnd ==
  /\ status = "run"
  /\ IF state.bulkLen = 0 THEN ~HasLine ELSE Len(input) < state.bulkLen + 2
  /\ Send(Payload("end", <<>>)) /\ status' = "closed"
  /\ UNCHANGED <<stream, input, state>>

Init ==
  /\ \/ before \in UpTo(Commands, MaxCmds) /\ after \in UpTo(Commands, MaxCmds)
     \/ before \in UpTo(Replies, MaxReplies) /\ after = <<>>
  /\ cut \in 0 .. Len(Written(before))
  /\ input = SubSeq(Written(before), 1, cut) \o Written(after)
  /\ state = Fresh /\ out = <<>> /\ status = "run"

Stopped == status # "run" /\ UNCHANGED vars

Next == ReadLine \/ ReadBulk \/ ReadEnd \/ Stopped

Spec == Init /\ [][Next]_vars /\ WF_vars(Next)

-----------------------------------------------------------------------------
(* Properties.                                                             *)

(* All but the end of the stream, which is sent last. *)
Delivered == IF status = "closed" THEN Front(out) ELSE out

(* A bulk reply is delivered as an array of one element.                   *)
Parsed(ps) ==
  [i \in DOMAIN ps |-> IF ps[i].kind = "bulk" THEN Payload("multi", ps[i].args) ELSE ps[i]]

(* What was written completely before the stop.                            *)
WholeBefore ==
  SubSeq(before, 1, CHOOSE n \in 0 .. Len(before) :
    /\ Len(Written(SubSeq(before, 1, n))) <= cut
    /\ n = Len(before) \/ Len(Written(SubSeq(before, 1, n + 1))) > cut)

(* Nothing was appended to a command that was cut short.                   *)
NotTorn == after = <<>> \/ Len(Written(WholeBefore)) = cut

(* What was written is read back: for every whole command or reply one     *)
(* payload of its kind and with its arguments, in the order they were      *)
(* written, and at a cut nothing of the rest.  A restart relies on it, and *)
(* so does PeerClient, which counts payloads to know whose reply it has    *)
(* (parser.go:44-119, reply.go:18-67).                                     *)
ReadsBack ==
  NotTorn /\ status # "run" => Delivered = Parsed(WholeBefore \o after)

(* What follows a command that was cut short may be read as anything; what *)
(* comes before it is delivered all the same (aof.go:89-124).              *)
PrefixSurvives == status # "run" => IsPrefix(Parsed(WholeBefore), Delivered)

(* parse0 comes to the end of every stream and closes its channel, on      *)
(* which LoadAof and the connection's handler wait.                        *)
ChannelCloses == NotTorn ~> status = "closed"

(* Notebook.md:111: reading bulkLen + 2 bytes makes the parser binary      *)
(* safe: what the bytes of an argument are makes no difference.            *)
BinarySafe ==
  NotTorn /\ status # "run" =>
    Delivered = Parsed(WholeBefore \o after) /\ status = "closed"
=============================================================================
