------------------------------- MODULE Server -------------------------------
(***************************************************************************)
(* tcp.ListenAndServe, resp/handler and resp/connection: connections are   *)
(* accepted and served by a goroutine each until their clients leave or a  *)
(* signal shuts the server down.  What the commands do is Standalone's.    *)
(*                                                                         *)
(* On a signal the closer goroutine closes the listener and then every     *)
(* connection it finds in activeConn, one after the other: each when no    *)
(* reply is being written to it, or after ten seconds.  ListenAndServe     *)
(* returns when all handlers have.                                         *)
(***************************************************************************)
EXTENDS Integers, FiniteSets

CONSTANTS Conns,   \* the connections that clients may open
          MaxReqs, \* bound: requests sent on a connection
          None

ASSUME BoundsAssumption == MaxReqs \in Nat
ASSUME NoneAssumption == None \notin Conns

VARIABLES
  listening, \* the listener is open
  main,      \* ListenAndServe: "accept"; "drain", in waitDone.Wait; "returned"
  waitDone,  \* the WaitGroup's counter
  signal,    \* a signal has arrived
  closer,    \* [st, on, found, left]: "wait" for the signal; "range" over the
             \* connections found in activeConn, of which some are left; in
             \* Connection.Close of "on", "replies" and then "shut"; "done"
  net,       \* "none"; "backlog", not accepted yet; "open"; "left" by its
             \* client; "shut" by the server
  handler,   \* "none"; "new"; "read"; "exec", a command; "refuse", a protocol
             \* error; "write" of a reply; "writeError"; "stuck", its parser
             \* has died; "done"
  active,    \* activeConn
  queued,    \* requests that have arrived and were not read
  sent,      \* requests sent so far
  late       \* history: connections whose Close did not, or could not, wait
             \* for the reply being written

vars == <<listening, main, waitDone, signal, closer, net, handler, active,
          queued, sent, late>>
serving == <<listening, main, signal, closer>>

-----------------------------------------------------------------------------
(* Clients.                                                                *)

Connect(c) ==
  /\ net[c] = "none" /\ listening
  /\ net' = [net EXCEPT ![c] = "backlog"]
  /\ UNCHANGED <<serving, waitDone, handler, active, queued, sent, late>>

Request(c) ==
  /\ net[c] = "open" /\ sent[c] < MaxReqs
  /\ sent' = [sent EXCEPT ![c] = @ + 1]
  /\ queued' = [queued EXCEPT ![c] = @ + 1]
  /\ UNCHANGED <<serving, waitDone, net, handler, active, late>>

Leave(c) ==
  /\ net[c] = "open"
  /\ net' = [net EXCEPT ![c] = "left"]
  /\ UNCHANGED <<serving, waitDone, handler, active, queued, sent, late>>

Signal ==
  /\ ~signal /\ main # "returned" /\ signal' = TRUE
  /\ UNCHANGED <<listening, main, closer, waitDone, net, handler, active, queued, sent, late>>

-----------------------------------------------------------------------------
(* ListenAndServe.                                                         *)

(* Faulty variant: the goroutine counts itself when it gets to run. *)
AcceptUncounted(c) ==
  /\ main = "accept" /\ listening /\ net[c] = "backlog"
  /\ net' = [net EXCEPT ![c] = "open"]
  /\ handler' = [handler EXCEPT ![c] = "new"]
  /\ UNCHANGED <<serving, waitDone, active, queued, sent, late>>

Accept(c) ==
  /\ main = "accept" /\ listening /\ net[c] = "backlog"
  /\ net' = [net EXCEPT ![c] = "open"]
  /\ waitDone' = waitDone + 1
  /\ handler' = [handler EXCEPT ![c] = "new"]
  /\ UNCHANGED <<serving, active, queued, sent, late>>

(* Accept fails when the listener is closed, and may fail before. *)
AcceptFails ==
  /\ main = "accept" /\ main' = "drain"
  /\ UNCHANGED <<listening, signal, closer, waitDone, net, handler, active, queued, sent, late>>

(* The deferred closes find no connection in activeConn any more. *)
Return ==
  /\ main = "drain" /\ waitDone = 0
  /\ main' = "returned" /\ listening' = FALSE
  /\ UNCHANGED <<signal, closer, waitDone, net, handler, active, queued, sent, late>>

-----------------------------------------------------------------------------
(* The closer goroutine: listener.Close, then RespHandler.Close.           *)

Quiet == /\ main # "returned"
         /\ UNCHANGED <<main, signal, waitDone, handler, active, queued, sent>>

Writing(c) == handler[c] \in {"write", "writeError"}

CloseListener ==
  /\ closer.st = "wait" /\ signal
  /\ listening' = FALSE
  /\ closer' = [st |-> "range", on |-> None, found |-> active, left |-> active]
  /\ UNCHANGED <<net, late>> /\ Quiet

(* Faulty variant: a connection that is being served is passed over. *)
VisitIdle(c) ==
  /\ closer.st = "range" /\ c \in active \intersect closer.left
  /\ closer' = IF handler[c] = "read"
               THEN [closer EXCEPT !.st = "replies", !.on = c, !.left = @ \ {c}]
               ELSE [closer EXCEPT !.left = @ \ {c}]
  /\ UNCHANGED <<listening, net, late>> /\ Quiet

(* sync.Map.Range visits the connections that were there when it began and *)
(* are still there; one stored since, it may miss (and here it does).      *)
Visit(c) ==
  /\ closer.st = "range" /\ c \in active \intersect closer.left
  /\ closer' = [closer EXCEPT !.st = "replies", !.on = c, !.left = @ \ {c}]
  /\ UNCHANGED <<listening, net, late>> /\ Quiet

(* Faulty variant: Close does not wait. *)
RepliesNotAwaited ==
  /\ closer.st = "replies"
  /\ closer' = [closer EXCEPT !.st = "shut"]
  /\ UNCHANGED <<listening, net, late>> /\ Quiet

RepliesWritten ==
  /\ closer.st = "replies" /\ ~Writing(closer.on)
  /\ closer' = [closer EXCEPT !.st = "shut"]
  /\ UNCHANGED <<listening, net, late>> /\ Quiet

(* Ten seconds have passed. *)
RepliesTimeOut ==
  /\ closer.st = "replies" /\ Writing(closer.on)
  /\ closer' = [closer EXCEPT !.st = "shut"]
  /\ late' = late \union {closer.on}
  /\ UNCHANGED <<listening, net>> /\ Quiet

Shut ==
  /\ closer.st = "shut"
  /\ net' = [net EXCEPT ![closer.on] = "shut"]
  /\ closer' = [closer EXCEPT !.st = "range", !.on = None]
  /\ UNCHANGED <<listening, late>> /\ Quiet

RangeEnds ==
  /\ closer.st = "range" /\ active \intersect closer.left = {}
  /\ closer' = [closer EXCEPT !.st = "done"]
  /\ UNCHANGED <<listening, net, late>> /\ Quiet

-----------------------------------------------------------------------------
(* RespHandler.Handler.  The flag "closing" is read and never set.         *)

Go(c, p) == main # "returned" /\ handler' = [handler EXCEPT ![c] = p]

Register(c) ==
  /\ handler[c] = "new" /\ Go(c, "read")
  /\ active' = active \union {c}
  /\ UNCHANGED <<serving, waitDone, net, queued, sent, late>>

(* What the parser makes of what arrived: a command, a protocol error, a   *)
(* payload without a reply, or a panic that leaves its channel open        *)
(* (RespStream).  It may be read after the end of the connection.          *)
Read(c) ==
  /\ handler[c] = "read" /\ queued[c] > 0
  /\ \E p \in {"exec", "refuse", "read", "stuck"} : Go(c, p)
  /\ queued' = [queued EXCEPT ![c] = @ - 1]
  /\ UNCHANGED <<serving, waitDone, net, active, sent, late>>

StartWrite(c) ==
  /\ \/ handler[c] = "exec" /\ Go(c, "write")
     \/ handler[c] = "refuse" /\ Go(c, "writeError")
  /\ late' = IF net[c] = "shut" \/ (closer.st = "shut" /\ closer.on = c)
             THEN late \union {c} ELSE late
  /\ UNCHANGED <<serving, waitDone, net, active, queued, sent>>

(* The result of writing a command's reply is not looked at.               *)
EndWrite(c) ==
  /\ Writing(c) /\ Go(c, "read")
  /\ handler[c] = "writeError" => net[c] # "shut"
  /\ UNCHANGED <<serving, waitDone, net, active, queued, sent, late>>

(* closeClient and return. *)
EndHandler(c) ==
  /\ Go(c, "done")
  /\ net' = [net EXCEPT ![c] = "shut"]
  /\ active' = active \ {c} /\ waitDone' = waitDone - 1
  /\ UNCHANGED <<serving, queued, sent, late>>

WriteErrorFails(c) ==
  /\ handler[c] = "writeError" /\ net[c] \in {"left", "shut"}
  /\ EndHandler(c)

(* EOF, or "use of closed network connection".                             *)
ReadFails(c) ==
  /\ handler[c] = "read"
  /\ net[c] = "shut" \/ (net[c] = "left" /\ queued[c] = 0)
  /\ EndHandler(c)

-----------------------------------------------------------------------------
Init ==
  /\ listening = TRUE /\ main = "accept" /\ waitDone = 0 /\ signal = FALSE
  /\ closer = [st |-> "wait", on |-> None, found |-> {}, left |-> {}]
  /\ net = [c \in Conns |-> "none"] /\ handler = [c \in Conns |-> "none"]
  /\ active = {} /\ queued = [c \in Conns |-> 0] /\ sent = [c \in Conns |-> 0]
  /\ late = {}

Client(c)  == Connect(c) \/ Request(c) \/ Leave(c)
Handler(c) == Register(c) \/ Read(c) \/ StartWrite(c) \/ EndWrite(c)
              \/ WriteErrorFails(c) \/ ReadFails(c)
Main       == (\E c \in Conns : Accept(c)) \/ Return
Closer     == CloseListener \/ (\E c \in Conns : Visit(c)) \/ RepliesWritten
              \/ RepliesTimeOut \/ Shut \/ RangeEnds

(* The process ends with main. *)
Exited == main = "returned" /\ UNCHANGED vars

Next ==
  \/ \E c \in Conns : Client(c) \/ Handler(c)
  \/ Signal \/ Main \/ AcceptFails \/ Closer \/ Exited

Spec == Init /\ [][Next]_vars

(* Goroutines that can go on do, a closed listener fails Accept, and the   *)
(* writes end; clients do nothing they need not do.                        *)
FairSpec ==
  /\ Spec
  /\ WF_vars(Main) /\ WF_vars(Closer) /\ WF_vars(~listening /\ AcceptFails)
  /\ \A c \in Conns : WF_vars(Handler(c))

-----------------------------------------------------------------------------
(* Properties.                                                             *)

(* The process does not end under a handler: a command that was begun is   *)
(* finished and logged (server.go:52, "防止连接中断导致业务中断").         *)
HandlersFinish ==
  main = "returned" => \A c \in Conns : handler[c] \in {"none", "done"}

(* A reply whose Write had begun when the connection's Close did is not    *)
(* cut off, unless it takes ten seconds (conn.go:47-51, Notebook.md:64).   *)
ReplyNotCut ==
  \A c \in Conns : Writing(c) /\ net[c] = "shut" => c \in late

(* After a signal the server stops; unless a connection was accepted but   *)
(* not yet in activeConn when the closer looked, and its client stays, or  *)
(* a parser has died, whose handler waits for ever.                        *)
StopsAfterSignal ==
  signal ~> \/ main = "returned"
            \/ closer.st = "done" /\ \E c \in Conns \ closer.found : net[c] = "open"
            \/ \E c \in Conns : handler[c] = "stuck"
=============================================================================
