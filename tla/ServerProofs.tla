---------------------------- MODULE ServerProofs ----------------------------
(***************************************************************************)
(* ListenAndServe does not return while a handler runs, and a Close does   *)
(* not cut off a reply: proofs for any set of connections and any number   *)
(* of requests.                                                            *)
(***************************************************************************)
EXTENDS Server, FiniteSetTheorems, TLAPS

Stages == {"none", "new", "read", "exec", "refuse", "write", "writeError", "stuck", "done"}

(* The connections whose goroutine was started and has not returned. *)
Running == {c \in Conns : handler[c] \notin {"none", "done"}}

(* waitDone counts them; a connection that waits to be accepted has none;  *)
(* after the wait there are none, and nothing starts one.                  *)
CountInv ==
  /\ handler \in [Conns -> Stages]
  /\ \A c \in Conns : net[c] \in {"none", "backlog"} => handler[c] = "none"
  /\ DOMAIN net = Conns
  /\ IsFiniteSet(Running)
  /\ waitDone = Cardinality(Running)
  /\ HandlersFinish

(* What the closer, the clients and the signal do is none of their business. *)
LEMMA CountKept ==
  ASSUME CountInv, UNCHANGED <<handler, waitDone>>, main' = main \/ main' # "returned",
         DOMAIN net' = Conns,
         \A c \in Conns : net'[c] \in {"none", "backlog"} => handler[c] = "none"
  PROVE  CountInv'
BY DEF CountInv, Running, HandlersFinish

(* A handler goes from one stage to the next. *)
LEMMA StageKept ==
  ASSUME CountInv, NEW c \in Conns, NEW s \in Stages \ {"none", "done"},
         handler[c] \notin {"none", "done"}, handler' = [handler EXCEPT ![c] = s],
         UNCHANGED <<main, waitDone, net>>, main # "returned"
  PROVE  CountInv'
<1>1. Running' = Running
  BY DEF CountInv, Running
<1> QED
  BY <1>1 DEF CountInv, HandlersFinish

(* A handler returns, and counts itself off. *)
LEMMA HandlerEnds ==
  ASSUME CountInv, NEW c \in Conns, handler[c] \notin {"none", "done"},
         EndHandler(c)
  PROVE  CountInv'
<1>1. /\ handler' = [handler EXCEPT ![c] = "done"] /\ main # "returned"
      /\ net' = [net EXCEPT ![c] = "shut"] /\ waitDone' = waitDone - 1 /\ main' = main
  BY DEF EndHandler, Go, serving
<1>2. Running' = Running \ {c} /\ c \in Running
  BY <1>1 DEF CountInv, Running
<1>3. IsFiniteSet(Running') /\ Cardinality(Running') = Cardinality(Running) - 1
  BY <1>2, FS_RemoveElement DEF CountInv
<1> QED
  BY <1>1, <1>3 DEF CountInv, Stages, HandlersFinish

LEMMA CountInit == Init => CountInv
<1> SUFFICES ASSUME Init PROVE CountInv
  OBVIOUS
<1>1. Running = {}
  BY DEF Init, Running
<1>2. IsFiniteSet(Running) /\ Cardinality(Running) = 0
  BY <1>1, FS_EmptySet
<1> QED
  BY <1>2 DEF Init, CountInv, Stages, HandlersFinish

LEMMA CountNext == CountInv /\ [Next]_vars => CountInv'
<1> SUFFICES ASSUME CountInv, [Next]_vars PROVE CountInv'
  OBVIOUS
<1>1. ASSUME NEW c \in Conns, Client(c) PROVE CountInv'
  <2>1. UNCHANGED <<handler, waitDone, main>> /\ DOMAIN net' = Conns
        /\ \A d \in Conns : net'[d] \in {"none", "backlog"} => net[d] \in {"none", "backlog"}
    BY <1>1 DEF Client, Connect, Request, Leave, CountInv, serving
  <2> QED
    BY <2>1, CountKept DEF CountInv
<1>2. ASSUME NEW c \in Conns, Accept(c) PROVE CountInv'
  <2>1. /\ handler' = [handler EXCEPT ![c] = "new"] /\ waitDone' = waitDone + 1
        /\ net' = [net EXCEPT ![c] = "open"] /\ main' = "accept" /\ handler[c] = "none"
    BY <1>2 DEF Accept, CountInv, serving
  <2>2. Running' = Running \union {c} /\ c \notin Running
    BY <2>1 DEF CountInv, Running
  <2>3. IsFiniteSet(Running') /\ Cardinality(Running') = Cardinality(Running) + 1
    BY <2>2, FS_AddElement DEF CountInv
  <2> QED
    BY <2>1, <2>3 DEF CountInv, Stages, HandlersFinish
<1>3. CASE Return
  <2>1. Cardinality(Running) = 0 /\ UNCHANGED <<handler, waitDone, net>>
    BY <1>3 DEF Return, CountInv
  <2>2. Running = {}
    BY <2>1, FS_EmptySet DEF CountInv
  <2>3. Running' = Running
    BY <2>1 DEF Running
  <2> QED
    BY <2>1, <2>2, <2>3 DEF CountInv, HandlersFinish, Running
<1>4. CASE Signal \/ AcceptFails
  BY <1>4, CountKept DEF Signal, AcceptFails, CountInv
<1>5. CASE Closer
  <2>1. UNCHANGED <<handler, waitDone, main>> /\ DOMAIN net' = Conns
        /\ \A d \in Conns : net'[d] \in {"none", "backlog"} => net[d] \in {"none", "backlog"}
    BY <1>5 DEF Closer, CloseListener, Visit, RepliesWritten, RepliesTimeOut, Shut,
                RangeEnds, Quiet, CountInv
  <2> QED
    BY <2>1, CountKept DEF CountInv
<1>6. ASSUME NEW c \in Conns, Handler(c) PROVE CountInv'
  <2>1. CASE Register(c)
    BY <2>1, StageKept DEF Register, Go, serving, Stages
  <2>2. CASE Read(c)
    BY <2>2, StageKept DEF Read, Go, serving, Stages
  <2>3. CASE StartWrite(c)
    BY <2>3, StageKept DEF StartWrite, Go, serving, Stages
  <2>4. CASE EndWrite(c)
    BY <2>4, StageKept DEF EndWrite, Writing, Go, serving, Stages
  <2>5. CASE WriteErrorFails(c) \/ ReadFails(c)
    BY <2>5, HandlerEnds DEF WriteErrorFails, ReadFails
  <2> QED
    BY <1>6, <2>1, <2>2, <2>3, <2>4, <2>5 DEF Handler
<1>7. CASE UNCHANGED vars
  BY <1>7, CountKept DEF vars, CountInv
<1> QED
  BY <1>1, <1>2, <1>3, <1>4, <1>5, <1>6, <1>7 DEF Next, Main, Exited

(* The process does not end under a handler: waitDone counts every handler *)
(* from before its goroutine starts until it returns (server.go:59-65).    *)
THEOREM NoHandlerCutOff == Spec => []HandlersFinish
<1>1. CountInv => HandlersFinish
  BY DEF CountInv
<1> QED
  BY <1>1, CountInit, CountNext, PTL DEF Spec

-----------------------------------------------------------------------------
(* The reply that a Close meets.                                           *)

CloserStages == {"wait", "range", "replies", "shut", "done"}

CloserType ==
  /\ closer \in [st : CloserStages, on : Conns \union {None},
                found : SUBSET Conns, left : SUBSET Conns]
  /\ active \subseteq Conns

Closed(c) == net[c] = "shut" \/ (closer.st = "shut" /\ closer.on = c)

(* Already from the moment that the closer stops waiting for the reply. *)
NotCutInv ==
  CountInv /\ CloserType /\ \A c \in Conns : Writing(c) /\ Closed(c) => c \in late

LEMMA NotCutInit == Init => NotCutInv
BY CountInit DEF Init, NotCutInv, CloserType, CloserStages, Writing

(* A step that starts no write and closes nothing. *)
LEMMA NotCutKept ==
  ASSUME NotCutInv, CountInv', CloserType', late \subseteq late',
         \A c \in Conns : Writing(c)' /\ Closed(c)' => Writing(c) /\ Closed(c)
  PROVE  NotCutInv'
BY DEF NotCutInv

LEMMA NotCutNext == NotCutInv /\ [Next]_vars => NotCutInv'
<1> SUFFICES ASSUME NotCutInv, [Next]_vars PROVE NotCutInv'
  OBVIOUS
<1>0. CountInv /\ CloserType /\ CountInv'
  BY CountNext DEF NotCutInv
<1>1. ASSUME NEW c \in Conns, Client(c) PROVE NotCutInv'
  <2>1. UNCHANGED <<handler, closer, active, late>>
        /\ \A d \in Conns : net'[d] = "shut" => net[d] = "shut"
    BY <1>0, <1>1 DEF Client, Connect, Request, Leave, CountInv, serving
  <2> QED
    BY <1>0, <2>1, NotCutKept DEF CloserType, Writing, Closed
<1>2. ASSUME NEW c \in Conns, Accept(c) PROVE NotCutInv'
  <2>1. /\ handler' = [handler EXCEPT ![c] = "new"] /\ net' = [net EXCEPT ![c] = "open"]
        /\ UNCHANGED <<closer, active, late>>
    BY <1>2 DEF Accept, serving
  <2>2. \A d \in Conns : Writing(d)' /\ Closed(d)' => Writing(d) /\ Closed(d)
    BY <1>0, <2>1 DEF CountInv, Writing, Closed
  <2> QED
    BY <1>0, <2>1, <2>2, NotCutKept DEF CloserType
<1>3. CASE Return \/ Signal \/ AcceptFails \/ UNCHANGED vars
  <2>1. UNCHANGED <<handler, net, closer, active, late>>
    BY <1>3 DEF Return, Signal, AcceptFails, vars
  <2> QED
    BY <1>0, <2>1, NotCutKept DEF CloserType, Writing, Closed
<1>4. CASE Closer
  <2>1. UNCHANGED <<handler, active>>
    BY <1>4 DEF Closer, CloseListener, Visit, RepliesWritten, RepliesTimeOut, Shut, RangeEnds, Quiet
  <2>2. ASSUME UNCHANGED <<net, late>>, closer'.st # "shut", CloserType' PROVE NotCutInv'
    BY <1>0, <2>1, <2>2, NotCutKept DEF Writing, Closed
  <2>3. CASE CloseListener
    BY <1>0, <2>1, <2>2, <2>3 DEF CloseListener, CloserType, CloserStages
  <2>4. ASSUME NEW c \in Conns, Visit(c) PROVE NotCutInv'
    <3>1. /\ closer' = [closer EXCEPT !.st = "replies", !.on = c, !.left = @ \ {c}]
          /\ UNCHANGED <<net, late>>
      BY <2>4 DEF Visit
    <3>2. closer' = [st |-> "replies", on |-> c, found |-> closer.found, left |-> closer.left \ {c}]
      BY <1>0, <3>1 DEF CloserType
    <3> QED
      BY <1>0, <2>1, <2>2, <3>1, <3>2 DEF CloserType, CloserStages
  <2>5. CASE RangeEnds
    BY <1>0, <2>1, <2>2, <2>5 DEF RangeEnds, CloserType, CloserStages
  <2>6. CASE RepliesWritten \/ RepliesTimeOut
    <3>1. /\ closer' = [closer EXCEPT !.st = "shut"] /\ net' = net /\ late \subseteq late'
          /\ Writing(closer.on) => closer.on \in late'
      BY <2>6 DEF RepliesWritten, RepliesTimeOut
    <3>2. CloserType' /\ closer'.on = closer.on
      BY <1>0, <2>1, <3>1 DEF CloserType, CloserStages
    <3> QED
      BY <1>0, <2>1, <3>1, <3>2 DEF NotCutInv, Writing, Closed
  <2>7. CASE Shut
    <3>1. /\ closer.st = "shut" /\ closer' = [closer EXCEPT !.st = "range", !.on = None]
          /\ net' = [net EXCEPT ![closer.on] = "shut"] /\ late' = late
      BY <2>7 DEF Shut
    <3>2. CloserType' /\ closer'.st = "range"
      BY <1>0, <2>1, <3>1 DEF CloserType, CloserStages
    <3>3. \A d \in Conns : Writing(d)' /\ Closed(d)' => Writing(d) /\ Closed(d)
      BY <1>0, <2>1, <3>1, <3>2 DEF CountInv, Writing, Closed
    <3> QED
      BY <1>0, <3>1, <3>2, <3>3, NotCutKept
  <2> QED
    BY <1>4, <2>3, <2>4, <2>5, <2>6, <2>7 DEF Closer
<1>5. ASSUME NEW c \in Conns, Handler(c) PROVE NotCutInv'
  <2>1. closer' = closer /\ CloserType'
    BY <1>0, <1>5 DEF Handler, Register, Read, StartWrite, EndWrite, WriteErrorFails, ReadFails,
                      EndHandler, serving, CloserType
  <2>2. ASSUME NEW p \in Stages \ {"write", "writeError"}, handler' = [handler EXCEPT ![c] = p],
               net' = net \/ net' = [net EXCEPT ![c] = "shut"], late' = late
        PROVE  NotCutInv'
    <3>1. \A d \in Conns : Writing(d)' /\ Closed(d)' => Writing(d) /\ Closed(d)
      BY <1>0, <2>1, <2>2 DEF CountInv, Writing, Closed
    <3> QED
      BY <1>0, <2>1, <2>2, <3>1, NotCutKept
  <2>3. CASE Register(c) \/ Read(c) \/ EndWrite(c)
    BY <2>2, <2>3 DEF Register, Read, EndWrite, Go, Stages
  <2>4. CASE WriteErrorFails(c) \/ ReadFails(c)
    BY <2>2, <2>4 DEF WriteErrorFails, ReadFails, EndHandler, Go, Stages, serving
  <2>5. CASE StartWrite(c)
    <3>1. /\ \E p \in {"write", "writeError"} : handler' = [handler EXCEPT ![c] = p]
          /\ late' = IF Closed(c) THEN late \union {c} ELSE late
          /\ net' = net
      BY <2>5 DEF StartWrite, Go, Closed
    <3>2. \A d \in Conns : /\ Closed(d)' <=> Closed(d)
                          /\ Writing(d)' => Writing(d) \/ d = c
      BY <1>0, <2>1, <3>1 DEF CountInv, Writing, Closed
    <3>3. ASSUME NEW d \in Conns, Writing(d)', Closed(d)' PROVE d \in late'
      <4>1. CASE d = c
        BY <2>1, <3>1, <3>3, <4>1 DEF Closed
      <4>2. CASE d # c
        BY <2>1, <3>1, <3>2, <3>3, <4>2 DEF NotCutInv, Closed
      <4> QED
        BY <4>1, <4>2
    <3> QED
      BY <1>0, <2>1, <3>3 DEF NotCutInv
  <2> QED
    BY <1>5, <2>3, <2>4, <2>5 DEF Handler
<1> QED
  BY <1>1, <1>2, <1>3, <1>4, <1>5 DEF Next, Main, Exited

(* A reply whose Write had begun when the connection's Close did is not    *)
(* cut off, unless it takes longer than Close waits: waitingReply is       *)
(* raised before the write and waited for (conn.go:22-51).                 *)
THEOREM RepliesComplete == Spec => []ReplyNotCut
<1>1. NotCutInv => ReplyNotCut
  BY DEF NotCutInv, Closed, ReplyNotCut
<1> QED
  BY <1>1, NotCutInit, NotCutNext, PTL DEF Spec
=============================================================================
