----------------------------- MODULE PeerClient -----------------------------
(***************************************************************************)
(* resp/client: the pipelined client a cluster node keeps for a peer.      *)
(* Send puts a request on the channel pendingReqs and waits at most three  *)
(* seconds; handleWrite writes it and moves it to waitingReqs; one reader  *)
(* per connection gives each reply that arrives to the head of             *)
(* waitingReqs.  When a write fails the writer dials again, which starts   *)
(* a second reader and leaves the first, and waitingReqs, as they are.     *)
(*                                                                         *)
(* The heartbeat goroutine is one more caller: doHeartbeat is Send with    *)
(* the result dropped.  The peer answers the requests of a connection in   *)
(* their order; it is the rest of this program.  The parser makes one      *)
(* payload of each reply, but for some that RespStream shows.  Close is    *)
(* what a pool that destroys a client calls: it is lent to nobody then,    *)
(* but callers may have given up on requests that are still in its queues. *)
(***************************************************************************)
EXTENDS Integers, Sequences

CONSTANTS Callers,    \* goroutines that call Send or doHeartbeat
          MaxReqs,    \* bound: requests sent in a behaviour
          ChanSize,   \* capacity of pendingReqs and of waitingReqs
          MaxTries,   \* times doRequest repairs the connection
          MaxBreaks,  \* bound: connections that break, or that Close closes
          MaxMisread  \* bound: replies that are not read as one payload

ASSUME BoundsAssumption ==
  /\ MaxReqs \in Nat /\ ChanSize \in Nat \ {0} /\ MaxTries \in Nat \ {0}
  /\ MaxBreaks \in Nat /\ MaxMisread \in Nat

Requests == 1 .. MaxReqs
Conns    == 0 .. MaxBreaks
IoError  == 0              \* the reply made of a reader's I/O error
Free     == [st |-> "idle", req |-> 0, tries |-> 0]

VARIABLES
  caller,   \* [st, req]: "idle"; "offer", blocked on pendingReqs; "wait"
  pending,  \* pendingReqs
  waiting,  \* waitingReqs
  writer,   \* [st, req, tries]: "idle"; doRequest is at "write", "dial" or "queue";
            \* "panic", which ends the process
  closing,  \* Close: "open"; "stop", pendingReqs is closed; "conn", client.conn
            \* is closed; "closed", waitingReqs too
  conn,     \* client.conn
  link,     \* "new"; "up"; "down", the other end is gone; "closed", by the writer
  toPeer,   \* requests on their way
  toUs,     \* replies on their way, each named by the request it answers
  reader,   \* [st, got]: "off"; "read"; at finishRequest with a reply, "hand",
            \* or with its last error, "last"; "gone"; "stuck", on a channel
            \* that parse0 left open when it recovered from a panic
  wg,       \* request.waiting
  reply,    \* request.reply
  failed,   \* the requests whose err is set
  result,   \* history: what Send returned
  runs,     \* history: how often the peer ran the request
  nextReq, breaks, misread

calls   == <<caller, result, nextReq>>
queues  == <<pending, waiting>>
request == <<wg, reply, failed>>
wire    == <<conn, link, toPeer, toUs, runs, breaks, misread>>
vars    == <<caller, pending, waiting, writer, closing, conn, link, toPeer, toUs, reader,
             wg, reply, failed, result, runs, nextReq, breaks, misread>>

-----------------------------------------------------------------------------
(* Send and doHeartbeat.                                                   *)

Send(c) ==
  /\ caller[c].st = "idle" /\ closing = "open" /\ nextReq <= MaxReqs
  /\ caller' = [caller EXCEPT ![c] = [st |-> "offer", req |-> nextReq]]
  /\ wg' = [wg EXCEPT ![nextReq] = 1]
  /\ nextReq' = nextReq + 1
  /\ UNCHANGED <<queues, writer, closing, wire, reader, reply, failed, result>>

Answered(c, what) ==
  /\ result' = [result EXCEPT ![caller[c].req] = what]
  /\ caller' = [caller EXCEPT ![c] = [st |-> "idle", req |-> 0]]
  /\ UNCHANGED <<queues, writer, closing, wire, reader, request, nextReq>>

(* A send on a closed channel panics, also one that was waiting already.   *)
Offer(c) ==
  /\ caller[c].st = "offer"
  /\ IF closing # "open" THEN Answered(c, "panic")
     ELSE /\ Len(pending) < ChanSize
          /\ pending' = Append(pending, caller[c].req)
          /\ caller' = [caller EXCEPT ![c].st = "wait"]
          /\ UNCHANGED <<waiting, writer, closing, wire, reader, request, result, nextReq>>

Return(c) ==
  /\ caller[c].st = "wait" /\ wg[caller[c].req] = 0
  /\ Answered(c, IF caller[c].req \in failed THEN "failed" ELSE "reply")

(* Faulty variant: a wait without the timeout. *)
WaitForever(c) == FALSE /\ UNCHANGED vars

(* Faulty variant: whoever gives up takes the request out of waitingReqs. *)
TimeOutWithdraws(c) ==
  /\ caller[c].st = "wait"
  /\ result' = [result EXCEPT ![caller[c].req] = "timeout"]
  /\ waiting' = SelectSeq(waiting, LAMBDA r : r # caller[c].req)
  /\ caller' = [caller EXCEPT ![c] = [st |-> "idle", req |-> 0]]
  /\ UNCHANGED <<pending, writer, closing, wire, reader, request, nextReq>>

(* The request stays where it is, and its reply is still to come. *)
TimeOut(c) == caller[c].st = "wait" /\ Answered(c, "timeout")

-----------------------------------------------------------------------------
(* handleWrite.                                                            *)

Take ==
  /\ writer.st = "idle" /\ pending # <<>>
  /\ writer' = [st |-> "write", req |-> Head(pending), tries |-> 0]
  /\ pending' = Tail(pending)
  /\ UNCHANGED <<calls, waiting, closing, wire, reader, request>>

(* Bytes written to a connection whose other end is gone are lost. *)
WriteSucceeds ==
  /\ writer.st = "write" /\ link[conn] # "closed"
  /\ toPeer' = IF link[conn] = "up" THEN [toPeer EXCEPT ![conn] = Append(@, writer.req)]
               ELSE toPeer
  /\ writer' = [writer EXCEPT !.st = "queue"]
  /\ UNCHANGED <<calls, queues, closing, conn, link, toUs, runs, breaks, misread,
                 reader, request>>

(* The request is given up: err is set and the caller released. *)
Fail ==
  /\ failed' = failed \union {writer.req}
  /\ wg' = [wg EXCEPT ![writer.req] = @ - 1]
  /\ writer' = Free

RepairOrFail(tries) ==
  IF tries < MaxTries
  THEN writer' = [writer EXCEPT !.st = "dial", !.tries = tries] /\ UNCHANGED <<wg, failed>>
  ELSE Fail

(* Faulty variant: a write that was cut short after its last byte. *)
WriteFailsLate ==
  /\ writer.st = "write" /\ link[conn] # "closed"
  /\ toPeer' = [toPeer EXCEPT ![conn] = Append(@, writer.req)]
  /\ link' = [link EXCEPT ![conn] = "down"]
  /\ breaks < MaxBreaks /\ breaks' = breaks + 1
  /\ RepairOrFail(writer.tries)
  /\ UNCHANGED <<calls, queues, closing, conn, toUs, runs, misread, reader, reply>>

WriteFails ==
  /\ writer.st = "write" /\ link[conn] # "up"
  /\ RepairOrFail(writer.tries)
  /\ UNCHANGED <<calls, queues, closing, wire, reader, reply>>

(* handleConnectionError: the old connection is closed, the new one gets a *)
(* reader of its own.                                                      *)
Redial ==
  /\ writer.st = "dial"
  /\ conn' = conn + 1
  /\ link' = [link EXCEPT ![conn] = "closed", ![conn + 1] = "up"]
  /\ reader' = [reader EXCEPT ![conn + 1].st = "read"]
  /\ writer' = [writer EXCEPT !.st = "write", !.tries = @ + 1]
  /\ UNCHANGED <<calls, queues, closing, toPeer, toUs, runs, breaks, misread, request>>

(* Faulty variant: the request that is given up is queued for a reply too. *)
DialFailsAndQueues ==
  /\ writer.st = "dial"
  /\ link' = [link EXCEPT ![conn] = "closed"]
  /\ RepairOrFail(writer.tries + 1)
  /\ waiting' = Append(waiting, writer.req)
  /\ UNCHANGED <<calls, pending, closing, conn, toPeer, toUs, runs, breaks,
                 misread, reader, reply>>

(* Faulty variant: a request is given up although a write succeeded. *)
DialFailsAfterWrite ==
  /\ writer.st \in {"dial", "queue"}
  /\ link' = [link EXCEPT ![conn] = "closed"]
  /\ Fail
  /\ UNCHANGED <<calls, queues, closing, conn, toPeer, toUs, runs, breaks, misread,
                 reader, reply>>

DialFails ==
  /\ writer.st = "dial"
  /\ link' = [link EXCEPT ![conn] = "closed"]
  /\ RepairOrFail(writer.tries + 1)
  /\ UNCHANGED <<calls, queues, closing, conn, toPeer, toUs, runs, breaks, misread,
                 reader, reply>>

(* The reply may be there before the request is in waitingReqs; Close may  *)
(* have closed that.                                                       *)
Queue ==
  /\ writer.st = "queue"
  /\ IF closing = "closed" THEN writer' = [writer EXCEPT !.st = "panic"] /\ UNCHANGED waiting
     ELSE /\ Len(waiting) < ChanSize
          /\ waiting' = Append(waiting, writer.req)
          /\ writer' = Free
  /\ UNCHANGED <<calls, pending, closing, wire, reader, request>>

-----------------------------------------------------------------------------
(* handleRead, one for every connection there ever was.                    *)

Read(k) ==
  /\ reader[k].st = "read" /\ toUs[k] # <<>>
  /\ reader' = [reader EXCEPT ![k] = [st |-> "hand", got |-> Head(toUs[k])]]
  /\ toUs' = [toUs EXCEPT ![k] = Tail(@)]
  /\ UNCHANGED <<calls, queues, closing, writer, conn, link, toPeer, runs, breaks,
                 misread, request>>

(* An empty bulk reply has no line end, so that the next reply is taken    *)
(* for its rest and one error is delivered for both.  An error that quotes *)
(* a line is followed by an empty line, on which the parser panics.        *)
Misread(k) ==
  /\ reader[k].st = "read" /\ misread < MaxMisread
  /\ \/ /\ Len(toUs[k]) > 1
        /\ reader' = [reader EXCEPT ![k] = [st |-> "hand", got |-> IoError]]
        /\ toUs' = [toUs EXCEPT ![k] = Tail(Tail(@))]
     \/ /\ reader[k].got # IoError
        /\ reader' = [reader EXCEPT ![k].st = "stuck"]
        /\ UNCHANGED toUs
  /\ misread' = misread + 1
  /\ UNCHANGED <<calls, queues, closing, writer, conn, link, toPeer, runs, breaks,
                 request>>

(* The parser delivers the error and closes its channel. *)
ReadFails(k) ==
  /\ reader[k].st = "read" /\ link[k] \notin {"new", "up"}
  /\ reader' = [reader EXCEPT ![k] = [st |-> "last", got |-> IoError]]
  /\ UNCHANGED <<calls, queues, closing, writer, wire, request>>

(* finishRequest: the reply, or the error, goes to whoever is first in     *)
(* waitingReqs, and the reader waits there as long as nobody is; a closed  *)
(* channel has a nil for it.                                               *)
Hand(k) ==
  /\ reader[k].st \in {"hand", "last"}
  /\ \/ /\ waiting # <<>>
        /\ reply' = [reply EXCEPT ![Head(waiting)] = reader[k].got]
        /\ wg' = [wg EXCEPT ![Head(waiting)] = @ - 1]
        /\ waiting' = Tail(waiting)
     \/ waiting = <<>> /\ closing = "closed" /\ UNCHANGED <<reply, wg, waiting>>
  /\ reader' = [reader EXCEPT ![k].st = IF @ = "last" THEN "gone" ELSE "read"]
  /\ UNCHANGED <<calls, pending, closing, writer, wire, failed>>

-----------------------------------------------------------------------------
(* Close.                                                                  *)

CloseStart ==
  /\ closing = "open" /\ breaks < MaxBreaks /\ closing' = "stop"
  /\ UNCHANGED <<calls, queues, writer, wire, reader, request>>

CloseConnection ==
  /\ closing = "stop" /\ closing' = "conn"
  /\ link' = [link EXCEPT ![conn] = "closed"]
  /\ UNCHANGED <<calls, queues, writer, conn, toPeer, toUs, runs, breaks, misread,
                 reader, request>>

(* Faulty variant: a Close that waits for nobody. *)
CloseAtOnce == CloseConnection

(* working.Wait: working counts the callers, not their requests. *)
CloseWaited == (\A c \in Callers : caller[c].st = "idle") /\ CloseConnection

CloseEnd ==
  /\ closing = "conn" /\ closing' = "closed"
  /\ UNCHANGED <<calls, queues, writer, wire, reader, request>>

-----------------------------------------------------------------------------
(* The peer and the network.                                               *)

(* What arrived before a break may run after it; its reply is lost. *)
Serve(k) ==
  /\ toPeer[k] # <<>>
  /\ toPeer' = [toPeer EXCEPT ![k] = Tail(@)]
  /\ runs' = [runs EXCEPT ![Head(toPeer[k])] = @ + 1]
  /\ toUs' = IF link[k] = "up" THEN [toUs EXCEPT ![k] = Append(@, Head(toPeer[k]))] ELSE toUs
  /\ UNCHANGED <<calls, queues, closing, writer, conn, link, breaks, misread,
                 reader, request>>

Break(k) ==
  /\ link[k] = "up" /\ breaks + (IF closing = "open" THEN 0 ELSE 1) < MaxBreaks
  /\ link' = [link EXCEPT ![k] = "down"]
  /\ breaks' = breaks + 1
  /\ UNCHANGED <<calls, queues, closing, writer, conn, toPeer, toUs, runs, misread,
                 reader, request>>

-----------------------------------------------------------------------------
Init ==
  /\ caller = [c \in Callers |-> [st |-> "idle", req |-> 0]]
  /\ pending = <<>> /\ waiting = <<>>
  /\ writer = Free /\ closing = "open"
  /\ conn = 0 /\ link = [k \in Conns |-> IF k = 0 THEN "up" ELSE "new"]
  /\ toPeer = [k \in Conns |-> <<>>] /\ toUs = [k \in Conns |-> <<>>]
  /\ reader = [k \in Conns |-> [st |-> IF k = 0 THEN "read" ELSE "off", got |-> 0]]
  /\ wg = [r \in Requests |-> 0] /\ reply = [r \in Requests |-> IoError] /\ failed = {}
  /\ result = [r \in Requests |-> "none"] /\ runs = [r \in Requests |-> 0]
  /\ nextReq = 1 /\ breaks = 0 /\ misread = 0

Leave(c)  == Return(c) \/ TimeOut(c)
Writing   == Take \/ WriteSucceeds \/ WriteFails \/ Redial \/ DialFails \/ Queue
Closing   == CloseStart \/ CloseWaited \/ CloseEnd
Reading(k) == Read(k) \/ Misread(k) \/ ReadFails(k) \/ Hand(k)

(* Nothing is left to send: only waiting is left to do. *)
Done ==
  /\ nextReq > MaxReqs /\ \A c \in Callers : caller[c].st = "idle"
  /\ UNCHANGED vars

Next ==
  \/ \E c \in Callers : Send(c) \/ Offer(c) \/ Leave(c)
  \/ Writing \/ Closing
  \/ \E k \in Conns : Reading(k) \/ Serve(k) \/ Break(k)
  \/ Done

Spec == Init /\ [][Next]_vars

(* Goroutines that can go on do; senders blocked on a Go channel are       *)
(* served in the order they came; the peer answers what it receives.       *)
Fairness ==
  /\ \A c \in Callers : SF_vars(Offer(c)) /\ WF_vars(Leave(c))
  /\ WF_vars(Writing)
  /\ \A k \in Conns : WF_vars(Reading(k)) /\ WF_vars(link[k] = "up" /\ Serve(k))

FairSpec == Spec /\ Fairness

-----------------------------------------------------------------------------
(* Properties.                                                             *)

(* As long as the connection holds and its replies are read one by one,    *)
(* Send returns the reply to its own request or none: whatever requests    *)
(* timed out before it, late replies find the request that gave up on them *)
(* (client.go:119-137, 175-190).                                           *)
OwnReply ==
  breaks = 0 /\ misread = 0 => \A r \in Requests : result[r] = "reply" => reply[r] = r

(* The same without the condition: waitingReqs holds the requests that     *)
(* wait for their response (client.go:19).                                 *)
RepliesPaired ==
  \A r \in Requests : result[r] = "reply" => reply[r] \in {r, IoError}

(* doRequest writes a request again only when the first write failed, so   *)
(* the peer never runs it twice (client.go:158-166).                       *)
RunOnce == \A r \in Requests : runs[r] <= 1

(* "request failed" means that the peer has not run the request and will   *)
(* not: it is safe to send it again.  ("server time out" means nothing.)   *)
FailedNotRun ==
  \A r \in failed :
    runs[r] = 0 /\ \A k \in Conns : \A i \in 1 .. Len(toPeer[k]) : toPeer[k][i] # r

(* Done is called once for each Add: twice would panic in the writer or in *)
(* a reader, on which nobody recovers the writer.                          *)
DoneOnce == \A r \in Requests : wg[r] \in {0, 1}

(* Every Send returns, also when the reply was lost with its connection or *)
(* the reader is stuck; unless both channels are full of requests that get *)
(* no reply, for the wait that has a timeout comes after the one on        *)
(* pendingReqs.                                                            *)
SendReturns ==
  \A c \in Callers :
    caller[c].st # "idle" ~>
      \/ caller[c].st = "idle"
      \/ breaks + misread > 0 /\ Len(pending) = ChanSize /\ Len(waiting) = ChanSize

(* Close has no other way to know that nobody uses the queues than that    *)
(* nobody waits for a reply: the writer meets a closed waitingReqs, which  *)
(* ends the process, only with a request whose caller gave up              *)
(* (client.go:70-81, 167-168).                                             *)
ClosesCleanly ==
  writer.st = "panic" => result[writer.req] = "timeout"
=============================================================================
