-------------------------- MODULE StandaloneProofs --------------------------
(***************************************************************************)
(* Proofs about Standalone, for any number of connections, keys,           *)
(* databases, commands and crashes.                                        *)
(***************************************************************************)
EXTENDS Standalone, SequenceTheorems, TLAPS

-----------------------------------------------------------------------------
(* What a handler's locals and the file's records look like beyond their   *)
(* types: arguments are there when a handler reads them, and only a        *)
(* writing command gets past its first step.                               *)
Formed(p, t) ==
  /\ WellFormed(t)
  /\ t.op \in {"exists", "del"} => t.i \in 1 .. Len(t.keys)
  /\ t.op \notin {"exists", "del"} => t.i = 1
  /\ p \notin {"idle", "exec"} => t.op \in Writers
  /\ p = "source" => t.op = "renamenx"

TaskFormed == \A c \in Clients : Formed(pc[c], task[c])

LogFormed == \A j \in 1 .. Len(log) : WellFormed(log[j])

TypeInv == TypeOK /\ TaskFormed /\ LogFormed

(* Advancing a handler keeps the types of its location and its locals.     *)
LEMMA GoType ==
  ASSUME TypeInv, NEW c \in Clients, NEW p \in Pcs, NEW t \in Tasks, Go(c, p, t)
  PROVE  /\ pc' \in [Clients -> Pcs] /\ task' \in [Clients -> Tasks]
         /\ pc'[c] = p /\ task'[c] = t
         /\ \A o \in Clients \ {c} : pc'[o] = pc[o] /\ task'[o] = task[o]
BY DEF TypeInv, TypeOK, Go

LEMMA NoTaskType == NoTask \in Tasks /\ Formed("idle", NoTask)
BY DEF NoTask, Tasks, Ops, Stateless, Nil, WellFormed, Formed

(* Returning from a handler keeps the types of all that it changes.        *)
LEMMA FinishType ==
  ASSUME TypeInv, NEW c \in Clients, NEW r \in Replies, Finish(c, r)
  PROVE  /\ pc' \in [Clients -> Pcs] /\ task' \in [Clients -> Tasks]
         /\ pc'[c] = "idle" /\ task'[c] = NoTask
         /\ \A o \in Clients \ {c} : pc'[o] = pc[o] /\ task'[o] = task[o]
         /\ answered' \in SUBSET [id : Nat, db : DBs, op : Ops, keys : Seq(Keys),
                                  reply : Replies]
<1>1. Go(c, "idle", NoTask)
  BY DEF Finish
<1>2. "idle" \in Pcs
  BY DEF Pcs
<1>3. task[c] \in Tasks /\ sel[c] \in DBs
  BY DEF TypeInv, TypeOK
<1>4. answered' \in SUBSET [id : Nat, db : DBs, op : Ops, keys : Seq(Keys), reply : Replies]
  BY <1>3 DEF Finish, Tasks, TypeInv, TypeOK
<1> QED
  BY <1>1, <1>2, <1>4, GoType, NoTaskType

(* A Store keeps the databases' type, whatever the key.                    *)
LEMMA StoreType ==
  ASSUME TypeInv, NEW c \in Clients, NEW k, NEW v \in Nat, StoreTo(c, k, v)
  PROVE  mem' \in [DBs -> Dicts]
BY DEF TypeInv, TypeOK, StoreTo, Assign, Dicts

(* The entity a handler finds under one of its arguments.                  *)
LEMMA ArgType ==
  ASSUME TypeInv, NEW c \in Clients, NEW j \in 1 .. Len(task[c].keys)
  PROVE  Arg(c, j) \in Keys /\ Stored(c, Arg(c, j)) \in Nat
<1>1. task[c].keys \in Seq(Keys) /\ sel[c] \in DBs /\ mem[sel[c]] \in [Keys -> Nat]
  BY DEF TypeInv, TypeOK, Tasks, Dicts
<1>2. Arg(c, j) \in Keys
  BY <1>1 DEF Arg
<1> QED
  BY <1>1, <1>2 DEF Stored

LEMMA FirstArgType ==
  ASSUME TypeInv, NEW c \in Clients, Len(task[c].keys) \in {1, 2}
  PROVE  Stored(c, Arg(c, 1)) \in Nat
<1>1. \A n \in {1, 2} : 1 \in 1 .. n
  OBVIOUS
<1>2. 1 \in 1 .. Len(task[c].keys)
  BY <1>1
<1> QED
  BY <1>2, ArgType

LEMMA ReplyType ==
  /\ OkReply \in Replies /\ ErrReply \in Replies /\ UnknownReply \in Replies
  /\ \A n \in Nat : IntReply(n) \in Replies /\ BulkReply(n) \in Replies
  /\ \A S \in SUBSET Keys : MultiReply(S) \in Replies
BY DEF OkReply, ErrReply, UnknownReply, IntReply, BulkReply, MultiReply, Reply, Replies

(* A step of one handler that only moves it on, or returns, and perhaps    *)
(* touches the dictionaries.                                               *)
LEMMA HandlerStep ==
  ASSUME TypeInv, NEW c \in Clients,
         mem' \in [DBs -> Dicts], broken' \in SUBSET DBs,
         UNCHANGED <<aof, boot, sel, nextId>>,
         \/ /\ UNCHANGED answered
            /\ \E p \in Pcs, t \in Tasks : Formed(p, t) /\ Go(c, p, t)
         \/ \E r \in Replies : Finish(c, r)
  PROVE  TypeInv'
<1>1. /\ pc' \in [Clients -> Pcs] /\ task' \in [Clients -> Tasks]
      /\ Formed(pc'[c], task'[c])
      /\ \A o \in Clients \ {c} : pc'[o] = pc[o] /\ task'[o] = task[o]
      /\ answered' \in SUBSET [id : Nat, db : DBs, op : Ops, keys : Seq(Keys),
                               reply : Replies]
  <2>1. CASE UNCHANGED answered /\ \E p \in Pcs, t \in Tasks : Formed(p, t) /\ Go(c, p, t)
    <3>1. PICK p \in Pcs, t \in Tasks : Formed(p, t) /\ Go(c, p, t)
      BY <2>1
    <3> QED
      BY <2>1, <3>1, GoType DEF TypeInv, TypeOK
  <2>2. CASE \E r \in Replies : Finish(c, r)
    BY <2>2, FinishType, NoTaskType
  <2> QED
    BY <2>1, <2>2
<1>2. TypeOK'
  BY <1>1 DEF TypeInv, TypeOK, aof, boot
<1>3. TaskFormed'
  BY <1>1 DEF TypeInv, TaskFormed
<1>4. LogFormed'
  BY DEF TypeInv, LogFormed, aof
<1> QED
  BY <1>2, <1>3, <1>4 DEF TypeInv

LEMMA TypeInit == Init => TypeInv
<1> SUFFICES ASSUME Init PROVE TypeInv
  OBVIOUS
<1>1. TypeOK
  <2>1. Empty \in Dicts /\ 0 \in DBs
    BY NumDBAssumption DEF Empty, Dicts, Nil, DBs
  <2> QED
    BY <2>1, NoTaskType DEF Init, TypeOK, Pcs
<1>2. TaskFormed
  BY NoTaskType DEF Init, TaskFormed
<1>3. LogFormed
  BY DEF Init, LogFormed
<1> QED
  BY <1>1, <1>2, <1>3 DEF TypeInv

-----------------------------------------------------------------------------
(* Every handler step keeps the types.                                     *)
LEMMA ReaderStep ==
  ASSUME TypeInv, NEW c \in Clients,
         ExecStateless(c) \/ ExecGet(c) \/ ExecExists(c) \/ ExecKeys(c)
  PROVE  TypeInv'
<1>1. mem \in [DBs -> Dicts] /\ broken \in SUBSET DBs
  BY DEF TypeInv, TypeOK
<1>2. task[c] \in Tasks /\ Formed(pc[c], task[c]) /\ "exec" \in Pcs
  BY DEF TypeInv, TypeOK, TaskFormed, Pcs, InDict
<1>3. CASE ExecStateless(c)
  <2>1. Answer(task[c].op, task[c].keys, Empty) \in Replies
    BY <1>3, ReplyType DEF ExecStateless, Answer, Stateless
  <2> QED
    BY <1>1, <1>3, <2>1, HandlerStep DEF ExecStateless, data
<1>4. CASE ExecGet(c)
  <2>1. Len(task[c].keys) \in {1, 2}
    BY <1>2, <1>4 DEF ExecGet, Runs, Formed, WellFormed
  <2>2. BulkReply(Stored(c, Arg(c, 1))) \in Replies
    BY <2>1, FirstArgType, ReplyType
  <2> QED
    BY <1>1, <1>4, <2>2, HandlerStep DEF ExecGet, data
<1>5. CASE ExecExists(c)
  <2> DEFINE n == task[c].n + (IF Stored(c, Arg(c, task[c].i)) = Nil THEN 0 ELSE 1)
             t == [task[c] EXCEPT !.i = @ + 1, !.n = n]
  <2>1. n \in Nat /\ IntReply(n) \in Replies
    BY <1>2, ReplyType DEF Tasks
  <2> HIDE DEF n
  <2>2. CASE task[c].i = Len(task[c].keys)
    BY <1>1, <1>5, <2>1, <2>2, HandlerStep DEF ExecExists, data, n
  <2>3. CASE task[c].i # Len(task[c].keys)
    <3>1. t \in Tasks /\ Formed("exec", t)
      <4>1. task[c].op = "exists" /\ task[c].i \in 1 .. Len(task[c].keys)
            /\ task[c].i + 1 \in 1 .. Len(task[c].keys)
        BY <1>2, <1>5, <2>3 DEF ExecExists, Runs, Formed, Tasks
      <4>2. task[c].i + 1 \in Nat
        BY <4>1
      <4>3. t \in Tasks /\ t.op = "exists" /\ t.keys = task[c].keys /\ t.i = task[c].i + 1
        BY <1>2, <2>1, <4>1, <4>2 DEF Tasks
      <4> QED
        BY <1>2, <4>1, <4>3 DEF Formed, WellFormed
    <3> QED
      BY <1>1, <1>2, <1>5, <2>3, <3>1, HandlerStep DEF ExecExists, data, n
  <2> QED
    BY <2>2, <2>3
<1>6. CASE ExecKeys(c)
  <2>1. CASE Finish(c, MultiReply(task[c].hit))
    <3>1. MultiReply(task[c].hit) \in Replies
      BY <1>2, ReplyType DEF Tasks
    <3> QED
      BY <1>1, <1>6, <2>1, <3>1, HandlerStep DEF ExecKeys, data
  <2>2. CASE ~Finish(c, MultiReply(task[c].hit))
    <3>1. PICK k \in Range(task[c].keys) \ task[c].seen :
            /\ Go(c, "exec", [task[c] EXCEPT !.seen = @ \union {k},
                    !.hit = IF Stored(c, k) = Nil THEN @ ELSE @ \union {k}])
            /\ UNCHANGED answered
      BY <1>6, <2>2 DEF ExecKeys
    <3> DEFINE t == [task[c] EXCEPT !.seen = @ \union {k},
                    !.hit = IF Stored(c, k) = Nil THEN @ ELSE @ \union {k}]
    <3>2. k \in Keys
      BY <1>2, <3>1 DEF Tasks, Range
    <3>3. t \in Tasks /\ t.op = task[c].op /\ t.keys = task[c].keys /\ t.i = task[c].i
      BY <1>2, <3>2 DEF Tasks
    <3>4. Formed("exec", t)
      BY <1>2, <3>3 DEF Formed, WellFormed
    <3> QED
      BY <1>1, <1>2, <1>6, <3>1, <3>3, <3>4, HandlerStep DEF ExecKeys, data
  <2> QED
    BY <2>1, <2>2
<1> QED
  BY <1>3, <1>4, <1>5, <1>6

(* Moving on with new values in some locals, the command unchanged.        *)
LEMMA SameCommand ==
  ASSUME NEW t \in Tasks, NEW u \in Tasks, NEW p, NEW q,
         Formed(p, t), u.op = t.op, u.keys = t.keys, u.i = t.i,
         q \in {"idle", "exec"} \/ t.op \in Writers, q # "source" \/ t.op = "renamenx"
  PROVE  Formed(q, u)
BY DEF Formed, WellFormed

LEMMA WriterStep ==
  ASSUME TypeInv, NEW c \in Clients,
         ExecSet(c) \/ ExecSetnx(c) \/ ExecGetset(c) \/ ExecRename(c)
           \/ ExecRenamenx(c) \/ RenamenxSource(c) \/ Put(c)
  PROVE  TypeInv'
<1>1. mem \in [DBs -> Dicts] /\ broken \in SUBSET DBs
  BY DEF TypeInv, TypeOK
<1>2. /\ task[c] \in Tasks /\ Formed(pc[c], task[c])
      /\ {"lock", "put", "source", "remove"} \subseteq Pcs
  BY DEF TypeInv, TypeOK, TaskFormed, Pcs, InDict
<1>3. task[c].id \in Nat /\ task[c].ent \in Nat
  BY <1>2 DEF Tasks
<1>4. CASE ExecSet(c)
  <2>1. mem' \in [DBs -> Dicts]
    BY <1>3, <1>4, StoreType DEF ExecSet
  <2>2. Formed("lock", task[c])
    BY <1>2, <1>4 DEF ExecSet, Runs, Formed, Writers
  <2> QED
    BY <1>1, <1>2, <1>4, <2>1, <2>2, HandlerStep DEF ExecSet
<1>5. CASE ExecSetnx(c)
  <2> DEFINE t == [task[c] EXCEPT !.n = 1]
  <2>1. task[c].op \in Writers
    BY <1>5 DEF ExecSetnx, Runs, Writers
  <2>2. t \in Tasks /\ Formed("put", t) /\ Formed("lock", task[c])
    BY <1>2, <2>1, SameCommand DEF Tasks
  <2>3. mem' \in [DBs -> Dicts]
    BY <1>1, <1>3, <1>5, StoreType DEF ExecSetnx
  <2> QED
    BY <1>1, <1>2, <1>5, <2>2, <2>3, HandlerStep DEF ExecSetnx
<1>6. CASE ExecGetset(c)
  <2> DEFINE t == [task[c] EXCEPT !.ent = Stored(c, Arg(c, 1))]
  <2>1. task[c].op = "getset" /\ task[c].op \in Writers /\ Len(task[c].keys) \in {1, 2}
    BY <1>2, <1>6 DEF ExecGetset, Runs, Writers, Formed, WellFormed
  <2>2. Stored(c, Arg(c, 1)) \in Nat
    BY <2>1, FirstArgType
  <2>3. t \in Tasks /\ Formed("put", t)
    BY <1>2, <2>1, <2>2, SameCommand DEF Tasks
  <2> QED
    BY <1>1, <1>2, <1>6, <2>3, HandlerStep DEF ExecGetset, data
<1>7. CASE ExecRename(c)
  <2> DEFINE t == [task[c] EXCEPT !.ent = Stored(c, Arg(c, 1))]
  <2>1. task[c].op = "rename" /\ task[c].op \in Writers /\ Len(task[c].keys) \in {1, 2}
    BY <1>2, <1>7 DEF ExecRename, Runs, Writers, Formed, WellFormed
  <2>2. Stored(c, Arg(c, 1)) \in Nat
    BY <2>1, FirstArgType
  <2>3. t \in Tasks /\ Formed("put", t)
    BY <1>2, <2>1, <2>2, SameCommand DEF Tasks
  <2> QED
    BY <1>1, <1>2, <1>7, <2>3, HandlerStep, ReplyType DEF ExecRename, data
<1>8. CASE ExecRenamenx(c)
  <2>1. task[c].op = "renamenx" /\ task[c].op \in Writers
    BY <1>8 DEF ExecRenamenx, Runs, Writers
  <2>2. Formed("source", task[c])
    BY <1>2, <2>1, SameCommand
  <2>3. IntReply(0) \in Replies
    BY ReplyType
  <2> QED
    BY <1>1, <1>2, <1>8, <2>2, <2>3, HandlerStep DEF ExecRenamenx, data
<1>9. CASE RenamenxSource(c)
  <2> DEFINE t == [task[c] EXCEPT !.ent = Stored(c, Arg(c, 1)), !.n = 1]
  <2>1. task[c].op \in Writers /\ Len(task[c].keys) \in {1, 2}
    BY <1>2, <1>9 DEF RenamenxSource, At, Formed, WellFormed
  <2>2. CASE Stored(c, Arg(c, 1)) = Nil
    BY <1>1, <1>9, <2>2, HandlerStep, ReplyType DEF RenamenxSource, data
  <2>3. CASE Stored(c, Arg(c, 1)) # Nil
    <3>1. Stored(c, Arg(c, 1)) \in Nat
      BY <2>1, FirstArgType
    <3>2. t \in Tasks /\ t.op = task[c].op /\ t.keys = task[c].keys /\ t.i = task[c].i
      BY <1>2, <3>1 DEF Tasks
    <3>3. Formed("put", t)
      BY <1>2, <2>1, <3>2, SameCommand
    <3> QED
      BY <1>1, <1>2, <1>9, <2>3, <3>2, <3>3, HandlerStep DEF RenamenxSource, data
  <2> QED
    BY <2>2, <2>3
<1>10. CASE Put(c)
  <2>1. task[c].op \in Writers
    BY <1>2, <1>10 DEF Put, At, Formed
  <2>2. Formed("remove", task[c]) /\ Formed("lock", task[c])
    BY <1>2, <2>1, SameCommand
  <2>3. mem' \in [DBs -> Dicts]
    BY <1>3, <1>10, StoreType DEF Put
  <2> QED
    BY <1>1, <1>2, <1>10, <2>2, <2>3, HandlerStep DEF Put
<1> QED
  BY <1>4, <1>5, <1>6, <1>7, <1>8, <1>9, <1>10

(* What follows one Remove.                                                *)
LEMMA RemovedStep ==
  ASSUME TypeInv, NEW c \in Clients, NEW t \in Tasks, Removed(c, t),
         t.op = task[c].op, t.keys = task[c].keys, t.i = task[c].i,
         task[c].op = "del" \/ task[c].op \in Writers,
         mem' \in [DBs -> Dicts], broken' \in SUBSET DBs,
         UNCHANGED <<aof, boot, sel, nextId>>
  PROVE  TypeInv'
<1>1. Formed(pc[c], task[c]) /\ t.op \in Writers /\ task[c] \in Tasks
  BY DEF TypeInv, TypeOK, TaskFormed, Writers
<1>2. Formed("lock", t) /\ {"lock", "exec"} \subseteq Pcs
  BY <1>1, SameCommand DEF Pcs, InDict
<1>3. CASE t.op = "del" /\ t.i < Len(t.keys)
  <2> DEFINE u == [t EXCEPT !.i = @ + 1]
  <2>1. t.i \in 1 .. Len(t.keys) /\ t.i + 1 \in 1 .. Len(t.keys) /\ t.i + 1 \in Nat
    BY <1>1, <1>3 DEF Formed, Tasks
  <2>2. u \in Tasks /\ u.op = "del" /\ u.keys = t.keys /\ u.i = t.i + 1
    BY <1>3, <2>1 DEF Tasks
  <2>3. Formed("exec", u)
    BY <1>1, <2>1, <2>2 DEF Formed, WellFormed
  <2>4. Go(c, "exec", u) /\ UNCHANGED answered
    BY <1>3 DEF Removed
  <2> QED
    BY <1>2, <2>2, <2>3, <2>4, HandlerStep
<1>4. CASE ~(t.op = "del" /\ t.i < Len(t.keys))
  <2>1. (Go(c, "lock", t) /\ UNCHANGED answered) \/ Finish(c, IntReply(0))
    BY <1>4 DEF Removed
  <2>2. IntReply(0) \in Replies
    BY ReplyType
  <2> QED
    BY <1>2, <2>1, <2>2, HandlerStep
<1> QED
  BY <1>3, <1>4

LEMMA RemoveStep ==
  ASSUME TypeInv, NEW c \in Clients, RemoveLoad(c) \/ RemoveDelete(c)
  PROVE  TypeInv'
<1>1. mem \in [DBs -> Dicts] /\ broken \in SUBSET DBs
  BY DEF TypeInv, TypeOK
<1>2. task[c] \in Tasks /\ Formed(pc[c], task[c]) /\ {"delete"} \subseteq Pcs
  BY DEF TypeInv, TypeOK, TaskFormed, Pcs, InDict
<1>3. task[c].op \in Writers
  BY <1>2 DEF RemoveLoad, RemoveDelete, Runs, At, Formed, Writers
<1>4. CASE RemoveLoad(c)
  <2>1. CASE Removed(c, task[c])
    BY <1>1, <1>2, <1>3, <1>4, <2>1, RemovedStep DEF RemoveLoad, data
  <2>2. CASE Go(c, "delete", task[c]) /\ UNCHANGED answered
    <3>1. Formed("delete", task[c])
      BY <1>2, <1>3, SameCommand
    <3> QED
      BY <1>1, <1>2, <1>4, <2>2, <3>1, HandlerStep DEF RemoveLoad, data
  <2> QED
    BY <1>4, <2>1, <2>2 DEF RemoveLoad
<1>5. CASE RemoveDelete(c)
  <2> DEFINE t == IF task[c].op = "del" THEN [task[c] EXCEPT !.n = @ + 1] ELSE task[c]
  <2>1. task[c].n + 1 \in Nat
    BY <1>2 DEF Tasks
  <2>2. t \in Tasks /\ t.op = task[c].op /\ t.keys = task[c].keys /\ t.i = task[c].i
    BY <1>2, <2>1 DEF Tasks
  <2>3. mem' \in [DBs -> Dicts]
    BY <1>5, StoreType DEF RemoveDelete, Nil
  <2>4. Removed(c, t)
    BY <1>5 DEF RemoveDelete
  <2> HIDE DEF t
  <2> QED
    BY <1>1, <1>3, <1>5, <2>2, <2>3, <2>4, RemovedStep DEF RemoveDelete
<1> QED
  BY <1>4, <1>5

LEMMA FlushStep ==
  ASSUME TypeInv, NEW c \in Clients, FlushBegin(c) \/ FlushEnd(c) \/ Panic(c)
  PROVE  TypeInv'
<1>1. mem \in [DBs -> Dicts] /\ broken \in SUBSET DBs /\ sel[c] \in DBs
  BY DEF TypeInv, TypeOK
<1>2. task[c] \in Tasks /\ Formed(pc[c], task[c]) /\ {"clear", "lock"} \subseteq Pcs
  BY DEF TypeInv, TypeOK, TaskFormed, Pcs, InDict
<1>3. CASE FlushBegin(c)
  <2>1. Formed("clear", task[c])
    BY <1>2, <1>3, SameCommand DEF FlushBegin, Writers
  <2> QED
    BY <1>1, <1>2, <1>3, <2>1, HandlerStep DEF FlushBegin, data
<1>4. CASE FlushEnd(c)
  <2>1. task[c].op \in Writers
    BY <1>2, <1>4 DEF FlushEnd, Formed
  <2>2. Formed("lock", task[c])
    BY <1>2, <2>1, SameCommand
  <2>3. Empty \in Dicts
    BY DEF Empty, Dicts, Nil
  <2>4. mem' \in [DBs -> Dicts] /\ broken' \in SUBSET DBs
    BY <1>1, <1>4, <2>3 DEF FlushEnd
  <2> QED
    BY <1>2, <1>4, <2>2, <2>4, HandlerStep DEF FlushEnd
<1>5. CASE Panic(c)
  BY <1>1, <1>5, HandlerStep, ReplyType DEF Panic, data
<1> QED
  BY <1>3, <1>4, <1>5

LEMMA LoggedReplyType ==
  ASSUME NEW t \in Tasks
  PROVE  LoggedReply(t) \in Replies
BY ReplyType DEF LoggedReply, Tasks

(* One more record at the end of the file.                                 *)
LEMMA AppendFormed ==
  ASSUME TypeInv, NEW r \in LogRecords, WellFormed(r), log' = Append(log, r)
  PROVE  /\ log' \in Seq(LogRecords) /\ Len(log') = Len(log) + 1
         /\ \A j \in 1 .. Len(log) : log'[j] = log[j]
         /\ log'[Len(log')] = r
         /\ LogFormed'
<1>1. log \in Seq(LogRecords) /\ LogFormed
  BY DEF TypeInv, TypeOK
<1>2. /\ log' \in Seq(LogRecords) /\ Len(log') = Len(log) + 1
      /\ \A j \in 1 .. Len(log) : log'[j] = log[j]
      /\ log'[Len(log')] = r
  BY <1>1, AppendProperties
<1>3. \A j \in 1 .. Len(log') : j \in 1 .. Len(log) \/ j = Len(log')
  BY <1>1, <1>2, LenProperties
<1> QED
  BY <1>1, <1>2, <1>3 DEF LogFormed

LEMMA AofStep ==
  ASSUME TypeInv, NEW c \in Clients, Aof(c)
  PROVE  TypeInv'
<1>1. /\ task[c] \in Tasks /\ Formed(pc[c], task[c]) /\ sel[c] \in DBs
      /\ log \in Seq(LogRecords) /\ Len(log) \in Nat /\ synced \in 0 .. Len(log)
      /\ {"select", "write", "sync"} \subseteq Pcs
  BY LenProperties DEF TypeInv, TypeOK, TaskFormed, Pcs, InAof
<1>2. task[c].op \in Writers
  BY <1>1 DEF Aof, AofLock, AofSelect, AofWrite, AofSync, AofError, InAof, Formed
<1>3. /\ Formed("select", task[c]) /\ Formed("write", task[c]) /\ Formed("sync", task[c])
      /\ LoggedReply(task[c]) \in Replies
  BY <1>1, <1>2, SameCommand, LoggedReplyType
<1>4. \A p \in Pcs : Formed(p, task[c]) /\ Go(c, p, task[c]) =>
        pc' \in [Clients -> Pcs] /\ task' \in [Clients -> Tasks] /\ TaskFormed'
  BY <1>1, GoType DEF TypeInv, TaskFormed
<1>5. Finish(c, LoggedReply(task[c])) =>
        /\ pc' \in [Clients -> Pcs] /\ task' \in [Clients -> Tasks] /\ TaskFormed'
        /\ answered' \in SUBSET [id : Nat, db : DBs, op : Ops, keys : Seq(Keys),
                                 reply : Replies]
  BY <1>3, FinishType, NoTaskType DEF TypeInv, TaskFormed
<1>6. CASE AofLock(c)
  <2>1. pc' \in [Clients -> Pcs] /\ task' \in [Clients -> Tasks] /\ TaskFormed'
    BY <1>1, <1>3, <1>4, <1>6 DEF AofLock
  <2> QED
    BY <1>6, <2>1 DEF AofLock, TypeInv, TypeOK, LogFormed, data, boot
<1>7. CASE AofSelect(c)
  <2>1. SelectRecord(sel[c]) \in LogRecords /\ WellFormed(SelectRecord(sel[c]))
    <3>1. <<>> \in Seq(Keys)
      OBVIOUS
    <3> QED
      BY <1>1, <3>1 DEF SelectRecord, LogRecords, WellFormed
  <2>2. pc' \in [Clients -> Pcs] /\ task' \in [Clients -> Tasks] /\ TaskFormed'
    BY <1>1, <1>3, <1>4, <1>7 DEF AofSelect
  <2>3. log' \in Seq(LogRecords) /\ synced' \in 0 .. Len(log') /\ LogFormed'
    BY <1>1, <1>7, <2>1, AppendFormed DEF AofSelect
  <2> QED
    BY <1>1, <1>7, <2>2, <2>3 DEF AofSelect, TypeInv, TypeOK, data, boot
<1>8. CASE AofWrite(c)
  <2>1. /\ CommandRecord(task[c], sel[c]) \in LogRecords
        /\ WellFormed(CommandRecord(task[c], sel[c]))
    BY <1>1, <1>2 DEF CommandRecord, LogRecords, Tasks, Formed, WellFormed
  <2>2. pc' \in [Clients -> Pcs] /\ task' \in [Clients -> Tasks] /\ TaskFormed'
    BY <1>1, <1>3, <1>4, <1>8 DEF AofWrite
  <2>3. log' \in Seq(LogRecords) /\ synced' \in 0 .. Len(log') /\ LogFormed'
    BY <1>1, <1>8, <2>1, AppendFormed DEF AofWrite
  <2> QED
    BY <1>1, <1>8, <2>2, <2>3 DEF AofWrite, TypeInv, TypeOK, data, boot
<1>9. CASE AofSync(c)
  BY <1>1, <1>5, <1>9 DEF AofSync, TypeInv, TypeOK, LogFormed, data, boot
<1>10. CASE AofError(c)
  BY <1>5, <1>10 DEF AofError, TypeInv, TypeOK, LogFormed, data, boot
<1> QED
  BY <1>6, <1>7, <1>8, <1>9, <1>10 DEF Aof

LEMMA RequestStep ==
  ASSUME TypeInv, NEW c \in Clients, Select(c) \/ Issue(c)
  PROVE  TypeInv'
<1>1. CASE Select(c)
  BY <1>1 DEF Select, TypeInv, TypeOK, TaskFormed, LogFormed, data, aof, boot
<1>2. CASE Issue(c)
  <2>1. PICK cmd \in Menu[c] :
          Go(c, "exec", [NoTask EXCEPT !.id = nextId, !.op = cmd.op, !.keys = cmd.keys])
    BY <1>2 DEF Issue
  <2> DEFINE t == [NoTask EXCEPT !.id = nextId, !.op = cmd.op, !.keys = cmd.keys]
  <2>2. cmd \in Commands /\ WellFormed(cmd) /\ nextId \in Nat
    BY MenuAssumption DEF TypeInv, TypeOK
  <2>3. /\ t \in Tasks /\ t.op = cmd.op /\ t.keys = cmd.keys /\ t.i = 1
        /\ Len(cmd.keys) \in Nat
    BY <2>2, NoTaskType, LenProperties DEF Commands, Tasks, NoTask
  <2>4. Formed("exec", t)
    BY <2>2, <2>3 DEF Formed, WellFormed
  <2>5. "exec" \in Pcs
    BY DEF Pcs, InDict
  <2>6. pc' \in [Clients -> Pcs] /\ task' \in [Clients -> Tasks] /\ TaskFormed'
    BY <2>1, <2>3, <2>4, <2>5, GoType DEF TypeInv, TaskFormed
  <2>7. nextId' \in Nat \ {0}
    <3>1. nextId' = nextId + 1
      BY <1>2 DEF Issue
    <3>2. nextId \in Nat \ {0}
      BY DEF TypeInv, TypeOK
    <3> QED
      BY <3>1, <3>2
  <2>8. UNCHANGED <<data, aof, boot, sel, answered>>
    BY <1>2 DEF Issue
  <2> QED
    BY <2>6, <2>7, <2>8 DEF TypeInv, TypeOK, LogFormed, data, aof, boot
<1> QED
  BY <1>1, <1>2

(* The file after a power loss is a prefix of what it was.                 *)
LEMMA PrefixFormed ==
  ASSUME TypeInv, NEW n \in 0 .. Len(log), log' = SubSeq(log, 1, n)
  PROVE  /\ log' \in Seq(LogRecords) /\ Len(log') = n /\ LogFormed'
         /\ \A j \in 1 .. n : log'[j] = log[j]
<1>1. log \in Seq(LogRecords) /\ LogFormed /\ Len(log) \in Nat
  BY LenProperties DEF TypeInv, TypeOK
<1>2. /\ log' \in Seq(LogRecords) /\ Len(log') = n
      /\ \A j \in 1 .. n : log'[j] = log[j]
  BY <1>1, SubSeqProperties
<1> QED
  BY <1>1, <1>2 DEF LogFormed

LEMMA CrashStep ==
  ASSUME TypeInv, ProcessCrash \/ PowerLoss
  PROVE  TypeInv'
<1>1. Restart
  BY DEF ProcessCrash, PowerLoss
<1>2. TaskFormed'
  BY <1>1, NoTaskType DEF Restart, TaskFormed
<1>3. log' \in Seq(LogRecords) /\ synced' \in 0 .. Len(log') /\ LogFormed'
  <2>1. CASE ProcessCrash
    BY <2>1 DEF ProcessCrash, TypeInv, TypeOK, LogFormed
  <2>2. CASE PowerLoss
    <3>1. PICK n \in synced .. Len(log) : log' = SubSeq(log, 1, n) /\ synced' = n
      BY <2>2 DEF PowerLoss
    <3>2. n \in 0 .. Len(log)
      BY <3>1, LenProperties DEF TypeInv, TypeOK
    <3> QED
      BY <3>1, <3>2, PrefixFormed
  <2> QED
    BY <2>1, <2>2
<1>4. Empty \in Dicts /\ 0 \in DBs /\ "idle" \in Pcs
  BY NumDBAssumption DEF Empty, Dicts, Nil, DBs, Pcs
<1>5. TypeOK'
  BY <1>1, <1>3, <1>4, NoTaskType DEF Restart, TypeInv, TypeOK
<1> QED
  BY <1>2, <1>3, <1>5 DEF TypeInv

(* One command makes a dictionary of a dictionary.                         *)
LEMMA AfterType ==
  ASSUME NEW op, NEW keys \in Seq(Keys), NEW v \in Nat, NEW m \in Dicts,
         op \in {"rename", "renamenx"} => Len(keys) = 2
  PROVE  After(op, keys, v, m) \in Dicts
<1>1. op \in {"rename", "renamenx"} => keys[1] \in Keys
  BY ElementOfSeq
<1>2. \A from \in Keys : \A to : Move(m, from, to) \in Dicts
  BY DEF Move, Assign, Dicts, Nil
<1>3. \A k : Assign(m, k, v) \in Dicts
  BY DEF Assign, Dicts
<1>4. Empty \in Dicts
  BY DEF Empty, Dicts, Nil
<1>5. [k \in Keys |-> IF k \in Range(keys) THEN Nil ELSE m[k]] \in Dicts
  BY DEF Dicts, Nil
<1> QED
  BY <1>1, <1>2, <1>3, <1>4, <1>5 DEF After

LEMMA LoadStep ==
  ASSUME TypeInv, Load
  PROVE  TypeInv'
<1>1. CASE LoadRecord
  <2> DEFINE r == log[pos + 1]
  <2>1. r \in LogRecords /\ WellFormed(r) /\ mem[fdb] \in Dicts /\ pos + 1 \in Nat
    <3>1. pos + 1 \in 1 .. Len(log)
      BY <1>1, LenProperties DEF LoadRecord, TypeInv, TypeOK
    <3> QED
      BY <3>1, ElementOfSeq DEF TypeInv, TypeOK, LogFormed
  <2>2. CASE r.op = "select"
    BY <1>1, <2>1, <2>2
    DEF LoadRecord, TypeInv, TypeOK, TaskFormed, LogFormed, aof, conns, LogRecords
  <2>3. CASE r.op # "select"
    <3>1. After(r.op, r.keys, r.id, mem[fdb]) \in Dicts
      BY <2>1, AfterType DEF LogRecords, WellFormed
    <3>2. mem' \in [DBs -> Dicts]
      BY <1>1, <2>3, <3>1 DEF LoadRecord, TypeInv, TypeOK
    <3> QED
      BY <1>1, <2>1, <2>3, <3>2
      DEF LoadRecord, TypeInv, TypeOK, TaskFormed, LogFormed, aof, conns
  <2> QED
    BY <2>2, <2>3
<1>2. CASE StartServing
  BY <1>2, LenProperties
  DEF StartServing, TypeInv, TypeOK, TaskFormed, LogFormed, data, aof, conns
<1> QED
  BY <1>1, <1>2 DEF Load

-----------------------------------------------------------------------------
(* TypeInv is inductive, and with it the type invariant holds for every    *)
(* number of connections, keys, databases, commands and crashes.           *)
LEMMA TypeNext == TypeInv /\ [Next]_vars => TypeInv'
<1> SUFFICES ASSUME TypeInv, [Next]_vars PROVE TypeInv'
  OBVIOUS
<1>1. ASSUME NEW c \in Clients, Select(c) \/ Issue(c) PROVE TypeInv'
  BY <1>1, RequestStep
<1>2. ASSUME NEW c \in Clients, Dict(c) PROVE TypeInv'
  BY <1>2, ReaderStep, WriterStep, RemoveStep, FlushStep DEF Dict
<1>3. ASSUME NEW c \in Clients, Aof(c) PROVE TypeInv'
  BY <1>3, AofStep
<1>4. CASE Load
  BY <1>4, LoadStep
<1>5. CASE ProcessCrash \/ PowerLoss
  BY <1>5, CrashStep
<1>6. CASE UNCHANGED vars
  BY <1>6 DEF TypeInv, TypeOK, TaskFormed, LogFormed, vars
<1> QED
  BY <1>1, <1>2, <1>3, <1>4, <1>5, <1>6 DEF Next, Done

(* Every variable keeps its type: with TaskFormed and LogFormed, no        *)
(* handler reads an argument its command does not have, in service or in   *)
(* replay.                                                                 *)
THEOREM TypeCorrect == Spec => []TypeOK
<1>1. TypeInv => TypeOK
  BY DEF TypeInv
<1> QED
  BY <1>1, TypeInit, TypeNext, PTL DEF Spec

-----------------------------------------------------------------------------
(* What a handler does before AddAof, as the AOF sees it: it goes on with  *)
(* the same command, or it answers with a reply that records nothing.  It  *)
(* reaches the call of AddAof only with a reply that does record, for      *)
(* which the counter of RENAMENX and DEL must be right.                    *)
Counted(p, t) ==
  /\ t.op = "renamenx" /\ p \notin {"idle", "exec", "source"} => t.n = 1
  /\ p = "put" => t.op \in {"setnx", "getset", "rename", "renamenx"}
  /\ p = "remove" => t.op \in {"rename", "renamenx"}
  /\ p = "delete" => t.op \in {"del", "rename", "renamenx"}
  /\ p = "clear" => t.op = "flushdb"
  /\ p = "lock" \/ p \in InAof => Records(t.op, LoggedReply(t))

TaskCounted == \A c \in Clients : Counted(pc[c], task[c])

Moves(c) ==
  /\ UNCHANGED answered
  /\ \E p \in Pcs \ (InAof \union {"idle"}), t \in Tasks :
       /\ Go(c, p, t) /\ Counted(p, t)
       /\ t.id = task[c].id /\ t.op = task[c].op /\ t.keys = task[c].keys

Refuses(c) == \E r \in Replies : Finish(c, r) /\ ~Records(task[c].op, r)

Frame(c) ==
  /\ UNCHANGED <<aof, boot, sel, nextId>>
  /\ pc[c] \in InDict \union {"clear"}
  /\ Moves(c) \/ Refuses(c)

LEMMA PcsFacts ==
  /\ InDict \union {"clear", "lock"} \subseteq Pcs \ (InAof \union {"idle"})
  /\ "lock" \notin InDict /\ "clear" \notin InDict /\ InAof \subseteq Pcs
BY DEF Pcs, InDict, InAof

LEMMA ReaderFrame ==
  ASSUME TypeInv, NEW c \in Clients,
         ExecStateless(c) \/ ExecGet(c) \/ ExecExists(c) \/ ExecKeys(c)
  PROVE  Frame(c)
<1>1. task[c] \in Tasks /\ Formed(pc[c], task[c]) /\ "exec" \in InDict
  BY DEF TypeInv, TypeOK, TaskFormed, InDict
<1>2. /\ UNCHANGED <<aof, boot, sel, nextId>> /\ pc[c] = "exec"
      /\ task[c].op \in Readers \union Stateless
  BY DEF ExecStateless, ExecGet, ExecExists, ExecKeys, Runs, Readers
<1>3. \A r : ~Records(task[c].op, r)
  BY <1>2 DEF Records, Readers, Stateless
<1>4. \A t : t.op = task[c].op => Counted("exec", t)
  BY <1>2 DEF Counted, Readers, Stateless, InAof
<1>5. Moves(c) \/ Refuses(c)
  <2>1. CASE \E r \in Replies : Finish(c, r)
    BY <1>3, <2>1 DEF Refuses
  <2>2. CASE ExecStateless(c)
    <3>1. Answer(task[c].op, task[c].keys, Empty) \in Replies
      BY <2>2, ReplyType DEF ExecStateless, Answer, Stateless
    <3> QED
      BY <2>1, <2>2, <3>1 DEF ExecStateless
  <2>3. CASE ExecGet(c)
    <3>1. Len(task[c].keys) \in {1, 2}
      BY <1>1, <2>3 DEF ExecGet, Runs, Formed, WellFormed
    <3>2. BulkReply(Stored(c, Arg(c, 1))) \in Replies
      BY <3>1, FirstArgType, ReplyType
    <3> QED
      BY <2>1, <2>3, <3>2 DEF ExecGet
  <2>4. CASE ExecExists(c)
    <3> DEFINE n == task[c].n + (IF Stored(c, Arg(c, task[c].i)) = Nil THEN 0 ELSE 1)
               t == [task[c] EXCEPT !.i = @ + 1, !.n = n]
    <3>1. n \in Nat /\ IntReply(n) \in Replies /\ task[c].i + 1 \in Nat
      BY <1>1, ReplyType DEF Tasks
    <3> HIDE DEF n
    <3>2. Finish(c, IntReply(n)) \/ (Go(c, "exec", t) /\ UNCHANGED answered)
      BY <2>4 DEF ExecExists, n
    <3>3. t \in Tasks /\ t.id = task[c].id /\ t.op = task[c].op /\ t.keys = task[c].keys
      BY <1>1, <3>1 DEF Tasks
    <3> QED
      BY <1>1, <1>4, <2>1, <3>1, <3>2, <3>3, PcsFacts DEF Moves
  <2>5. CASE ExecKeys(c)
    <3>1. CASE Finish(c, MultiReply(task[c].hit))
      BY <1>1, <2>1, <3>1, ReplyType DEF Tasks
    <3>2. CASE ~Finish(c, MultiReply(task[c].hit))
      <4>1. PICK k \in Range(task[c].keys) \ task[c].seen :
              /\ Go(c, "exec", [task[c] EXCEPT !.seen = @ \union {k},
                      !.hit = IF Stored(c, k) = Nil THEN @ ELSE @ \union {k}])
              /\ UNCHANGED answered
        BY <2>5, <3>2 DEF ExecKeys
      <4> DEFINE t == [task[c] EXCEPT !.seen = @ \union {k},
                      !.hit = IF Stored(c, k) = Nil THEN @ ELSE @ \union {k}]
      <4>2. k \in Keys
        BY <1>1, <4>1 DEF Tasks, Range
      <4>3. t \in Tasks /\ t.id = task[c].id /\ t.op = task[c].op /\ t.keys = task[c].keys
        BY <1>1, <4>2 DEF Tasks
      <4> QED
        BY <1>1, <1>4, <4>1, <4>3, PcsFacts DEF Moves
    <3> QED
      BY <3>1, <3>2
  <2> QED
    BY <2>2, <2>3, <2>4, <2>5
<1> QED
  BY <1>1, <1>2, <1>5 DEF Frame

(* These replies always record; those of DEL and RENAMENX by their count.  *)
LEMMA RecordsFacts ==
  ASSUME NEW t \in Tasks
  PROVE  /\ t.op \in {"set", "rename", "flushdb", "getset", "setnx"} =>
              Records(t.op, LoggedReply(t))
         /\ t.op \in {"del", "renamenx"} /\ t.n > 0 => Records(t.op, LoggedReply(t))
         /\ t.op \in {"del", "renamenx"} => ~Records(t.op, IntReply(0))
         /\ ~Records(t.op, ErrReply) /\ ~Records(t.op, UnknownReply)
BY DEF Records, LoggedReply, OkReply, IntReply, BulkReply, ErrReply, UnknownReply, Reply

LEMMA WriterFrame ==
  ASSUME TypeInv, TaskCounted, NEW c \in Clients,
         ExecSet(c) \/ ExecSetnx(c) \/ ExecGetset(c) \/ ExecRename(c)
           \/ ExecRenamenx(c) \/ RenamenxSource(c) \/ Put(c)
  PROVE  Frame(c)
<1>1. /\ task[c] \in Tasks /\ Formed(pc[c], task[c]) /\ Counted(pc[c], task[c])
      /\ {"put", "source", "remove", "exec"} \subseteq InDict
  BY DEF TypeInv, TypeOK, TaskFormed, TaskCounted, InDict
<1>2. UNCHANGED <<aof, boot, sel, nextId>> /\ pc[c] \in InDict
  BY <1>1 DEF ExecSet, ExecSetnx, ExecGetset, ExecRename, ExecRenamenx,
              RenamenxSource, Put, Runs, At
<1>3. Moves(c) \/ Refuses(c)
  <2>1. CASE ExecSet(c)
    <3>1. Counted("lock", task[c])
      BY <1>1, <2>1, RecordsFacts DEF ExecSet, Runs, Counted
    <3> QED
      BY <1>1, <2>1, <3>1, PcsFacts DEF ExecSet, Moves
  <2>2. CASE ExecSetnx(c)
    <3> DEFINE t == [task[c] EXCEPT !.n = 1]
    <3>1. t \in Tasks /\ t.id = task[c].id /\ t.op = "setnx" /\ t.keys = task[c].keys
          /\ task[c].op = "setnx"
      BY <1>1, <2>2 DEF ExecSetnx, Runs, Tasks
    <3>2. Counted("put", t) /\ Counted("lock", task[c])
      BY <1>1, <3>1, RecordsFacts DEF Counted, InAof
    <3> QED
      BY <1>1, <2>2, <3>1, <3>2, PcsFacts DEF ExecSetnx, Moves
  <2>3. CASE ExecGetset(c)
    <3> DEFINE t == [task[c] EXCEPT !.ent = Stored(c, Arg(c, 1))]
    <3>1. task[c].op = "getset" /\ Len(task[c].keys) \in {1, 2}
      BY <1>1, <2>3 DEF ExecGetset, Runs, Formed, WellFormed
    <3>2. Stored(c, Arg(c, 1)) \in Nat
      BY <3>1, FirstArgType
    <3>3. t \in Tasks /\ t.id = task[c].id /\ t.op = task[c].op /\ t.keys = task[c].keys
      BY <1>1, <3>2 DEF Tasks
    <3>4. Counted("put", t)
      BY <3>1, <3>3 DEF Counted, InAof
    <3> QED
      BY <1>1, <2>3, <3>3, <3>4, PcsFacts DEF ExecGetset, Moves
  <2>4. CASE ExecRename(c)
    <3> DEFINE t == [task[c] EXCEPT !.ent = Stored(c, Arg(c, 1))]
    <3>1. task[c].op = "rename" /\ Len(task[c].keys) \in {1, 2}
      BY <1>1, <2>4 DEF ExecRename, Runs, Formed, WellFormed
    <3>2. Stored(c, Arg(c, 1)) \in Nat
      BY <3>1, FirstArgType
    <3>3. t \in Tasks /\ t.id = task[c].id /\ t.op = task[c].op /\ t.keys = task[c].keys
      BY <1>1, <3>2 DEF Tasks
    <3>4. Counted("put", t)
      BY <3>1, <3>3 DEF Counted, InAof
    <3>5. Finish(c, ErrReply) => Refuses(c)
      BY <1>1, RecordsFacts, ReplyType DEF Refuses
    <3> QED
      BY <1>1, <2>4, <3>3, <3>4, <3>5, PcsFacts DEF ExecRename, Moves
  <2>5. CASE ExecRenamenx(c)
    <3>1. Counted("source", task[c]) /\ task[c].op = "renamenx"
      BY <2>5 DEF ExecRenamenx, Runs, Counted, InAof
    <3>2. Finish(c, IntReply(0)) => Refuses(c)
      BY <1>1, <3>1, RecordsFacts, ReplyType DEF Refuses
    <3> QED
      BY <1>1, <2>5, <3>1, <3>2, PcsFacts DEF ExecRenamenx, Moves
  <2>6. CASE RenamenxSource(c)
    <3> DEFINE t == [task[c] EXCEPT !.ent = Stored(c, Arg(c, 1)), !.n = 1]
    <3>1. task[c].op = "renamenx" /\ Len(task[c].keys) \in {1, 2}
      BY <1>1, <2>6 DEF RenamenxSource, At, Formed, WellFormed
    <3>2. Stored(c, Arg(c, 1)) \in Nat
      BY <3>1, FirstArgType
    <3>3. /\ t \in Tasks /\ t.id = task[c].id /\ t.op = task[c].op
          /\ t.keys = task[c].keys /\ t.n = 1
      BY <1>1, <3>2 DEF Tasks
    <3>4. Counted("put", t)
      BY <3>1, <3>3 DEF Counted, InAof
    <3>5. Finish(c, ErrReply) => Refuses(c)
      BY <1>1, RecordsFacts, ReplyType DEF Refuses
    <3> QED
      BY <1>1, <2>6, <3>3, <3>4, <3>5, PcsFacts DEF RenamenxSource, Moves
  <2>7. CASE Put(c)
    <3>1. task[c].op \in {"setnx", "getset", "rename", "renamenx"}
      BY <1>1, <2>7 DEF Put, At, Counted
    <3>2. CASE task[c].op \in {"rename", "renamenx"}
      <4>1. Counted("remove", task[c])
        BY <1>1, <2>7, <3>2 DEF Put, At, Counted, InAof
      <4> QED
        BY <1>1, <2>7, <3>2, <4>1, PcsFacts DEF Put, Moves
    <3>3. CASE task[c].op \in {"setnx", "getset"}
      <4>1. Counted("lock", task[c])
        BY <1>1, <3>3, RecordsFacts DEF Counted
      <4> QED
        BY <1>1, <2>7, <3>3, <4>1, PcsFacts DEF Put, Moves
    <3> QED
      BY <3>1, <3>2, <3>3
  <2> QED
    BY <2>1, <2>2, <2>3, <2>4, <2>5, <2>6, <2>7
<1> QED
  BY <1>2, <1>3 DEF Frame

LEMMA RemovedFrame ==
  ASSUME TypeInv, TaskCounted, NEW c \in Clients, NEW t \in Tasks, Removed(c, t),
         t.op = task[c].op, t.keys = task[c].keys, t.i = task[c].i, t.id = task[c].id,
         t.op \in {"del", "rename", "renamenx"},
         t.op = "renamenx" => t.n = 1
  PROVE  Moves(c) \/ Refuses(c)
<1>1. CASE t.op = "del" /\ t.i < Len(t.keys)
  <2> DEFINE u == [t EXCEPT !.i = @ + 1]
  <2>1. t.i + 1 \in Nat
    BY DEF Tasks
  <2>2. u \in Tasks /\ u.id = t.id /\ u.op = t.op /\ u.keys = t.keys
    BY <2>1 DEF Tasks
  <2>3. Counted("exec", u)
    BY <1>1, <2>2 DEF Counted, InAof
  <2>4. Go(c, "exec", u) /\ UNCHANGED answered /\ "exec" \in InDict
    BY <1>1 DEF Removed, InDict
  <2> QED
    BY <2>2, <2>3, <2>4, PcsFacts DEF Moves
<1>2. CASE t.op = "del" /\ ~(t.i < Len(t.keys)) /\ t.n = 0
  <2>1. Finish(c, IntReply(0)) /\ IntReply(0) \in Replies
    BY <1>2, ReplyType DEF Removed
  <2>2. ~Records(task[c].op, IntReply(0))
    BY <1>2, RecordsFacts
  <2> QED
    BY <2>1, <2>2 DEF Refuses
<1>3. CASE t.op # "del" \/ (~(t.i < Len(t.keys)) /\ t.n # 0)
  <2>1. t.n \in Nat
    BY DEF Tasks
  <2>2. Records(t.op, LoggedReply(t))
    BY <1>3, <2>1, RecordsFacts
  <2>3. Counted("lock", t)
    BY <2>2 DEF Counted, InAof
  <2>4. Go(c, "lock", t) /\ UNCHANGED answered
    BY <1>3 DEF Removed
  <2> QED
    BY <2>3, <2>4, PcsFacts DEF Moves
<1> QED
  BY <1>1, <1>2, <1>3

LEMMA RemoveFrame ==
  ASSUME TypeInv, TaskCounted, NEW c \in Clients, RemoveLoad(c) \/ RemoveDelete(c)
  PROVE  Frame(c)
<1>1. /\ task[c] \in Tasks /\ Counted(pc[c], task[c])
      /\ {"exec", "remove", "delete"} \subseteq InDict
  BY DEF TypeInv, TypeOK, TaskCounted, InDict
<1>2. /\ UNCHANGED <<aof, boot, sel, nextId>> /\ pc[c] \in InDict
      /\ task[c].op \in {"del", "rename", "renamenx"}
      /\ task[c].op = "renamenx" => task[c].n = 1
  BY <1>1 DEF RemoveLoad, RemoveDelete, Runs, At, Counted
<1>3. CASE RemoveLoad(c)
  <2>1. CASE Removed(c, task[c])
    BY <1>1, <1>2, <2>1, RemovedFrame DEF Frame
  <2>2. CASE Go(c, "delete", task[c]) /\ UNCHANGED answered
    <3>1. Counted("delete", task[c])
      BY <1>2 DEF Counted, InAof
    <3> QED
      BY <1>1, <1>2, <2>2, <3>1, PcsFacts DEF Moves, Frame
  <2> QED
    BY <1>3, <2>1, <2>2 DEF RemoveLoad
<1>4. CASE RemoveDelete(c)
  <2> DEFINE t == IF task[c].op = "del" THEN [task[c] EXCEPT !.n = @ + 1] ELSE task[c]
  <2>1. task[c].n + 1 \in Nat
    BY <1>1 DEF Tasks
  <2>2. /\ t \in Tasks /\ t.op = task[c].op /\ t.keys = task[c].keys /\ t.i = task[c].i
        /\ t.id = task[c].id /\ (t.op = "renamenx" => t.n = 1)
    BY <1>1, <1>2, <2>1 DEF Tasks
  <2>3. Removed(c, t)
    BY <1>4 DEF RemoveDelete
  <2> HIDE DEF t
  <2> QED
    BY <1>2, <2>2, <2>3, RemovedFrame DEF Frame
<1> QED
  BY <1>3, <1>4

LEMMA FlushFrame ==
  ASSUME TypeInv, TaskCounted, NEW c \in Clients,
         FlushBegin(c) \/ FlushEnd(c) \/ Panic(c)
  PROVE  Frame(c)
<1>1. task[c] \in Tasks /\ Counted(pc[c], task[c]) /\ "exec" \in InDict
  BY DEF TypeInv, TypeOK, TaskCounted, InDict
<1>2. CASE FlushBegin(c)
  <2>1. Counted("clear", task[c])
    BY <1>2 DEF FlushBegin, Counted, InAof
  <2> QED
    BY <1>1, <1>2, <2>1, PcsFacts DEF FlushBegin, Moves, Frame, aof, boot, data
<1>3. CASE FlushEnd(c)
  <2>1. Counted("lock", task[c])
    BY <1>1, <1>3, RecordsFacts DEF FlushEnd, Counted
  <2> QED
    BY <1>1, <1>3, <2>1, PcsFacts DEF FlushEnd, Moves, Frame
<1>4. CASE Panic(c)
  BY <1>1, <1>4, RecordsFacts, ReplyType DEF Panic, Refuses, Frame
<1> QED
  BY <1>2, <1>3, <1>4

LEMMA DictFrame ==
  ASSUME TypeInv, TaskCounted, NEW c \in Clients, Dict(c)
  PROVE  Frame(c)
BY ReaderFrame, WriterFrame, RemoveFrame, FlushFrame DEF Dict

(* What Frame says of the handlers' locations.                             *)
LEMMA FrameFacts ==
  ASSUME TypeInv, NEW c \in Clients, Frame(c)
  PROVE  /\ pc[c] \notin InAof /\ pc[c] # "idle" /\ pc'[c] \notin InAof
         /\ \A o \in Clients \ {c} : pc'[o] = pc[o] /\ task'[o] = task[o]
         /\ \/ /\ UNCHANGED answered
               /\ task'[c].id = task[c].id /\ Counted(pc'[c], task'[c])
            \/ /\ \E r \in Replies : Finish(c, r) /\ ~Records(task[c].op, r)
               /\ pc'[c] = "idle" /\ task'[c] = NoTask
<1>1. pc[c] \notin InAof /\ pc[c] # "idle" /\ "idle" \notin InAof
  BY DEF Frame, InDict, InAof
<1>2. CASE Moves(c)
  <2>1. PICK p \in Pcs \ (InAof \union {"idle"}), t \in Tasks :
          Go(c, p, t) /\ Counted(p, t) /\ t.id = task[c].id
    BY <1>2 DEF Moves
  <2> QED
    BY <1>1, <1>2, <2>1, GoType DEF Moves
<1>3. CASE Refuses(c)
  BY <1>1, <1>3, FinishType DEF Refuses
<1> QED
  BY <1>2, <1>3 DEF Frame

LEMMA CountedInit == Init => TaskCounted
BY DEF Init, TaskCounted, Counted, NoTask, InAof

LEMMA CountedNext == TypeInv /\ TaskCounted /\ [Next]_vars => TaskCounted'
<1> SUFFICES ASSUME TypeInv, TaskCounted, [Next]_vars PROVE TaskCounted'
  OBVIOUS
<1>1. pc \in [Clients -> Pcs] /\ task \in [Clients -> Tasks]
  BY DEF TypeInv, TypeOK
<1>2. Counted("idle", NoTask)
  BY DEF Counted, NoTask, InAof
<1>3. ASSUME NEW c \in Clients, Select(c) PROVE TaskCounted'
  BY <1>3 DEF Select, TaskCounted
<1>4. ASSUME NEW c \in Clients, Issue(c) PROVE TaskCounted'
  <2>1. \A t : Counted("exec", t)
    BY DEF Counted, InAof
  <2> QED
    BY <1>1, <1>4, <2>1 DEF Issue, Go, TaskCounted
<1>5. ASSUME NEW c \in Clients, Dict(c) PROVE TaskCounted'
  <2>1. Frame(c)
    BY <1>5, DictFrame
  <2> QED
    BY <1>2, <2>1, FrameFacts DEF TaskCounted
<1>6. ASSUME NEW c \in Clients, Aof(c) PROVE TaskCounted'
  <2>1. Counted(pc[c], task[c]) /\ pc[c] \in InAof \union {"lock"}
    BY <1>6 DEF TaskCounted, Aof, AofLock, AofSelect, AofWrite, AofSync, AofError, InAof
  <2>2. \A p \in InAof : Counted(p, task[c])
    BY <2>1 DEF Counted, InAof
  <2>3. (\E p \in InAof : Go(c, p, task[c])) \/ Go(c, "idle", NoTask)
    BY <1>6 DEF Aof, AofLock, AofSelect, AofWrite, AofSync, AofError, Finish, InAof
  <2> QED
    BY <1>1, <1>2, <2>2, <2>3 DEF Go, TaskCounted
<1>7. CASE Load
  BY <1>7 DEF Load, LoadRecord, StartServing, conns, TaskCounted
<1>8. CASE ProcessCrash \/ PowerLoss
  BY <1>2, <1>8 DEF ProcessCrash, PowerLoss, Restart, TaskCounted
<1>9. CASE UNCHANGED vars
  BY <1>9 DEF vars, TaskCounted
<1> QED
  BY <1>3, <1>4, <1>5, <1>6, <1>7, <1>8, <1>9 DEF Next, Done

-----------------------------------------------------------------------------
(* The AOF protocol: the mutex is held by whoever is between Lock and      *)
(* Unlock, a command is written only in its own database's context, and    *)
(* while the server serves, the end of the file is in the context that     *)
(* currentDBIndex remembers.                                               *)
Locked    == \A c \in Clients : pc[c] \in InAof => mu = c
InContext == \A c \in Clients : pc[c] = "write" => curDB = sel[c]
Booting   == phase = "loading" =>
               curDB = 0 /\ mu = None /\ \A c \in Clients : pc[c] = "idle"
AtEnd     == phase = "serving" =>
               base <= Len(log) /\ LeadsTo(log, Len(log) + 1, base, curDB)

FrameInv == TypeInv /\ TaskCounted /\ Locked /\ InContext /\ Booting /\ AtEnd /\ SelectFraming

(* Where a record is led to depends on the records before it alone.        *)
LEMMA LeadsToSame ==
  ASSUME NEW f, NEW g, NEW i \in Int, NEW start \in Nat, NEW d,
         \A k \in 1 .. i - 1 : g[k] = f[k], LeadsTo(f, i, start, d)
  PROVE  LeadsTo(g, i, start, d)
BY DEF LeadsTo

(* A SELECT at the end leads what follows it; a command there changes      *)
(* nothing for what follows.                                               *)
LEMMA LeadsToNext ==
  ASSUME NEW f, NEW i \in Nat, NEW start \in Nat, start < i, NEW d
  PROVE  /\ f[i].op = "select" /\ f[i].db = d => LeadsTo(f, i + 1, start, d)
         /\ f[i].op # "select" /\ LeadsTo(f, i, start, d) => LeadsTo(f, i + 1, start, d)
<1>1. CASE f[i].op = "select" /\ f[i].db = d
  <2>1. i \in start + 1 .. (i + 1) - 1 /\ \A k \in i + 1 .. (i + 1) - 1 : f[k].op # "select"
    OBVIOUS
  <2> QED
    BY <1>1, <2>1 DEF LeadsTo
<1>2. CASE f[i].op # "select" /\ LeadsTo(f, i, start, d)
  <2>1. \A m \in Nat : \A k \in m + 1 .. (i + 1) - 1 : k \in m + 1 .. i - 1 \/ k = i
    OBVIOUS
  <2>2. CASE d = 0 /\ \A k \in start + 1 .. i - 1 : f[k].op # "select"
    BY <1>2, <2>1, <2>2 DEF LeadsTo
  <2>3. CASE \E j \in start + 1 .. i - 1 :
               /\ f[j].op = "select" /\ f[j].db = d
               /\ \A k \in j + 1 .. i - 1 : f[k].op # "select"
    <3>1. PICK j \in start + 1 .. i - 1 :
               /\ f[j].op = "select" /\ f[j].db = d
               /\ \A k \in j + 1 .. i - 1 : f[k].op # "select"
      BY <2>3
    <3>2. j \in start + 1 .. (i + 1) - 1 /\ j \in Nat
      OBVIOUS
    <3>3. \A k \in j + 1 .. (i + 1) - 1 : f[k].op # "select"
      BY <1>2, <2>1, <3>1, <3>2
    <3> QED
      BY <3>1, <3>2, <3>3 DEF LeadsTo
  <2> QED
    BY <1>2, <2>2, <2>3 DEF LeadsTo
<1> QED
  BY <1>1, <1>2

(* A record appended in the context that the end of the file is in, or a   *)
(* SELECT, keeps every earlier record where it was.                        *)
LEMMA FramingAppend ==
  ASSUME NEW f \in Seq(LogRecords), NEW g \in Seq(LogRecords), NEW start \in Nat,
         Len(g) = Len(f) + 1, \A k \in 1 .. Len(f) : g[k] = f[k],
         start <= Len(f),
         g[Len(g)].op # "select" => LeadsTo(f, Len(f) + 1, start, g[Len(g)].db),
         \A i \in start + 1 .. Len(f) : f[i].op # "select" => LeadsTo(f, i, start, f[i].db)
  PROVE  \A i \in start + 1 .. Len(g) : g[i].op # "select" => LeadsTo(g, i, start, g[i].db)
<1> SUFFICES ASSUME NEW i \in start + 1 .. Len(g), g[i].op # "select"
             PROVE  LeadsTo(g, i, start, g[i].db)
  OBVIOUS
<1>1. Len(f) \in Nat
  BY LenProperties
<1>2. \A k \in 1 .. i - 1 : g[k] = f[k]
  BY <1>1
<1>3. LeadsTo(f, i, start, g[i].db)
  <2>1. CASE i = Len(g)
    BY <1>1, <2>1
  <2>2. CASE i # Len(g)
    <3>1. i \in start + 1 .. Len(f) /\ g[i] = f[i]
      BY <1>1, <2>2
    <3> QED
      BY <3>1
  <2> QED
    BY <2>1, <2>2
<1> QED
  BY <1>2, <1>3, LeadsToSame

LEMMA FrameInit == Init => FrameInv
<1> SUFFICES ASSUME Init PROVE FrameInv
  OBVIOUS
<1>1. Locked /\ InContext /\ Booting /\ AtEnd /\ SelectFraming
  BY DEF Init, Locked, InContext, Booting, AtEnd, SelectFraming, InAof
<1> QED
  BY <1>1, TypeInit, CountedInit DEF FrameInv

LEMMA FrameNext == FrameInv /\ [Next]_vars => FrameInv'
<1> SUFFICES ASSUME FrameInv, [Next]_vars PROVE FrameInv'
  OBVIOUS
<1> USE DEF FrameInv
<1>1. TypeInv' /\ TaskCounted'
  BY TypeNext, CountedNext
<1>2. /\ log \in Seq(LogRecords) /\ Len(log) \in Nat /\ base \in Nat /\ synced \in 0 .. Len(log)
      /\ phase \in {"loading", "serving"} /\ pc \in [Clients -> Pcs]
      /\ sel \in [Clients -> DBs] /\ mu \in Clients \union {None}
  BY LenProperties DEF TypeInv, TypeOK
<1>3. ASSUME UNCHANGED <<log, base, phase, curDB>> PROVE AtEnd' /\ SelectFraming'
  BY <1>3 DEF AtEnd, SelectFraming, LeadsTo
<1>4. ASSUME NEW c \in Clients, Select(c) PROVE FrameInv'
  <2>1. UNCHANGED <<log, base, phase, curDB, mu, pc>> /\ pc[c] = "idle"
        /\ \A o \in Clients \ {c} : sel'[o] = sel[o]
    BY <1>2, <1>4 DEF Select, aof, boot
  <2>2. Locked' /\ InContext' /\ Booting'
    BY <2>1 DEF Locked, InContext, Booting
  <2> QED
    BY <1>1, <1>3, <2>1, <2>2
<1>5. ASSUME NEW c \in Clients, Issue(c) PROVE FrameInv'
  <2>1. UNCHANGED <<log, base, phase, curDB, mu, sel>> /\ phase = "serving"
        /\ pc' = [pc EXCEPT ![c] = "exec"]
    BY <1>5 DEF Issue, Go, aof, boot
  <2>2. Locked' /\ InContext' /\ Booting'
    BY <1>2, <2>1 DEF Locked, InContext, Booting, InAof
  <2> QED
    BY <1>1, <1>3, <2>1, <2>2
<1>6. ASSUME NEW c \in Clients, Frame(c) PROVE FrameInv'
  <2>1. UNCHANGED <<log, base, phase, curDB, mu, sel>>
    BY <1>6 DEF Frame, aof, boot
  <2>2. pc[c] # "idle" /\ pc'[c] \notin InAof /\ \A o \in Clients \ {c} : pc'[o] = pc[o]
    BY <1>6, FrameFacts
  <2>3. Locked' /\ InContext' /\ Booting'
    BY <2>1, <2>2 DEF Locked, InContext, Booting, InAof
  <2> QED
    BY <1>1, <1>3, <2>1, <2>3
<1>7. ASSUME NEW c \in Clients, Aof(c) PROVE FrameInv'
  <2>1. pc[c] # "idle" /\ phase = "serving"
    BY <1>2, <1>7 DEF Aof, AofLock, AofSelect, AofWrite, AofSync, AofError, InAof, Booting
  <2>2. UNCHANGED <<base, phase, sel>> /\ \A o \in Clients \ {c} : pc'[o] = pc[o]
    BY <1>2, <1>7
    DEF Aof, AofLock, AofSelect, AofWrite, AofSync, AofError, Go, Finish, boot
  <2>3. CASE AofLock(c)
    <3>1. /\ mu = None /\ mu' = c /\ UNCHANGED <<log, curDB>>
          /\ pc'[c] = (IF sel[c] # curDB THEN "select" ELSE "write")
      BY <1>2, <2>3 DEF AofLock, Go
    <3>2. Locked' /\ InContext' /\ Booting'
      BY <2>1, <2>2, <3>1, NoneAssumption DEF Locked, InContext, Booting, InAof
    <3> QED
      BY <1>1, <1>3, <2>2, <3>1, <3>2
  <2>4. CASE AofSelect(c)
    <3>1. /\ log' = Append(log, SelectRecord(sel[c])) /\ curDB' = sel[c] /\ mu' = mu
          /\ pc[c] = "select" /\ pc'[c] = "write" /\ mu = c
      BY <1>2, <2>4 DEF AofSelect, Go, Locked, InAof
    <3>2. /\ Len(log') = Len(log) + 1 /\ \A j \in 1 .. Len(log) : log'[j] = log[j]
          /\ log'[Len(log')] = SelectRecord(sel[c])
      BY <1>2, <3>1, AppendProperties DEF SelectRecord, LogRecords
    <3>3. Locked' /\ InContext' /\ Booting'
      BY <2>1, <2>2, <3>1 DEF Locked, InContext, Booting, InAof
    <3>4. base <= Len(log) /\ LeadsTo(log', Len(log') + 1, base, sel[c])
      <4>1. base <= Len(log) /\ Len(log') \in Nat /\ base < Len(log')
        BY <1>2, <2>1, <3>2 DEF AtEnd
      <4>2. log'[Len(log')].op = "select" /\ log'[Len(log')].db = sel[c]
        BY <3>2 DEF SelectRecord
      <4> QED
        BY <1>2, <4>1, <4>2, LeadsToNext
    <3>5. SelectFraming'
      <4>1. log' \in Seq(LogRecords)
        BY <1>1 DEF TypeInv, TypeOK
      <4>2. log'[Len(log')].op = "select"
        BY <3>2 DEF SelectRecord
      <4> QED
        BY <1>2, <2>2, <3>2, <3>4, <4>1, <4>2, FramingAppend DEF SelectFraming
    <3> QED
      BY <1>1, <1>2, <2>2, <3>1, <3>2, <3>3, <3>4, <3>5 DEF AtEnd
  <2>5. CASE AofWrite(c)
    <3>1. /\ log' = Append(log, CommandRecord(task[c], sel[c])) /\ curDB' = curDB /\ mu' = mu
          /\ pc[c] = "write" /\ pc'[c] = "sync" /\ mu = c /\ curDB = sel[c]
      BY <1>2, <2>5 DEF AofWrite, Go, Locked, InContext, InAof
    <3>2. CommandRecord(task[c], sel[c]) \in LogRecords
          /\ CommandRecord(task[c], sel[c]).op # "select"
      <4>1. task[c] \in Tasks /\ task[c].op \in Writers
        BY <3>1 DEF TypeInv, TypeOK, TaskFormed, Formed
      <4>2. "select" \notin Writers
        BY DEF Writers
      <4> QED
        BY <1>2, <4>1, <4>2 DEF CommandRecord, LogRecords, Tasks
    <3>3. /\ Len(log') = Len(log) + 1 /\ \A j \in 1 .. Len(log) : log'[j] = log[j]
          /\ log'[Len(log')] = CommandRecord(task[c], sel[c])
      BY <1>2, <3>1, <3>2, AppendProperties
    <3>4. Locked' /\ InContext' /\ Booting'
      BY <2>1, <2>2, <3>1 DEF Locked, InContext, Booting, InAof
    <3>5. base <= Len(log) /\ LeadsTo(log, Len(log) + 1, base, curDB)
      BY <2>1 DEF AtEnd
    <3>6. LeadsTo(log', Len(log') + 1, base, curDB)
      <4>1. LeadsTo(log', Len(log'), base, curDB)
        BY <1>2, <3>3, <3>5, LeadsToSame
      <4> QED
        BY <1>2, <3>2, <3>3, <3>5, <4>1, LeadsToNext
    <3>7. SelectFraming'
      <4>1. log' \in Seq(LogRecords)
        BY <1>1 DEF TypeInv, TypeOK
      <4>2. log'[Len(log')].db = curDB
        BY <3>1, <3>3 DEF CommandRecord
      <4> QED
        BY <1>2, <2>2, <3>3, <3>5, <4>1, <4>2, FramingAppend DEF SelectFraming
    <3> QED
      BY <1>1, <1>2, <2>2, <3>1, <3>3, <3>4, <3>5, <3>6, <3>7 DEF AtEnd
  <2>6. CASE AofSync(c) \/ AofError(c)
    <3>1. UNCHANGED <<log, curDB>> /\ mu' = None /\ pc'[c] = "idle" /\ mu = c
      BY <1>2, <2>6 DEF AofSync, AofError, Go, Finish, Locked, InAof
    <3>2. Locked' /\ InContext' /\ Booting'
      BY <2>1, <2>2, <3>1 DEF Locked, InContext, Booting, InAof
    <3> QED
      BY <1>1, <1>3, <2>2, <3>1, <3>2
  <2> QED
    BY <1>7, <2>3, <2>4, <2>5, <2>6 DEF Aof
<1>8. CASE ProcessCrash \/ PowerLoss
  <2>1. Restart /\ base' = base
    BY <1>8 DEF ProcessCrash, PowerLoss, Restart
  <2>2. Locked' /\ InContext' /\ Booting' /\ AtEnd'
    BY <2>1 DEF Restart, Locked, InContext, Booting, AtEnd, InAof
  <2>3. Len(log') \in 0 .. Len(log) /\ \A j \in 1 .. Len(log') : log'[j] = log[j]
    <3>1. CASE ProcessCrash
      BY <1>2, <3>1 DEF ProcessCrash
    <3>2. CASE PowerLoss
      <4>1. PICK n \in synced .. Len(log) : log' = SubSeq(log, 1, n)
        BY <3>2 DEF PowerLoss
      <4>2. n \in 0 .. Len(log)
        BY <1>2
      <4> QED
        BY <1>2, <4>1, <4>2, PrefixFormed
    <3> QED
      BY <1>8, <3>1, <3>2
  <2>4. SelectFraming'
    <3> SUFFICES ASSUME NEW i \in base + 1 .. Len(log'), log'[i].op # "select"
                 PROVE  LeadsTo(log', i, base, log'[i].db)
      BY <2>1 DEF SelectFraming
    <3>1. i \in base + 1 .. Len(log) /\ log'[i] = log[i] /\ i \in Int
          /\ \A k \in 1 .. i - 1 : log'[k] = log[k]
      BY <1>2, <2>3
    <3>2. LeadsTo(log, i, base, log[i].db)
      BY <3>1 DEF SelectFraming
    <3> QED
      BY <1>2, <3>1, <3>2, LeadsToSame
  <2> QED
    BY <1>1, <2>2, <2>4
<1>9. CASE LoadRecord
  <2>1. UNCHANGED <<log, base, phase, curDB, mu, sel, pc>>
    BY <1>9 DEF LoadRecord, aof, conns
  <2> QED
    BY <1>1, <1>3, <2>1 DEF Locked, InContext, Booting
<1>10. CASE StartServing
  <2>1. /\ UNCHANGED <<log, curDB, mu, sel, pc>> /\ phase' = "serving" /\ base' = Len(log)
        /\ curDB = 0
    BY <1>10 DEF StartServing, aof, conns, Booting
  <2> QED
    BY <1>1, <1>2, <2>1 DEF Locked, InContext, Booting, AtEnd, SelectFraming, LeadsTo
<1>11. CASE UNCHANGED vars
  BY <1>1, <1>3, <1>11 DEF vars, Locked, InContext, Booting
<1>12. ASSUME NEW c \in Clients, Dict(c) PROVE FrameInv'
  BY <1>6, <1>12, DictFrame
<1> QED
  BY <1>4, <1>5, <1>7, <1>8, <1>9, <1>10, <1>11, <1>12 DEF Next, Done, Load

(* The records one run of the server appends lead every command to the     *)
(* database it ran in, for any number of connections and databases, with   *)
(* writes failing at any point: currentDBIndex, guarded by the mutex,      *)
(* always names the context that the file ends in.                         *)
THEOREM Framing == Spec => []SelectFraming
<1>1. FrameInv => SelectFraming
  BY DEF FrameInv
<1> QED
  BY <1>1, FrameInit, FrameNext, PTL DEF Spec

-----------------------------------------------------------------------------
(* Durability: whoever is about to fsync has its record in the file.       *)
SyncWritten ==
  \A c \in Clients : pc[c] = "sync" =>
    \E i \in 1 .. Len(log) : log[i] = CommandRecord(task[c], sel[c])

DurableInv == FrameInv /\ SyncWritten /\ AckedDurable

(* Nothing but AofSync makes a recorded answer; every other step keeps     *)
(* what is on disk, and AckedDurable with it.                              *)
LEMMA AckedKept ==
  ASSUME FrameInv, AckedDurable, synced' \in Nat, synced <= synced',
         \A i \in 1 .. synced : log'[i] = log[i],
         \A h \in answered' : h \in answered \/ ~Records(h.op, h.reply)
  PROVE  AckedDurable'
<1> SUFFICES ASSUME ~IOErrors, NEW h \in answered', Records(h.op, h.reply)
             PROVE  \E i \in 1 .. synced' : IsRecordOf(i, h)'
  BY DEF AckedDurable
<1>1. PICK i \in 1 .. synced : IsRecordOf(i, h)
  BY DEF AckedDurable
<1>2. synced \in Nat /\ i \in 1 .. synced'
  BY LenProperties DEF FrameInv, TypeInv, TypeOK
<1> QED
  BY <1>1, <1>2 DEF IsRecordOf

LEMMA DurableNext == DurableInv /\ [Next]_vars => DurableInv'
<1> SUFFICES ASSUME DurableInv, [Next]_vars PROVE DurableInv'
  OBVIOUS
<1> USE DEF DurableInv
<1>1. FrameInv' /\ TypeInv
  BY FrameNext DEF FrameInv
<1>2. /\ log \in Seq(LogRecords) /\ Len(log) \in Nat /\ synced \in 0 .. Len(log)
      /\ pc \in [Clients -> Pcs] /\ task \in [Clients -> Tasks] /\ sel \in [Clients -> DBs]
  BY <1>1, LenProperties DEF TypeInv, TypeOK
<1>3. ASSUME UNCHANGED <<log, synced, answered>> PROVE AckedDurable'
  BY <1>3 DEF AckedDurable, IsRecordOf
<1>4. ASSUME NEW c \in Clients, Select(c) PROVE DurableInv'
  <2>1. UNCHANGED <<log, synced, answered, pc, task>> /\ pc[c] = "idle"
        /\ \A o \in Clients \ {c} : sel'[o] = sel[o]
    BY <1>2, <1>4 DEF Select, aof
  <2>2. SyncWritten'
    BY <2>1 DEF SyncWritten
  <2> QED
    BY <1>1, <1>3, <2>1, <2>2
<1>5. ASSUME NEW c \in Clients, Issue(c) PROVE DurableInv'
  <2>1. UNCHANGED <<log, synced, answered, sel>> /\ pc'[c] # "sync"
        /\ \A o \in Clients \ {c} : pc'[o] = pc[o] /\ task'[o] = task[o]
    BY <1>2, <1>5 DEF Issue, Go, aof
  <2>2. SyncWritten'
    BY <2>1 DEF SyncWritten
  <2> QED
    BY <1>1, <1>3, <2>1, <2>2
<1>6. ASSUME NEW c \in Clients, Dict(c) PROVE DurableInv'
  <2>1. Frame(c)
    BY <1>1, <1>6, DictFrame DEF FrameInv
  <2>2. UNCHANGED <<log, synced, sel>> /\ pc'[c] # "sync"
        /\ \A o \in Clients \ {c} : pc'[o] = pc[o] /\ task'[o] = task[o]
    BY <1>1, <2>1, FrameFacts DEF Frame, aof, InAof
  <2>3. SyncWritten'
    BY <2>2 DEF SyncWritten
  <2>4. \A h \in answered' : h \in answered \/ ~Records(h.op, h.reply)
    <3>1. CASE UNCHANGED answered
      BY <3>1
    <3>2. CASE \E r \in Replies : Finish(c, r) /\ ~Records(task[c].op, r)
      BY <3>2 DEF Finish
    <3> QED
      BY <1>1, <2>1, <3>1, <3>2, FrameFacts
  <2>5. AckedDurable'
    BY <1>2, <2>2, <2>4, AckedKept
  <2> QED
    BY <1>1, <2>3, <2>5
<1>7. ASSUME NEW c \in Clients, AofLock(c) PROVE DurableInv'
  <2>1. UNCHANGED <<log, synced, answered, sel>> /\ pc'[c] # "sync"
        /\ \A o \in Clients \ {c} : pc'[o] = pc[o] /\ task'[o] = task[o]
    BY <1>2, <1>7 DEF AofLock, Go
  <2>2. SyncWritten'
    BY <2>1 DEF SyncWritten
  <2> QED
    BY <1>1, <1>3, <2>1, <2>2
<1>8. ASSUME NEW c \in Clients, AofSelect(c) \/ AofWrite(c) PROVE DurableInv'
  <2>1. PICK r \in LogRecords :
          /\ log' = Append(log, r)
          /\ AofWrite(c) => r = CommandRecord(task[c], sel[c])
    <3>1. SelectRecord(sel[c]) \in LogRecords
      BY <1>2 DEF SelectRecord, LogRecords
    <3>2. AofWrite(c) => CommandRecord(task[c], sel[c]) \in LogRecords
      BY <1>1, <1>2 DEF AofWrite, CommandRecord, LogRecords, Tasks, TypeInv, TaskFormed, Formed
    <3> QED
      BY <1>8, <3>1, <3>2 DEF AofSelect, AofWrite
  <2>2. /\ Len(log') = Len(log) + 1 /\ \A j \in 1 .. Len(log) : log'[j] = log[j]
        /\ log'[Len(log')] = r
    BY <1>2, <2>1, AppendProperties
  <2>3. /\ UNCHANGED <<synced, answered, sel>> /\ pc'[c] \in {"write", "sync"}
        /\ pc'[c] = "sync" => AofWrite(c)
        /\ task'[c] = task[c]
        /\ \A o \in Clients \ {c} : pc'[o] = pc[o] /\ task'[o] = task[o]
    BY <1>2, <1>8 DEF AofSelect, AofWrite, Go
  <2>4. SyncWritten'
    <3> SUFFICES ASSUME NEW o \in Clients, pc'[o] = "sync"
                 PROVE  \E i \in 1 .. Len(log') : log'[i] = CommandRecord(task'[o], sel'[o])
      BY DEF SyncWritten, CommandRecord
    <3>1. CASE o = c
      <4>1. Len(log') \in 1 .. Len(log') /\ log'[Len(log')] = CommandRecord(task'[c], sel'[c])
        BY <1>2, <2>1, <2>2, <2>3, <3>1
      <4> QED
        BY <3>1, <4>1
    <3>2. CASE o # c
      <4>1. PICK i \in 1 .. Len(log) : log[i] = CommandRecord(task[o], sel[o])
        BY <2>3, <3>2 DEF SyncWritten
      <4>2. i \in 1 .. Len(log') /\ log'[i] = CommandRecord(task'[o], sel'[o])
        BY <1>2, <2>2, <2>3, <3>2, <4>1
      <4> QED
        BY <4>2
    <3> QED
      BY <3>1, <3>2
  <2>5. AckedDurable'
    BY <1>2, <2>2, <2>3, AckedKept
  <2> QED
    BY <1>1, <2>4, <2>5
<1>9. ASSUME NEW c \in Clients, AofSync(c) PROVE DurableInv'
  <2>1. /\ log' = log /\ synced' = Len(log) /\ sel' = sel /\ pc[c] = "sync"
        /\ Finish(c, LoggedReply(task[c])) /\ pc'[c] = "idle"
        /\ \A o \in Clients \ {c} : pc'[o] = pc[o] /\ task'[o] = task[o]
    BY <1>2, <1>9 DEF AofSync, Finish, Go
  <2>2. SyncWritten'
    BY <2>1 DEF SyncWritten
  <2>3. AckedDurable'
    <3> SUFFICES ASSUME ~IOErrors, NEW h \in answered', Records(h.op, h.reply)
                 PROVE  \E i \in 1 .. synced' : IsRecordOf(i, h)'
      BY DEF AckedDurable
    <3>1. CASE h \in answered
      <4>1. PICK i \in 1 .. synced : IsRecordOf(i, h)
        BY <3>1 DEF AckedDurable
      <4> QED
        BY <1>2, <2>1, <4>1 DEF IsRecordOf
    <3>2. CASE h \notin answered
      <4>1. /\ h.id = task[c].id /\ h.db = sel[c] /\ h.op = task[c].op
            /\ h.keys = task[c].keys
        BY <2>1, <3>2 DEF Finish
      <4>2. PICK i \in 1 .. Len(log) : log[i] = CommandRecord(task[c], sel[c])
        BY <2>1 DEF SyncWritten
      <4> QED
        BY <2>1, <4>1, <4>2 DEF IsRecordOf, CommandRecord
    <3> QED
      BY <3>1, <3>2
  <2> QED
    BY <1>1, <2>2, <2>3
<1>10. ASSUME NEW c \in Clients, AofError(c) PROVE DurableInv'
  <2>1. IOErrors /\ UNCHANGED <<log, sel>> /\ pc'[c] = "idle"
        /\ \A o \in Clients \ {c} : pc'[o] = pc[o] /\ task'[o] = task[o]
    BY <1>2, <1>10 DEF AofError, Finish, Go
  <2> QED
    BY <1>1, <2>1 DEF SyncWritten, AckedDurable
<1>11. CASE Load
  BY <1>1, <1>3, <1>11 DEF Load, LoadRecord, StartServing, aof, conns, SyncWritten
<1>12. CASE ProcessCrash \/ PowerLoss
  <2>1. Restart
    BY <1>12 DEF ProcessCrash, PowerLoss
  <2>2. SyncWritten'
    BY <2>1 DEF Restart, SyncWritten
  <2>3. synced' \in Nat /\ synced <= synced' /\ \A i \in 1 .. synced : log'[i] = log[i]
    <3>1. CASE ProcessCrash
      BY <1>2, <3>1 DEF ProcessCrash
    <3>2. CASE PowerLoss
      <4>1. PICK n \in synced .. Len(log) : log' = SubSeq(log, 1, n) /\ synced' = n
        BY <3>2 DEF PowerLoss
      <4>2. n \in 0 .. Len(log)
        BY <1>2
      <4> QED
        BY <1>1, <1>2, <4>1, <4>2, PrefixFormed
    <3> QED
      BY <1>12, <3>1, <3>2
  <2>4. AckedDurable'
    BY <2>1, <2>3, AckedKept DEF Restart
  <2> QED
    BY <1>1, <2>2, <2>4
<1>13. CASE UNCHANGED vars
  BY <1>1, <1>3, <1>13 DEF vars, SyncWritten
<1> QED
  BY <1>4, <1>5, <1>6, <1>7, <1>8, <1>9, <1>10, <1>11, <1>12, <1>13 DEF Next, Done, Aof

(* An acknowledged write is on disk, through any number of crashes and     *)
(* power losses, as long as the disk itself does not fail.                 *)
THEOREM Durability == Spec => []AckedDurable
<1>1. Init => DurableInv
  BY FrameInit DEF Init, DurableInv, SyncWritten, AckedDurable
<1>2. DurableInv => AckedDurable
  BY DEF DurableInv
<1> QED
  BY <1>1, <1>2, DurableNext, PTL DEF Spec

-----------------------------------------------------------------------------
(* Which commands are in the append-only file, and how often.              *)

(* A command keeps its number until it is answered, and nobody else has    *)
(* it; before its write it is not in the file, where only commands that    *)
(* were sent are.                                                          *)
Busy(c)    == pc[c] # "idle"
Sent(n)    == n \in 1 .. nextId - 1
InLog(n)   == \E i \in 1 .. Len(log) : log[i].id = n

TaskIds    == \A c \in Clients : Busy(c) => Sent(task[c].id)
OwnIds     == \A c, d \in Clients : Busy(c) /\ Busy(d) /\ task[c].id = task[d].id => c = d
AnswerIds  == \A h \in answered :
                Sent(h.id) /\ \A c \in Clients : Busy(c) => task[c].id # h.id
RecordIds  == \A i \in 1 .. Len(log) :
                IF log[i].op = "select" THEN log[i].id = 0 ELSE Sent(log[i].id)
Unwritten  == \A c \in Clients : Busy(c) /\ pc[c] # "sync" => ~InLog(task[c].id)

IdInv == /\ TaskIds /\ OwnIds /\ AnswerIds /\ RecordIds /\ Unwritten
         /\ LoggedOnce /\ RefusedNotLogged

LogInv == FrameInv /\ IdInv

LEMMA IdInit == Init => IdInv
BY DEF Init, IdInv, TaskIds, OwnIds, AnswerIds, RecordIds, Unwritten, Busy,
       LoggedOnce, RefusedNotLogged

LEMMA LogInvFacts ==
  ASSUME FrameInv
  PROVE  /\ log \in Seq(LogRecords) /\ Len(log) \in Nat /\ nextId \in Nat \ {0}
         /\ pc \in [Clients -> Pcs] /\ task \in [Clients -> Tasks]
         /\ sel \in [Clients -> DBs] /\ synced \in 0 .. Len(log)
BY LenProperties DEF FrameInv, TypeInv, TypeOK

(* A handler goes on with its command, or answers it with a reply that     *)
(* says it was written, or that it was not and it is not.                  *)
LEMMA IdsKept ==
  ASSUME LogInv, NEW c \in Clients, Busy(c), UNCHANGED <<log, nextId>>,
         \A o \in Clients \ {c} : pc'[o] = pc[o] /\ task'[o] = task[o],
         \/ /\ UNCHANGED answered /\ task'[c].id = task[c].id
            /\ pc'[c] = "sync" => pc[c] = "sync"
            /\ pc[c] = "sync" => pc'[c] = "sync"
         \/ /\ pc'[c] = "idle"
            /\ \E h \in [id : {task[c].id}, db : DBs, op : Ops, keys : Seq(Keys), reply : Replies] :
                 /\ answered' = answered \union {h}
                 /\ Records(h.op, h.reply) \/ ~InLog(task[c].id)
  PROVE  IdInv'
<1> USE DEF LogInv, IdInv
<1>1. TaskIds' /\ OwnIds'
  BY DEF TaskIds, OwnIds, Busy, Sent
<1>2. AnswerIds'
  BY DEF AnswerIds, OwnIds, TaskIds, Busy, Sent
<1>3. RecordIds' /\ LoggedOnce'
  BY DEF RecordIds, LoggedOnce, Sent
<1>4. Unwritten'
  BY DEF Unwritten, Busy, InLog
<1>5. RefusedNotLogged'
  BY DEF RefusedNotLogged, InLog
<1> QED
  BY <1>1, <1>2, <1>3, <1>4, <1>5

(* One record more: a SELECT, or the one command that its handler has not  *)
(* written yet.                                                            *)
LEMMA IdsAppend ==
  ASSUME LogInv, NEW c \in Clients, Busy(c), pc[c] # "sync", pc'[c] # "idle",
         UNCHANGED <<nextId, answered>>, task'[c] = task[c],
         \A o \in Clients \ {c} : pc'[o] = pc[o] /\ task'[o] = task[o],
         NEW r \in LogRecords, log' = Append(log, r),
         \/ r.op = "select" /\ r.id = 0 /\ pc'[c] # "sync"
         \/ r.op # "select" /\ r.id = task[c].id /\ pc'[c] = "sync"
  PROVE  IdInv'
<1> USE DEF LogInv, IdInv
<1>1. /\ Len(log) \in Nat /\ Len(log') = Len(log) + 1
      /\ \A j \in 1 .. Len(log) : log'[j] = log[j]
      /\ log'[Len(log')] = r
  BY LogInvFacts, AppendProperties
<1>2. \A j \in 1 .. Len(log') : j \in 1 .. Len(log) \/ j = Len(log')
  BY <1>1
<1>3. Sent(task[c].id) /\ ~InLog(task[c].id) /\ 0 # task[c].id
  BY DEF TaskIds, Unwritten, Sent
<1>4. TaskIds' /\ OwnIds' /\ AnswerIds'
  BY DEF TaskIds, OwnIds, AnswerIds, Busy, Sent
<1>5. RecordIds'
  BY <1>1, <1>2, <1>3 DEF RecordIds, Sent
<1>6. ASSUME NEW n, InLog(n)' PROVE InLog(n) \/ n = r.id
  BY <1>1, <1>2, <1>6 DEF InLog
<1>7. Unwritten'
  <2> SUFFICES ASSUME NEW d \in Clients, Busy(d)', pc'[d] # "sync"
               PROVE  ~InLog(task[d].id)' /\ task'[d] = task[d]
    BY DEF Unwritten, InLog
  <2> QED
    BY <1>3, <1>6 DEF Unwritten, OwnIds, TaskIds, Busy, Sent
<1>8. LoggedOnce'
  <2> SUFFICES ASSUME NEW i \in 1 .. Len(log'), NEW j \in 1 .. Len(log'),
                      log'[i].op # "select", log'[i].id = log'[j].id
               PROVE  i = j
    BY DEF LoggedOnce
  <2> QED
    BY <1>1, <1>2, <1>3 DEF LoggedOnce, InLog, RecordIds, Sent
<1>9. RefusedNotLogged'
  <2> SUFFICES ASSUME NEW h \in answered, ~Records(h.op, h.reply), NEW i \in 1 .. Len(log')
               PROVE  log'[i].id # h.id
    BY DEF RefusedNotLogged
  <2>1. h.id # task[c].id /\ h.id # 0
    BY DEF AnswerIds, Sent
  <2> QED
    BY <1>1, <1>2, <2>1 DEF RefusedNotLogged
<1> QED
  BY <1>4, <1>5, <1>7, <1>8, <1>9

LEMMA LogInvNext == LogInv /\ [Next]_vars => LogInv'
<1> SUFFICES ASSUME LogInv, [Next]_vars PROVE LogInv'
  OBVIOUS
<1>1. FrameInv' /\ FrameInv /\ IdInv /\ TypeInv
  BY FrameNext DEF LogInv, FrameInv
<1> SUFFICES IdInv'
  BY <1>1 DEF LogInv
<1>2. /\ log \in Seq(LogRecords) /\ Len(log) \in Nat /\ nextId \in Nat \ {0}
      /\ pc \in [Clients -> Pcs] /\ task \in [Clients -> Tasks]
      /\ sel \in [Clients -> DBs] /\ synced \in 0 .. Len(log)
  BY <1>1, LogInvFacts
<1>3. ASSUME UNCHANGED <<log, nextId, answered, pc, task>> PROVE IdInv'
  BY <1>1, <1>3 DEF IdInv, TaskIds, OwnIds, AnswerIds, RecordIds, Unwritten, Busy, Sent,
                    InLog, LoggedOnce, RefusedNotLogged
<1>4. ASSUME NEW c \in Clients, Select(c) PROVE IdInv'
  BY <1>3, <1>4 DEF Select, aof
<1>5. ASSUME NEW c \in Clients, Issue(c) PROVE IdInv'
  <2>1. /\ UNCHANGED <<log, answered>> /\ nextId' = nextId + 1 /\ ~Busy(c)
        /\ pc'[c] = "exec" /\ task'[c].id = nextId
        /\ \A o \in Clients \ {c} : pc'[o] = pc[o] /\ task'[o] = task[o]
    BY <1>2, <1>5 DEF Issue, Go, aof, NoTask, Busy
  <2>2. \A n : Sent(n) => Sent(n)' /\ n # nextId
    BY <1>2, <2>1 DEF Sent
  <2>3. nextId \in 1 .. nextId' - 1
    BY <1>2, <2>1
  <2>4. ~InLog(nextId)
    <3>1. ~Sent(nextId) /\ nextId # 0
      BY <1>2 DEF Sent
    <3> QED
      BY <1>1, <3>1 DEF IdInv, RecordIds, InLog
  <2>5. TaskIds'
    <3> SUFFICES ASSUME NEW d \in Clients, Busy(d)'
                 PROVE  Sent(task[d].id)'
      BY DEF TaskIds
    <3>1. CASE d = c
      BY <2>1, <2>3, <3>1 DEF Sent
    <3>2. CASE d # c
      <4>1. Sent(task[d].id) /\ task'[d] = task[d]
        BY <1>1, <2>1, <3>2 DEF IdInv, TaskIds, Busy
      <4> QED
        BY <1>2, <2>1, <4>1 DEF Sent
    <3> QED
      BY <3>1, <3>2
  <2>6. OwnIds'
    <3>1. \A d \in Clients \ {c} : Busy(d)' => Busy(d) /\ task'[d].id = task[d].id /\ task[d].id # nextId
      BY <1>1, <2>1, <2>2 DEF IdInv, TaskIds, Busy
    <3> QED
      BY <1>1, <2>1, <3>1 DEF IdInv, OwnIds
  <2>7. AnswerIds' /\ RecordIds'
    BY <1>1, <2>1, <2>2 DEF IdInv, AnswerIds, RecordIds, Busy
  <2>8. Unwritten'
    BY <1>1, <2>1, <2>4 DEF IdInv, Unwritten, Busy, InLog
  <2>9. LoggedOnce' /\ RefusedNotLogged'
    BY <1>1, <2>1 DEF IdInv, LoggedOnce, RefusedNotLogged
  <2> QED
    BY <2>5, <2>6, <2>7, <2>8, <2>9 DEF IdInv
<1>6. ASSUME NEW c \in Clients, Dict(c) PROVE IdInv'
  <2>1. Frame(c)
    BY <1>1, <1>6, DictFrame DEF FrameInv
  <2>2. /\ UNCHANGED <<log, nextId>> /\ Busy(c) /\ pc[c] # "sync" /\ pc'[c] # "sync"
        /\ \A o \in Clients \ {c} : pc'[o] = pc[o] /\ task'[o] = task[o]
    BY <1>1, <2>1, FrameFacts DEF Frame, aof, InAof, Busy
  <2>3. CASE UNCHANGED answered /\ task'[c].id = task[c].id
    BY <2>2, <2>3, IdsKept
  <2>4. CASE (\E r \in Replies : Finish(c, r) /\ ~Records(task[c].op, r)) /\ pc'[c] = "idle"
    <3>1. PICK r \in Replies : Finish(c, r)
      BY <2>4
    <3> DEFINE h == [id |-> task[c].id, db |-> sel[c], op |-> task[c].op,
                     keys |-> task[c].keys, reply |-> r]
    <3>2. h \in [id : {task[c].id}, db : DBs, op : Ops, keys : Seq(Keys), reply : Replies]
      BY <1>2 DEF Tasks
    <3>3. answered' = answered \union {h}
      BY <3>1 DEF Finish
    <3>4. ~InLog(task[c].id)
      BY <1>1, <2>2 DEF IdInv, Unwritten
    <3> QED
      BY <2>2, <2>4, <3>2, <3>3, <3>4, IdsKept
  <2> QED
    BY <1>1, <2>1, <2>3, <2>4, FrameFacts
<1>7. ASSUME NEW c \in Clients, AofLock(c) PROVE IdInv'
  <2>1. /\ UNCHANGED <<log, nextId, answered>> /\ pc[c] = "lock"
        /\ pc'[c] \in {"select", "write"} /\ task'[c] = task[c]
        /\ \A o \in Clients \ {c} : pc'[o] = pc[o] /\ task'[o] = task[o]
    BY <1>2, <1>7 DEF AofLock, Go
  <2> QED
    BY <2>1, IdsKept DEF Busy
<1>8. ASSUME NEW c \in Clients, AofSelect(c) PROVE IdInv'
  <2>1. /\ UNCHANGED <<nextId, answered>> /\ pc[c] = "select" /\ pc'[c] = "write"
        /\ task'[c] = task[c] /\ log' = Append(log, SelectRecord(sel[c]))
        /\ \A o \in Clients \ {c} : pc'[o] = pc[o] /\ task'[o] = task[o]
    BY <1>2, <1>8 DEF AofSelect, Go
  <2>2. SelectRecord(sel[c]) \in LogRecords /\ SelectRecord(sel[c]).op = "select"
        /\ SelectRecord(sel[c]).id = 0
    BY <1>2 DEF SelectRecord, LogRecords
  <2> QED
    BY <2>1, <2>2, IdsAppend DEF Busy
<1>9. ASSUME NEW c \in Clients, AofWrite(c) PROVE IdInv'
  <2>1. /\ UNCHANGED <<nextId, answered>> /\ pc[c] = "write" /\ pc'[c] = "sync"
        /\ task'[c] = task[c] /\ log' = Append(log, CommandRecord(task[c], sel[c]))
        /\ \A o \in Clients \ {c} : pc'[o] = pc[o] /\ task'[o] = task[o]
    BY <1>2, <1>9 DEF AofWrite, Go
  <2>2. task[c] \in Tasks /\ task[c].op \in Writers /\ "select" \notin Writers
    BY <1>1, <2>1 DEF TypeInv, TypeOK, TaskFormed, Formed, Writers
  <2>3. /\ CommandRecord(task[c], sel[c]) \in LogRecords
        /\ CommandRecord(task[c], sel[c]).op # "select"
        /\ CommandRecord(task[c], sel[c]).id = task[c].id
    BY <1>2, <2>2 DEF CommandRecord, LogRecords, Tasks
  <2> QED
    BY <2>1, <2>3, IdsAppend DEF Busy
<1>10. ASSUME NEW c \in Clients, AofSync(c) \/ AofError(c) PROVE IdInv'
  <2>1. /\ UNCHANGED <<log, nextId>> /\ pc[c] \in InAof /\ pc'[c] = "idle"
        /\ Finish(c, LoggedReply(task[c]))
        /\ \A o \in Clients \ {c} : pc'[o] = pc[o] /\ task'[o] = task[o]
    BY <1>2, <1>10 DEF AofSync, AofError, Finish, Go, InAof
  <2> DEFINE h == [id |-> task[c].id, db |-> sel[c], op |-> task[c].op,
                   keys |-> task[c].keys, reply |-> LoggedReply(task[c])]
  <2>2. task[c] \in Tasks /\ Records(task[c].op, LoggedReply(task[c]))
    BY <1>1, <2>1 DEF FrameInv, TypeInv, TypeOK, TaskCounted, Counted
  <2>3. LoggedReply(task[c]) \in Replies
    BY <2>2, ReplyType DEF LoggedReply, Tasks
  <2>4. h \in [id : {task[c].id}, db : DBs, op : Ops, keys : Seq(Keys), reply : Replies]
    BY <1>2, <2>2, <2>3 DEF Tasks
  <2>5. answered' = answered \union {h}
    BY <2>1 DEF Finish
  <2>6. Busy(c)
    BY <2>1 DEF Busy, InAof
  <2> QED
    BY <2>1, <2>2, <2>4, <2>5, <2>6, IdsKept
<1>11. CASE Load
  BY <1>3, <1>11 DEF Load, LoadRecord, StartServing, aof, conns
<1>12. CASE ProcessCrash \/ PowerLoss
  <2>1. /\ Restart /\ UNCHANGED <<answered, nextId>> /\ \A c \in Clients : ~Busy(c)'
    BY <1>12 DEF ProcessCrash, PowerLoss, Restart, Busy
  <2>2. Len(log') \in 0 .. Len(log) /\ \A j \in 1 .. Len(log') : log'[j] = log[j]
    <3>1. CASE ProcessCrash
      BY <1>2, <3>1 DEF ProcessCrash
    <3>2. CASE PowerLoss
      <4>1. PICK n \in synced .. Len(log) : log' = SubSeq(log, 1, n)
        BY <3>2 DEF PowerLoss
      <4>2. n \in 0 .. Len(log)
        BY <1>2
      <4> QED
        BY <1>1, <1>2, <4>1, <4>2, PrefixFormed
    <3> QED
      BY <1>12, <3>1, <3>2
  <2>3. \A j \in 1 .. Len(log') : j \in 1 .. Len(log)
    BY <1>2, <2>2
  <2>4. TaskIds' /\ OwnIds' /\ AnswerIds' /\ Unwritten'
    BY <1>1, <2>1 DEF IdInv, TaskIds, OwnIds, AnswerIds, Unwritten, Sent
  <2>5. RecordIds' /\ LoggedOnce' /\ RefusedNotLogged'
    BY <1>1, <2>1, <2>2, <2>3, SMTT(60) DEF IdInv, RecordIds, LoggedOnce, RefusedNotLogged, Sent
  <2> QED
    BY <2>4, <2>5 DEF IdInv
<1>13. CASE UNCHANGED vars
  BY <1>3, <1>13 DEF vars
<1> QED
  BY <1>4, <1>5, <1>6, <1>7, <1>8, <1>9, <1>10, <1>11, <1>12, <1>13 DEF Next, Done, Aof

LEMMA LogInvariant == Spec => []LogInv
<1>1. Init => LogInv
  BY FrameInit, IdInit DEF LogInv
<1> QED
  BY <1>1, LogInvNext, PTL DEF Spec

(* A command is in the file at most once, through any number of restarts:  *)
(* replaying the file writes nothing back.                                 *)
THEOREM WrittenOnce == Spec => []LoggedOnce
<1>1. LogInv => LoggedOnce
  BY DEF LogInv, IdInv
<1> QED
  BY <1>1, LogInvariant, PTL

(* What a client was refused is not in the file, and never comes to be     *)
(* there, whatever the other handlers and the crashes do.                  *)
THEOREM RefusalsLeaveNoTrace == Spec => []RefusedNotLogged
<1>1. LogInv => RefusedNotLogged
  BY DEF LogInv, IdInv
<1> QED
  BY <1>1, LogInvariant, PTL
=============================================================================
