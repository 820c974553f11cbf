----------------------------- MODULE RoutedStore -----------------------------
(***************************************************************************)
(* What a client of the cluster may expect, whichever node it is connected *)
(* to: one store, in which a command takes effect at most once, at one     *)
(* moment, in the client's own database.  An error says nothing about the  *)
(* effect: the command may still take it, later.  Deleting is not a        *)
(* command of this kind: once DEL or FLUSHDB was sent, the keys it names   *)
(* may disappear at any later moment, and again.                           *)
(*                                                                         *)
(* Once a connection between nodes broke there is less to expect: a        *)
(* command may take effect in database 0 instead of the client's, and what *)
(* it is answered may be the answer to another.  It is still no more than  *)
(* once.                                                                   *)
(***************************************************************************)
EXTENDS Keyspace

CONSTANTS Clients, Menu, MaxCmds

VARIABLES store,     \* the contents of each database
          call,      \* the command each client waits for
          loose,     \* commands given up on that may still take effect
          erasing,   \* the DELs and FLUSHDBs sent so far
          answered,  \* the commands answered so far
          broken,    \* whether a connection broke
          nextId

vars == <<store, call, loose, erasing, answered, broken, nextId>>

Erasers == {"del", "flushdb"}
NoCall  == [id |-> 0, db |-> 0, op |-> "ping", keys |-> <<>>]
NoReply == Reply("none", 0, {})

(* A bulk reply that comes from another node is an array of one element.   *)
Relayed(r) == IF r.kind = "bulk" /\ r.n # Nil THEN Reply("multi", r.n, {}) ELSE r

Init == /\ store = [d \in DBs |-> Empty]
        /\ call = [c \in Clients |-> [cmd |-> NoCall, reply |-> NoReply]]
        /\ loose = {} /\ erasing = {} /\ answered = {} /\ broken = FALSE /\ nextId = 1

Submit(c) ==
  /\ call[c].cmd = NoCall /\ nextId <= MaxCmds
  /\ \E m \in Menu[c], d \in DBs :
       LET x == [id |-> nextId, db |-> d, op |-> m.op, keys |-> m.keys]
       IN  /\ call' = [call EXCEPT ![c] = [cmd |-> x, reply |-> NoReply]]
           /\ erasing' = IF m.op \in Erasers THEN erasing \union {x} ELSE erasing
  /\ nextId' = nextId + 1
  /\ UNCHANGED <<store, loose, answered, broken>>

(* Where a command takes effect. *)
Reach(x) == {x.db} \union IF broken THEN {0} ELSE {}

Takes(x, d) == store' = [store EXCEPT ![d] = After(x.op, x.keys, x.id, @)]

Perform(c) ==
  LET x == call[c].cmd
  IN  /\ x # NoCall /\ x.op \notin Erasers /\ call[c].reply = NoReply
      /\ \E d \in Reach(x) :
           /\ Takes(x, d)
           /\ call' = [call EXCEPT ![c].reply = Answer(x.op, x.keys, store[d])]
      /\ UNCHANGED <<loose, erasing, answered, broken, nextId>>

Answers(c, r) ==
  /\ answered' = answered \union {[cmd |-> call[c].cmd, reply |-> r]}
  /\ call' = [call EXCEPT ![c] = [cmd |-> NoCall, reply |-> NoReply]]
  /\ UNCHANGED <<store, erasing, broken, nextId>>

Return(c) ==
  /\ call[c].reply # NoReply
  /\ Answers(c, call[c].reply) \/ Answers(c, Relayed(call[c].reply))
  /\ UNCHANGED loose

(* What a mispaired answer may say. *)
AnyReply == {OkReply} \union UNION {{IntReply(n), BulkReply(n), Relayed(BulkReply(n))}
                                    : n \in 0 .. MaxCmds}

GiveUp(c) ==
  /\ call[c].cmd # NoCall
  /\ \E r \in {ErrReply} \union IF broken THEN AnyReply ELSE {} : Answers(c, r)
  /\ loose' = IF call[c].reply = NoReply /\ call[c].cmd.op \notin Erasers
              THEN loose \union {call[c].cmd} ELSE loose

Late(x) ==
  /\ x \in loose /\ loose' = loose \ {x}
  /\ \E d \in Reach(x) : Takes(x, d)
  /\ UNCHANGED <<call, erasing, answered, broken, nextId>>

Erase(x) ==
  /\ x \in erasing
  /\ \E S \in SUBSET (IF x.op = "del" THEN Range(x.keys) ELSE Keys), d \in Reach(x) :
       store' = [store EXCEPT ![d] = [k \in Keys |-> IF k \in S THEN Nil ELSE @[k]]]
  /\ UNCHANGED <<call, loose, erasing, answered, broken, nextId>>

Break == broken' = TRUE /\ UNCHANGED <<store, call, loose, erasing, answered, nextId>>

Next == \/ \E c \in Clients : Submit(c) \/ Perform(c) \/ Return(c) \/ GiveUp(c)
        \/ \E x \in loose : Late(x)
        \/ \E x \in erasing : Erase(x)
        \/ Break

Spec == Init /\ [][Next]_vars
=============================================================================
