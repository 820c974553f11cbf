---------------------------- MODULE DurableStore ----------------------------
(***************************************************************************)
(* What a client may expect of a durable server: a command takes effect at *)
(* one moment, on the whole of its database and in the same moment as it   *)
(* is answered.  When the process stops, at most one command that was sent *)
(* and not answered happens all the same.  A loss of power may take such   *)
(* commands back, one after the other, until the next write is answered:   *)
(* what was answered is never lost, what was only read may be.             *)
(***************************************************************************)
EXTENDS Keyspace

CONSTANTS Clients, Menu, MaxCmds

VARIABLES store,     \* the contents of each database
          kept,      \* what a loss of power may leave of them
          call,      \* the command each client waits for
          answered,  \* the commands answered so far
          nextId

vars == <<store, kept, call, answered, nextId>>

NoCall == [id |-> 0, db |-> 0, op |-> "ping", keys |-> <<>>]

Init == /\ store = [d \in DBs |-> Empty]
        /\ kept = {store}
        /\ call = [c \in Clients |-> NoCall]
        /\ answered = {} /\ nextId = 1

Submit(c) ==
  /\ call[c] = NoCall /\ nextId <= MaxCmds
  /\ \E cmd \in Menu[c] :
       call' = [call EXCEPT ![c] =
                  [id |-> nextId, db |-> cmd.db, op |-> cmd.op, keys |-> cmd.keys]]
  /\ nextId' = nextId + 1
  /\ UNCHANGED <<store, kept, answered>>

Effect(x) == [store EXCEPT ![x.db] = After(x.op, x.keys, x.id, @)]

(* The answer to a command that is recorded means that it is on disk, and  *)
(* all that came before it.                                                *)
Perform(c) ==
  /\ call[c] # NoCall
  /\ store' = Effect(call[c])
  /\ LET x == call[c]
         r == Answer(x.op, x.keys, store[x.db])
     IN  /\ answered' = answered \union
              {[id |-> x.id, db |-> x.db, op |-> x.op, keys |-> x.keys, reply |-> r]}
         /\ kept' = IF Records(x.op, r) THEN {store'} ELSE kept
  /\ call' = [call EXCEPT ![c] = NoCall]
  /\ UNCHANGED nextId

(* What the commands that nobody was answered may have made of the store.  *)
Overtaken == {Effect(call[c]) : c \in {o \in Clients : call[o] # NoCall}}

Stop == /\ call' = [c \in Clients |-> NoCall]
        /\ UNCHANGED <<answered, nextId>>

ProcessStops ==
  /\ store' \in {store} \union Overtaken
  /\ kept' = kept \union {store'}
  /\ Stop

PowerFails ==
  /\ store' \in kept \union Overtaken
  /\ kept' = {store'}
  /\ Stop

Next == (\E c \in Clients : Submit(c) \/ Perform(c)) \/ ProcessStops \/ PowerFails

Spec == Init /\ [][Next]_vars
=============================================================================
