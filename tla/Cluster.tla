------------------------------- MODULE Cluster -------------------------------
(***************************************************************************)
(* The cluster: every node runs this program with a standalone database of *)
(* its own and, for each other node, a pool of PeerClients.  A command     *)
(* goes to the node that consistent hashing names for its first key; DEL   *)
(* and FLUSHDB go to every node.  Relaying a command to a peer is to       *)
(* borrow a client, send SELECT and then the command, each with a timeout  *)
(* of its own, and to return the client.  At the peer the command comes in *)
(* on a connection like any other and is routed again.                     *)
(*                                                                         *)
(* A node's own execution of a command is one step here: Standalone has    *)
(* its interleavings.  A pooled connection may break; what PeerClient does *)
(* then is reduced to what its callers see: requests that are lost, the    *)
(* rest on a new connection, and replies that answer other requests.       *)
(***************************************************************************)
EXTENDS Keyspace, ConsistentHash

CONSTANTS Nodes,
          Order,     \* cluster.nodes of each node: its peers, and itself last
          Clients,
          Home,      \* the node each client is connected to
          Menu,      \* what each client may send
          PoolSize,  \* clients in a pool
          MaxQueue,  \* bound: requests on their way in one connection
          MaxCmds,   \* bound: commands sent in a behaviour
          MaxTrouble, \* bound: connections that break, and broadcasts, together
          MaxRuns,   \* bound: executions that are counted
          None

ASSUME TopologyAssumption ==
  /\ Home \in [Clients -> Nodes]
  /\ \A s \in Nodes : /\ Order[s] \in Seq(Nodes) /\ Range(Order[s]) = Nodes
                     /\ Order[s][Len(Order[s])] = s
(* If two nodes' hashes were the same, each of the two would take itself   *)
(* for the owner of what hashes to it: it comes last in its own list.      *)
ASSUME HashAssumption ==
  /\ Hash \in [Nodes \union Keys -> Nat] /\ NoName \notin Nodes
  /\ \A s, t \in Nodes : Hash[s] = Hash[t] => s = t
ASSUME BoundsAssumption ==
  /\ PoolSize \in Nat \ {0} /\ MaxQueue \in Nat \ {0}
  /\ MaxCmds \in Nat /\ MaxTrouble \in Nat /\ MaxRuns \in Nat
ASSUME NoneAssumption == None \notin Clients

(* Each node's peerPicker, and where it looks for each key.                *)
PeerPicker == [s \in Nodes |-> AddNodes(EmptyRing, Order[s])]
Owner      == [s \in Nodes |-> [k \in Keys |-> PickNode(PeerPicker[s], k)]]

(* The pooled clients, and connections: those of the cluster's clients, and *)
(* those that a pooled client has one after the other.                     *)
Links == {[from |-> s, to |-> t, i |-> i] : s \in Nodes, t \in Nodes, i \in 1 .. PoolSize}
Pooled    == {l \in Links : l.from # l.to}
PeerConns == {[client |-> l, gen |-> g] : l \in Pooled, g \in 0 .. MaxTrouble}
Conns     == Clients \union PeerConns
Where(c)  == IF c \in Clients THEN Home[c] ELSE c.client.to

VARIABLES
  store,    \* the standalone database of each node
  curDB,    \* the selectedDB of each connection, at the node it leads to
  handler,  \* what the goroutine of each connection is doing
  inbox,    \* requests on their way in each pooled connection
  link,     \* [gen, up]: the connection of each pooled client
  breaks,   \* how many connections broke
  lent,     \* the handler that borrowed each pooled client
  sent,     \* history: the commands the clients sent
  outcome,  \* history: what the owner answered to each command
  ran,      \* history: how often each node executed each command
  answered, \* history: what the clients were told
  nextId

vars == <<store, curDB, handler, inbox, link, breaks, lent, sent, outcome, ran, answered, nextId>>
network == <<inbox, link, breaks>>
history == <<sent, outcome, ran, answered, nextId>>

-----------------------------------------------------------------------------
Routed   == {"get", "set", "setnx", "getset", "exists"}   \* defaultFunc
Erasers  == {"del", "flushdb"}
Local    == {"ping"}
Renamers == {"rename", "renamenx"}
NoReply  == Reply("none", 0, {})
NoCommand == [id |-> 0, db |-> 0, op |-> "ping", keys |-> <<>>]

(* A handler: its command, the nodes it has yet to visit, the client it    *)
(* has borrowed, the reply so far, and who waits for that reply.           *)
(* "visit" is between two relays, "select" and "wait" wait for a peer.     *)
Idle == [st |-> "idle", cmd |-> NoCommand, todo |-> <<>>, on |-> None,
         reply |-> NoReply, to |-> None]

(* What the peer parses a relayed reply into, and sends on: a bulk reply   *)
(* becomes an array.                                                       *)
Relayed(r) == IF r.kind = "bulk" /\ r.n # Nil THEN Reply("multi", r.n, {}) ELSE r

(* The replies of a broadcast: any error, or the sum, or OK.               *)
Merge(op, old, r) ==
  IF op \notin Erasers THEN r
  ELSE IF "err" \in {old.kind, r.kind} \/ (op = "del" /\ r.kind # "int") THEN ErrReply
  ELSE IF op = "del" THEN IntReply(old.n + r.n) ELSE OkReply

(* The handler of c goes on to its next node, or has its answer.           *)
Visited(h, r) == [st |-> "visit", cmd |-> h.cmd, todo |-> Tail(h.todo), on |-> None,
                  reply |-> Merge(h.cmd.op, h.reply, r), to |-> h.to]

-----------------------------------------------------------------------------
(* A command arrives: from a client, or in the body of a relayed request.  *)

(* Faulty variant: a command on one key is executed where it arrives. *)
AcceptHere(c, x, to) ==
  LET h == [Idle EXCEPT !.st = "visit", !.cmd = x, !.to = to]
  IN  CASE x.op \in Routed \union Local -> [h EXCEPT !.todo = <<Where(c)>>]
        [] x.op \in Erasers -> [h EXCEPT !.todo = Order[Where(c)]]
        [] OTHER -> [h EXCEPT !.reply = ErrReply]

(* A RENAME is refused: across nodes by Rename itself, and else because it *)
(* is relayed to the "peer" that bears the new key's name, for which there *)
(* is no pool (nor does any node have such an address).                    *)
RenameRefused(h) == [h EXCEPT !.reply = ErrReply]

(* Router; the commands that it does not have are not supported. *)
Accept(c, x, to) ==
  LET h == [Idle EXCEPT !.st = "visit", !.cmd = x, !.to = to]
  IN  CASE x.op \in Routed -> [h EXCEPT !.todo = <<Owner[Where(c)][x.keys[1]]>>]
        [] x.op \in Erasers -> [h EXCEPT !.todo = Order[Where(c)]]
        [] x.op \in Local -> [h EXCEPT !.todo = <<Where(c)>>]
        [] x.op \in Renamers -> RenameRefused(h)
        [] OTHER -> [h EXCEPT !.reply = ErrReply]

Trouble == breaks + Cardinality({x \in sent : x.op \in Erasers})

Issue(c) ==
  /\ c \in Clients /\ handler[c].st = "idle" /\ nextId <= MaxCmds
  /\ \E m \in Menu[c] :
       LET x == [id |-> nextId, db |-> curDB[c], op |-> m.op, keys |-> m.keys]
       IN  /\ m.op \in Erasers => Trouble < MaxTrouble
           /\ handler' = [handler EXCEPT ![c] = Accept(c, x, None)]
           /\ sent' = sent \union {x}
  /\ nextId' = nextId + 1
  /\ UNCHANGED <<store, curDB, network, lent, outcome, ran, answered>>

Select(c) ==
  /\ c \in Clients /\ handler[c].st = "idle" /\ nextId <= MaxCmds
  /\ \E d \in DBs \ {curDB[c]} : curDB' = [curDB EXCEPT ![c] = d]
  /\ UNCHANGED <<store, handler, network, lent, history>>

(* A pooled connection is served one request at a time, like a client's.   *)
Receive(c) ==
  /\ c \in PeerConns /\ handler[c].st = "idle" /\ inbox[c] # <<>>
  /\ inbox' = [inbox EXCEPT ![c] = Tail(@)]
  /\ LET m == Head(inbox[c])
     IN  IF m.what = "select"
         THEN /\ curDB' = [curDB EXCEPT ![c] = m.cmd.db]
              /\ handler' = IF m.to = None THEN handler
                            ELSE [handler EXCEPT ![m.to].st = "send"]
         ELSE /\ handler' = [handler EXCEPT ![c] =
                   Accept(c, [m.cmd EXCEPT !.db = curDB[c]], m.to)]
              /\ UNCHANGED curDB
  /\ UNCHANGED <<store, link, breaks, lent, history>>

-----------------------------------------------------------------------------
(* A handler visits the nodes of its command.                              *)

Next1(c) == Head(handler[c].todo)
Visits(c) == handler[c].st = "visit" /\ handler[c].todo # <<>>

ExecHere(c) ==
  /\ Visits(c) /\ Next1(c) = Where(c)
  /\ LET s == Where(c)
         x == handler[c].cmd
         m == store[s][x.db]
         r == Answer(x.op, x.keys, m)
     IN  /\ store' = [store EXCEPT ![s][x.db] = After(x.op, x.keys, x.id, m)]
         /\ handler' = [handler EXCEPT ![c] = Visited(@, r)]
         /\ outcome' = [outcome EXCEPT ![x.id] = IF x.op \in Erasers THEN @ ELSE r]
         /\ ran' = [ran EXCEPT ![x.id][s] = IF @ < MaxRuns THEN @ + 1 ELSE @]
  /\ UNCHANGED <<curDB, network, lent, sent, answered, nextId>>

Line(l) == [client |-> l, gen |-> link[l].gen]

(* A request is written to the connection.  If that is broken the bytes    *)
(* are lost, or the write fails and the client dials again; a request that *)
(* could not be written at all is as good as lost.                         *)
Write(l, m) ==
  \/ /\ link[l].up
     /\ inbox' = [inbox EXCEPT ![Line(l)] = Append(@, m)] /\ UNCHANGED link
  \/ ~link[l].up /\ UNCHANGED <<inbox, link>>
  \/ /\ ~link[l].up
     /\ link' = [link EXCEPT ![l] = [gen |-> @.gen + 1, up |-> TRUE]]
     /\ inbox' = [inbox EXCEPT ![[Line(l) EXCEPT !.gen = @ + 1]] = <<m>>]

Borrows(c, l) ==
  /\ Visits(c) /\ l.from = Where(c) /\ l.to = Next1(c)
  /\ lent[l] = None /\ Len(inbox[Line(l)]) < MaxQueue
  /\ lent' = [lent EXCEPT ![l] = c]

(* Faulty variant: the command is sent without its SELECT. *)
BorrowNoSelect(c) ==
  \E l \in Pooled :
    /\ Borrows(c, l)
    /\ handler' = [handler EXCEPT ![c].st = "send", ![c].on = l]
    /\ UNCHANGED <<store, curDB, network, history>>

(* BorrowObject waits, without a timeout, for a client of the pool; SELECT *)
(* with the client's database is the first thing sent on it.               *)
Borrow(c) ==
  \E l \in Pooled :
    /\ Borrows(c, l)
    /\ handler' = [handler EXCEPT ![c].st = "select", ![c].on = l]
    /\ Write(l, [what |-> "select", cmd |-> [NoCommand EXCEPT !.db = handler[c].cmd.db],
                 to |-> c])
    /\ UNCHANGED <<store, curDB, breaks, history>>

(* The SELECT was answered, or timed out: its reply is not looked at. *)
Forward(c) ==
  /\ handler[c].st = "send"
  /\ handler' = [handler EXCEPT ![c].st = "wait"]
  /\ Write(handler[c].on, [what |-> "command", cmd |-> handler[c].cmd, to |-> c])
  /\ UNCHANGED <<store, curDB, breaks, lent, history>>

(* Whatever is still on its way in l, or runs at its end, has nobody who   *)
(* waits for it any more.                                                  *)
Unawaited(q) == [j \in DOMAIN q |-> [q[j] EXCEPT !.to = None]]
Abandon(l)   == inbox' = [inbox EXCEPT ![Line(l)] = Unawaited(@)]

SelectTimesOut(c) ==
  /\ handler[c].st = "select"
  /\ Abandon(handler[c].on)
  /\ handler' = [handler EXCEPT ![c].st = "send"]
  /\ UNCHANGED <<store, curDB, link, breaks, lent, history>>

(* The wait ends with r whatever becomes of the request.                   *)
EndsWith(c, r) ==
  /\ handler[c].st = "wait"
  /\ Abandon(handler[c].on)
  /\ handler' = [handler EXCEPT ![c] = Visited(@, r), ![Line(handler[c].on)].to = None]
  /\ UNCHANGED <<store, curDB, link, breaks, history>>

(* Faulty variant: the early return on an error forgets the client. *)
WaitTimesOutLeaks(c) == EndsWith(c, ErrReply) /\ UNCHANGED lent

(* "server time out", and the client goes back to the pool. *)
WaitTimesOut(c) == EndsWith(c, ErrReply) /\ lent' = [lent EXCEPT ![handler[c].on] = None]

(* After a redial the queue of waiting requests is off by some: the reply  *)
(* is that to another request, of a SELECT, a PING or a command.           *)
Mispaired(c) ==
  /\ handler[c].on # None /\ link[handler[c].on].gen > 0
  /\ \E r \in {OkReply} \union {Relayed(outcome[n]) : n \in 1 .. nextId - 1} :
       r # NoReply /\ EndsWith(c, r)
  /\ lent' = [lent EXCEPT ![handler[c].on] = None]

(* The peer may have received a part of what was on its way, and goes on   *)
(* with that.                                                              *)
Break(l) ==
  /\ link[l].up /\ Trouble < MaxTrouble
  /\ link' = [link EXCEPT ![l].up = FALSE] /\ breaks' = breaks + 1
  /\ \E n \in 0 .. Len(inbox[Line(l)]) :
       inbox' = [inbox EXCEPT ![Line(l)] = Unawaited(SubSeq(@, 1, n))]
  /\ handler' = [handler EXCEPT ![Line(l)].to = None]
  /\ UNCHANGED <<store, curDB, lent, history>>

(* All nodes were visited: the answer goes to the client, or back to the   *)
(* node that relayed the command, which returns its pooled client.         *)
Finish(c) ==
  /\ handler[c].st = "visit" /\ handler[c].todo = <<>>
  /\ LET h == handler[c]
     IN  IF c \in Clients
         THEN /\ answered' = answered \union {[cmd |-> h.cmd, reply |-> h.reply]}
              /\ handler' = [handler EXCEPT ![c] = Idle]
              /\ UNCHANGED lent
         ELSE /\ UNCHANGED answered
              /\ IF h.to = None
                 THEN handler' = [handler EXCEPT ![c] = Idle] /\ UNCHANGED lent
                 ELSE /\ handler' = [handler EXCEPT ![c] = Idle,
                                       ![h.to] = Visited(@, Relayed(h.reply))]
                      /\ lent' = [lent EXCEPT ![c.client] = None]
  /\ UNCHANGED <<store, curDB, network, sent, outcome, ran, nextId>>

-----------------------------------------------------------------------------
Init ==
  /\ store = [s \in Nodes |-> [d \in DBs |-> Empty]]
  /\ curDB = [c \in Conns |-> 0]
  /\ handler = [c \in Conns |-> Idle]
  /\ inbox = [c \in PeerConns |-> <<>>]
  /\ link = [l \in Pooled |-> [gen |-> 0, up |-> TRUE]] /\ breaks = 0
  /\ lent = [l \in Pooled |-> None]
  /\ sent = {} /\ outcome = [n \in 1 .. MaxCmds |-> NoReply]
  /\ ran = [n \in 1 .. MaxCmds |-> [s \in Nodes |-> 0]]
  /\ answered = {} /\ nextId = 1

Works(c) == \/ Receive(c) \/ ExecHere(c) \/ Forward(c)
            \/ SelectTimesOut(c) \/ WaitTimesOut(c) \/ Mispaired(c) \/ Finish(c)

Done == /\ nextId > MaxCmds /\ \A c \in Conns : handler[c].st = "idle"
        /\ \A c \in PeerConns : inbox[c] = <<>>
        /\ UNCHANGED vars

Next == \/ \E c \in Conns : Issue(c) \/ Select(c) \/ Works(c) \/ Borrow(c)
        \/ \E l \in Pooled : Break(l)
        \/ Done

Spec == Init /\ [][Next]_vars

(* Goroutines run and timers fire; the pool passes over no waiting borrower *)
(* for ever.                                                               *)
FairSpec == Spec /\ \A c \in Conns : WF_vars(Works(c)) /\ SF_vars(Borrow(c))

-----------------------------------------------------------------------------
(* Properties.                                                             *)

(* A key is never stored anywhere but at the one node that every node      *)
(* takes for its owner, however the command that wrote it travelled, so    *)
(* that no two nodes disagree on its value.                                *)
StoredAtOwner ==
  \A s \in Nodes, d \in DBs, k \in Keys :
    store[s][d][k] # Nil => \A t \in Nodes : Owner[t][k] = s

(* Every client is answered, although handlers wait for handlers that wait *)
(* for them and for the clients they have borrowed.                        *)
ClientsAnswered ==
  \A c \in Clients : handler[c].st # "idle" ~> handler[c].st = "idle"

AnyOwner == Owner[CHOOSE s \in Nodes : TRUE]

(* The cluster is one store to its clients, whichever node they use.       *)
Map == INSTANCE RoutedStore WITH
  store <- [d \in DBs |-> [k \in Keys |-> store[AnyOwner[k]][d][k]]],
  call  <- [c \in Clients |->
             IF handler[c].st = "idle" THEN [cmd |-> NoCommand, reply |-> NoReply]
             ELSE [cmd |-> handler[c].cmd, reply |-> outcome[handler[c].cmd.id]]],
  loose <- {h.cmd : h \in {g \in answered : /\ g.cmd.op \notin Erasers
                                            /\ outcome[g.cmd.id] = NoReply}},
  broken <- breaks > 0,
  erasing <- {x \in sent : x.op \in Erasers}

(* Routing, the two Sends of a relay, their timeouts and the pool take     *)
(* effect as one step of the routed store, or none.                        *)
ImplementsRoutedStore == Map!Spec

(* README.md:29, README.md:216: a DEL is one command of the client that    *)
(* sends it, and forwarding is transparent: no node executes it twice.     *)
ErasedOnce == \A n \in 1 .. MaxCmds, s \in Nodes : ran[n][s] <= 1
=============================================================================
