---------------------------- MODULE ClusterProofs ----------------------------
(***************************************************************************)
(* About the ring, for any names and any hash that tells the nodes apart:  *)
(* nodes that list the same names, in whatever order, agree on the owner   *)
(* of every key, and a name that is added takes keys for itself only.      *)
(*                                                                         *)
(* About the cluster, for any nodes, lists of peers, hashes, pools and     *)
(* commands, with timeouts and with breaks: a key is stored nowhere but at *)
(* its owner.                                                              *)
(***************************************************************************)
EXTENDS Cluster, FiniteSetTheorems, TLAPS

-----------------------------------------------------------------------------
(* A finite set of numbers has a last and a first element.                 *)

LEMMA LastOne ==
  ASSUME NEW S \in SUBSET Int, IsFiniteSet(S), S # {}
  PROVE  \E i \in S : \A j \in S : j <= i
<1> DEFINE Later(i) == {j \in S : j > i}
           T == {Later(i) : i \in S}
<1>1. T \subseteq FiniteSubsetsOf(S) /\ T # {}
  <2>1. ASSUME NEW i \in S PROVE Later(i) \in SUBSET S /\ IsFiniteSet(Later(i))
    BY FS_Subset
  <2> HIDE DEF Later
  <2> QED
    BY <2>1 DEF FiniteSubsetsOf
<1>2. PICK X \in T : \A Y \in T : ~(<<Y, X>> \in StrictSubsetOrdering(S))
  BY <1>1, FS_StrictSubsetOrderingWellFounded, WFMin
<1>3. PICK i \in S : X = Later(i)
  BY <1>2
<1>4. ASSUME NEW j \in Later(i) PROVE FALSE
  <2>0. j \in S /\ j \in Int /\ i \in Int /\ j > i /\ \A k \in S : k \in Int
    BY <1>4
  <2>1. Later(j) \in T /\ Later(j) \subseteq Later(i) /\ j \notin Later(j)
    <3>1. Later(j) \in T
      BY <2>0
    <3>2. ASSUME NEW k \in Later(j) PROVE k \in Later(i)
      BY <2>0, <3>2
    <3>3. j \notin Later(j)
      BY <2>0
    <3> QED
      BY <3>1, <3>2, <3>3
  <2>2. <<Later(j), Later(i)>> \in StrictSubsetOrdering(S)
    BY <1>4, <2>1 DEF StrictSubsetOrdering
  <2> QED
    BY <1>2, <1>3, <2>1, <2>2
<1> QED
  BY <1>4

LEMMA FirstOne ==
  ASSUME NEW S \in SUBSET Int, IsFiniteSet(S), S # {}
  PROVE  \E i \in S : \A j \in S : i <= j
<1> DEFINE Earlier(i) == {j \in S : j < i}
           T == {Earlier(i) : i \in S}
<1>1. T \subseteq FiniteSubsetsOf(S) /\ T # {}
  <2>1. ASSUME NEW i \in S PROVE Earlier(i) \in SUBSET S /\ IsFiniteSet(Earlier(i))
    BY FS_Subset
  <2> HIDE DEF Earlier
  <2> QED
    BY <2>1 DEF FiniteSubsetsOf
<1>2. PICK X \in T : \A Y \in T : ~(<<Y, X>> \in StrictSubsetOrdering(S))
  BY <1>1, FS_StrictSubsetOrderingWellFounded, WFMin
<1>3. PICK i \in S : X = Earlier(i)
  BY <1>2
<1>4. ASSUME NEW j \in Earlier(i) PROVE FALSE
  <2>0. j \in S /\ j \in Int /\ i \in Int /\ j < i /\ \A k \in S : k \in Int
    BY <1>4
  <2>1. Earlier(j) \in T /\ Earlier(j) \subseteq Earlier(i) /\ j \notin Earlier(j)
    <3>1. Earlier(j) \in T
      BY <2>0
    <3>2. ASSUME NEW k \in Earlier(j) PROVE k \in Earlier(i)
      BY <2>0, <3>2
    <3>3. j \notin Earlier(j)
      BY <2>0
    <3> QED
      BY <3>1, <3>2, <3>3
  <2>2. <<Earlier(j), Earlier(i)>> \in StrictSubsetOrdering(S)
    BY <1>4, <2>1 DEF StrictSubsetOrdering
  <2> QED
    BY <1>2, <1>3, <2>1, <2>2
<1> QED
  BY <1>4

-----------------------------------------------------------------------------
(* Nodes that list the same names, in any order and any number of times.   *)

(* With hashes that differ it does not matter which of several equal names *)
(* stays: the ring is the map from hashes back to names.                   *)
LEMMA RingOfNames ==
  ASSUME NEW S, NEW names \in Seq(S), NoName \notin S,
         \A i \in DOMAIN names : Hash[names[i]] \in Int,
         \A i, j \in DOMAIN names : Hash[names[i]] = Hash[names[j]] => names[i] = names[j]
  PROVE  /\ DOMAIN AddNodes(EmptyRing, names) = {Hash[names[i]] : i \in DOMAIN names}
         /\ \A i \in DOMAIN names : AddNodes(EmptyRing, names)[Hash[names[i]]] = names[i]
         /\ AddNodes(EmptyRing, names) =
              [h \in DOMAIN AddNodes(EmptyRing, names) |-> AddNodes(EmptyRing, names)[h]]
<1> DEFINE named == {i \in DOMAIN names : names[i] # NoName}
           at(h) == {i \in named : Hash[names[i]] = h}
           ring == AddNodes(EmptyRing, names)
<1>1. /\ DOMAIN names = 1 .. Len(names) /\ Len(names) \in Nat
      /\ named = DOMAIN names
  <2>1. DOMAIN names = 1 .. Len(names) /\ Len(names) \in Nat /\ \A i \in DOMAIN names : names[i] \in S
    OBVIOUS
  <2> QED
    BY <2>1
<1>2. ring = [h \in {Hash[names[i]] : i \in named} |->
                IF at(h) = {} THEN EmptyRing[h]
                ELSE names[CHOOSE i \in at(h) : \A j \in at(h) : j <= i]]
  BY DEF AddNodes, EmptyRing
<1>3. ASSUME NEW i \in DOMAIN names PROVE ring[Hash[names[i]]] = names[i]
  <2> DEFINE h == Hash[names[i]]
  <2>1. at(h) \in SUBSET Int /\ i \in at(h) /\ IsFiniteSet(at(h))
    <3>1. at(h) \in SUBSET (1 .. Len(names)) /\ i \in at(h)
      BY <1>1
    <3>2. IsFiniteSet(1 .. Len(names))
      BY <1>1, FS_Interval
    <3> QED
      BY <3>1, <3>2, FS_Subset
  <2>2. PICK m \in at(h) : \A j \in at(h) : j <= m
    BY <2>1, LastOne
  <2>3. (CHOOSE n \in at(h) : \A j \in at(h) : j <= n) \in at(h)
    BY <2>2
  <2>4. \A j \in at(h) : names[j] = names[i]
    OBVIOUS
  <2> QED
    BY <1>1, <1>2, <2>1, <2>3, <2>4, ZenonT(60)
<1> QED
  BY <1>1, <1>2, <1>3

LEMMA RingsAgree ==
  ASSUME NEW S, NoName \notin S, \A s \in S : Hash[s] \in Int,
         \A s, t \in S : Hash[s] = Hash[t] => s = t,
         NEW xs \in Seq(S), NEW ys \in Seq(S),
         {xs[i] : i \in DOMAIN xs} = S, {ys[i] : i \in DOMAIN ys} = S
  PROVE  AddNodes(EmptyRing, xs) = AddNodes(EmptyRing, ys)
<1> DEFINE R(zs) == AddNodes(EmptyRing, zs)
<1>1. ASSUME NEW zs \in Seq(S), {zs[i] : i \in DOMAIN zs} = S
      PROVE  R(zs) = [h \in {Hash[s] : s \in S} |-> CHOOSE s \in S : Hash[s] = h]
  <2>1. /\ \A i \in DOMAIN zs : Hash[zs[i]] \in Int
        /\ \A i, j \in DOMAIN zs : Hash[zs[i]] = Hash[zs[j]] => zs[i] = zs[j]
    BY <1>1
  <2>2. /\ DOMAIN R(zs) = {Hash[zs[i]] : i \in DOMAIN zs}
        /\ \A i \in DOMAIN zs : R(zs)[Hash[zs[i]]] = zs[i]
        /\ R(zs) = [h \in DOMAIN R(zs) |-> R(zs)[h]]
    BY <2>1, RingOfNames
  <2> HIDE DEF R
  <2>0. /\ \A s \in S : \E i \in DOMAIN zs : zs[i] = s
        /\ \A i \in DOMAIN zs : zs[i] \in S
    BY <1>1
  <2>3. DOMAIN R(zs) = {Hash[s] : s \in S}
    <3> DEFINE A == {Hash[zs[i]] : i \in DOMAIN zs}
               B == {Hash[s] : s \in S}
    <3>1. A \subseteq B
      BY <2>0
    <3>2. \A s \in S : Hash[s] \in A
      BY <2>0
    <3>3. B \subseteq A
      BY <3>2
    <3> HIDE DEF A, B
    <3>4. A = B
      BY <3>1, <3>3
    <3> QED
      BY <2>2, <3>4 DEF A, B
  <2>4. \A s \in S : R(zs)[Hash[s]] = s
    BY <2>0, <2>2
  <2>5. \A s \in S : s = CHOOSE t \in S : Hash[t] = Hash[s]
    OBVIOUS
  <2>6. \A h \in {Hash[s] : s \in S} : R(zs)[h] = CHOOSE s \in S : Hash[s] = h
    BY <2>4, <2>5
  <2> QED
    BY <2>2, <2>3, <2>6
<1> QED
  BY <1>1

-----------------------------------------------------------------------------
(* A name that is added.                                                   *)

LEMMA LeastFacts ==
  ASSUME NEW S \in SUBSET Int, IsFiniteSet(S), S # {}
  PROVE  /\ Least(S) \in S /\ \A g \in S : Least(S) <= g
         /\ \A h \in S : (\A g \in S : h <= g) => h = Least(S)
<1>1. \E h \in S : \A g \in S : h <= g
  BY FirstOne
<1>2. Least(S) \in S /\ \A g \in S : Least(S) <= g
  BY <1>1 DEF Least
<1>3. ASSUME NEW h \in S, \A g \in S : h <= g PROVE h = Least(S)
  <2>1. h <= Least(S) /\ Least(S) <= h /\ h \in Int /\ Least(S) \in Int
    BY <1>2, <1>3
  <2> QED
    BY <2>1
<1> QED
  BY <1>2, <1>3

LEMMA AddOne ==
  ASSUME NEW ring, NEW name, name # NoName
  PROVE  /\ DOMAIN AddNodes(ring, <<name>>) = DOMAIN ring \union {Hash[name]}
         /\ AddNodes(ring, <<name>>)[Hash[name]] = name
         /\ \A h \in DOMAIN ring : h # Hash[name] => AddNodes(ring, <<name>>)[h] = ring[h]
<1> DEFINE names == <<name>>
           named == {i \in DOMAIN names : names[i] # NoName}
           at(h) == {i \in named : Hash[names[i]] = h}
<1>1. named = {1} /\ names[1] = name
  OBVIOUS
<1>2. AddNodes(ring, names) =
        [h \in DOMAIN ring \union {Hash[names[i]] : i \in named} |->
          IF at(h) = {} THEN ring[h]
          ELSE names[CHOOSE i \in at(h) : \A j \in at(h) : j <= i]]
  BY DEF AddNodes
<1>3. {Hash[names[i]] : i \in named} = {Hash[name]}
  BY <1>1
<1>4. at(Hash[name]) = {1} /\ \A h : h # Hash[name] => at(h) = {}
  BY <1>1
<1>5. (CHOOSE i \in at(Hash[name]) : \A j \in at(Hash[name]) : j <= i) = 1
  BY <1>4
<1> HIDE DEF names, named, at
<1> QED
  BY <1>1, <1>2, <1>3, <1>4, <1>5 DEF names

(* A node that is added takes keys for itself only: no key moves from one  *)
(* of the others to another (consistenthash.go:32-61).                     *)
THEOREM OnlyToNew ==
  ASSUME NEW ring, DOMAIN ring \in SUBSET Int, IsFiniteSet(DOMAIN ring),
         NEW name, name # NoName, Hash[name] \in Int,
         NEW key, Hash[key] \in Int
  PROVE  PickNode(AddNodes(ring, <<name>>), key) \in {PickNode(ring, key), name}
<1> DEFINE D == DOMAIN ring
           n == Hash[name]
           more == AddNodes(ring, <<name>>)
           E == D \union {n}
           above(S) == {h \in S : h >= Hash[key]}
           from(S) == IF above(S) = {} THEN S ELSE above(S)
<1>1. /\ DOMAIN more = E /\ more[n] = name
      /\ \A h \in D : h # n => more[h] = ring[h]
  BY AddOne
<1>2. /\ PickNode(more, key) = more[Least(from(E))]
      /\ D # {} => PickNode(ring, key) = ring[Least(from(D))]
  BY <1>1 DEF PickNode
<1>3. E \in SUBSET Int /\ IsFiniteSet(E)
  BY FS_AddElement
<1>4. /\ from(E) \in SUBSET Int /\ IsFiniteSet(from(E)) /\ from(E) # {}
      /\ from(D) \in SUBSET Int /\ IsFiniteSet(from(D)) /\ (D # {} => from(D) # {})
  <2>1. from(E) \subseteq E /\ from(D) \subseteq D
    OBVIOUS
  <2>2. IsFiniteSet(from(E)) /\ IsFiniteSet(from(D))
    BY <1>3, <2>1, FS_Subset
  <2> QED
    BY <1>3, <2>1, <2>2
<1>5. ASSUME Least(from(E)) # n
      PROVE  D # {} /\ Least(from(E)) = Least(from(D)) /\ Least(from(D)) \in D
  <2> DEFINE least == Least(from(E))
  <2>1. least \in from(E) /\ \A g \in from(E) : least <= g
    BY <1>4, LeastFacts
  <2>2. least \in D /\ D # {}
    BY <1>5, <2>1
  <2>3. from(D) \subseteq from(E) /\ least \in from(D)
    BY <2>1, <2>2
  <2> HIDE DEF from, least
  <2>4. \A g \in from(D) : least <= g
    BY <2>1, <2>3
  <2>5. least = Least(from(D))
    BY <1>4, <2>2, <2>3, <2>4, LeastFacts
  <2> QED
    BY <2>2, <2>5 DEF least
<1> QED
  BY <1>1, <1>2, <1>5

-----------------------------------------------------------------------------
(* Keys at their owner.                                                    *)

(* A handler has its fields, whatever they hold. *)
Handlers(A, B, C, D, E, F) == [st : A, cmd : B, todo : C, on : D, reply : E, to : F]

(* The nodes that a command has yet to visit: one on a single key its      *)
(* owner, as the node sees it that routes; RENAME none.                    *)
Guided(c, h) ==
  /\ h.cmd.op \in Routed => h.todo \in {<<>>, <<Owner[Where(c)][h.cmd.keys[1]]>>}
  /\ h.cmd.op \notin Routed \union Erasers \union Local => h.todo = <<>>

AllGuided(H) ==
  /\ \E A, B, C, D, E, F : H \in [Conns -> Handlers(A, B, C, D, E, F)]
  /\ \A c \in Conns : Guided(c, H[c])

OwnerInv ==
  /\ AllGuided(handler)
  /\ \E V : store \in [Nodes -> [DBs -> [Keys -> V]]]
  /\ StoredAtOwner

-----------------------------------------------------------------------------
(* All nodes have one view of the ring.                                    *)

LEMMA OneView == \A s, t \in Nodes : Owner[s] = Owner[t]
<1> SUFFICES ASSUME NEW s \in Nodes, NEW t \in Nodes PROVE Owner[s] = Owner[t]
  OBVIOUS
<1>1. \A u \in Nodes : Order[u] \in Seq(Nodes) /\ {Order[u][i] : i \in DOMAIN Order[u]} = Nodes
  BY TopologyAssumption DEF Range
<1>2. AddNodes(EmptyRing, Order[s]) = AddNodes(EmptyRing, Order[t])
  <2>1. /\ NoName \notin Nodes /\ \A u \in Nodes : Hash[u] \in Int
        /\ \A u, v \in Nodes : Hash[u] = Hash[v] => u = v
    BY HashAssumption
  <2> QED
    BY <1>1, <2>1, RingsAgree
<1> QED
  BY <1>2 DEF Owner, PeerPicker

LEMMA ConnsLead == \A c \in Conns : Where(c) \in Nodes
BY TopologyAssumption DEF Conns, PeerConns, Pooled, Links, Where

-----------------------------------------------------------------------------
(* What becomes of handlers.                                               *)

LEMMA SetField ==
  ASSUME NEW H, AllGuided(H), NEW c, NEW x
  PROVE  /\ AllGuided([H EXCEPT ![c].st = x])
         /\ AllGuided([H EXCEPT ![c].on = x])
         /\ AllGuided([H EXCEPT ![c].to = x])
<1>1. PICK A, B, C, D, E, F : H \in [Conns -> Handlers(A, B, C, D, E, F)]
  BY DEF AllGuided
<1>2. AllGuided([H EXCEPT ![c].st = x])
  <2> DEFINE G == [H EXCEPT ![c].st = x]
  <2>1. G \in [Conns -> Handlers(A \union {x}, B, C, D, E, F)]
    BY <1>1 DEF Handlers
  <2>2. \A d \in Conns : G[d].cmd = H[d].cmd /\ G[d].todo = H[d].todo
    BY <1>1 DEF Handlers
  <2> HIDE DEF G
  <2>3. \A d \in Conns : Guided(d, G[d])
    BY <2>2 DEF AllGuided, Guided
  <2>4. AllGuided(G)
    BY <2>1, <2>3 DEF AllGuided
  <2> QED
    BY <2>4 DEF G
<1>3. AllGuided([H EXCEPT ![c].on = x])
  <2> DEFINE G == [H EXCEPT ![c].on = x]
  <2>1. G \in [Conns -> Handlers(A, B, C, D \union {x}, E, F)]
    BY <1>1 DEF Handlers
  <2>2. \A d \in Conns : G[d].cmd = H[d].cmd /\ G[d].todo = H[d].todo
    BY <1>1 DEF Handlers
  <2> HIDE DEF G
  <2>3. \A d \in Conns : Guided(d, G[d])
    BY <2>2 DEF AllGuided, Guided
  <2>4. AllGuided(G)
    BY <2>1, <2>3 DEF AllGuided
  <2> QED
    BY <2>4 DEF G
<1>4. AllGuided([H EXCEPT ![c].to = x])
  <2> DEFINE G == [H EXCEPT ![c].to = x]
  <2>1. G \in [Conns -> Handlers(A, B, C, D, E, F \union {x})]
    BY <1>1 DEF Handlers
  <2>2. \A d \in Conns : G[d].cmd = H[d].cmd /\ G[d].todo = H[d].todo
    BY <1>1 DEF Handlers
  <2> HIDE DEF G
  <2>3. \A d \in Conns : Guided(d, G[d])
    BY <2>2 DEF AllGuided, Guided
  <2>4. AllGuided(G)
    BY <2>1, <2>3 DEF AllGuided
  <2> QED
    BY <2>4 DEF G
<1> QED
  BY <1>2, <1>3, <1>4

LEMMA SetHandler ==
  ASSUME NEW H, AllGuided(H), NEW c, NEW h, Guided(c, h),
         NEW a, NEW b, NEW s, NEW d, NEW e, NEW f,
         h = [st |-> a, cmd |-> b, todo |-> s, on |-> d, reply |-> e, to |-> f]
  PROVE  AllGuided([H EXCEPT ![c] = h])
<1>1. PICK A, B, C, D, E, F : H \in [Conns -> Handlers(A, B, C, D, E, F)]
  BY DEF AllGuided
<1> DEFINE G == [H EXCEPT ![c] = h]
<1>2. G \in [Conns -> Handlers(A \union {a}, B \union {b}, C \union {s}, D \union {d},
                               E \union {e}, F \union {f})]
  BY <1>1 DEF Handlers
<1>3. \A x \in Conns : G[x] = IF x = c THEN h ELSE H[x]
  BY <1>1
<1> HIDE DEF G
<1> QED
  BY <1>2, <1>3 DEF AllGuided

LEMMA SetIdle ==
  ASSUME NEW H, AllGuided(H), NEW c
  PROVE  AllGuided([H EXCEPT ![c] = Idle])
<1>1. Guided(c, Idle)
  BY DEF Idle, NoCommand, Guided, Routed, Local
<1> QED
  BY <1>1, SetHandler DEF Idle

LEMMA SetAccepted ==
  ASSUME NEW H, AllGuided(H), NEW c, NEW x, NEW to
  PROVE  AllGuided([H EXCEPT ![c] = Accept(c, x, to)])
<1> DEFINE h == Accept(c, x, to)
<1>1. Guided(c, h)
  BY DEF Accept, Guided, Idle, RenameRefused, Routed, Erasers, Local, Renamers
<1>2. \E s, e : h = [st |-> "visit", cmd |-> x, todo |-> s, on |-> None, reply |-> e, to |-> to]
  BY DEF Accept, Idle, RenameRefused
<1>3. PICK s, e : h = [st |-> "visit", cmd |-> x, todo |-> s, on |-> None, reply |-> e, to |-> to]
  BY <1>2
<1> HIDE DEF h
<1>4. AllGuided([H EXCEPT ![c] = h])
  BY <1>1, <1>3, SetHandler
<1> QED
  BY <1>4 DEF h

(* One node less, and the same command. *)
LEMMA SetVisited ==
  ASSUME NEW H, AllGuided(H), NEW c, NEW r
  PROVE  AllGuided([H EXCEPT ![c] = Visited(@, r)])
<1>1. CASE c \in Conns
  <2>1. Tail(<<>>) = <<>> /\ \A x : Tail(<<x>>) = <<>>
    OBVIOUS
  <2>2. Guided(c, Visited(H[c], r))
    BY <1>1, <2>1 DEF AllGuided, Guided, Visited
  <2> QED
    BY <2>2, SetHandler DEF Visited
<1>2. CASE c \notin Conns
  <2>1. [H EXCEPT ![c] = Visited(@, r)] = H
    BY <1>2 DEF AllGuided
  <2> QED
    BY <2>1
<1> QED
  BY <1>1, <1>2

-----------------------------------------------------------------------------
(* AllGuided, action by action.                                            *)

LEMMA GuidedStep ==
  ASSUME AllGuided(handler), [Next]_vars
  PROVE  AllGuided(handler')
<1>1. ASSUME NEW c \in Conns, Issue(c) PROVE AllGuided(handler')
  <2>1. PICK x : handler' = [handler EXCEPT ![c] = Accept(c, x, None)]
    BY <1>1 DEF Issue
  <2>2. AllGuided([handler EXCEPT ![c] = Accept(c, x, None)])
    BY SetAccepted
  <2> QED
    BY <2>1, <2>2
<1>2. ASSUME NEW c \in Conns, Receive(c) PROVE AllGuided(handler')
  <2>1. \/ handler' = handler
        \/ \E d : handler' = [handler EXCEPT ![d].st = "send"]
        \/ \E x, to : handler' = [handler EXCEPT ![c] = Accept(c, x, to)]
    BY <1>2 DEF Receive
  <2>2. \A d : AllGuided([handler EXCEPT ![d].st = "send"])
    BY SetField
  <2>3. \A x, to : AllGuided([handler EXCEPT ![c] = Accept(c, x, to)])
    BY SetAccepted
  <2> QED
    BY <2>1, <2>2, <2>3
<1>3. ASSUME NEW c \in Conns, ExecHere(c) PROVE AllGuided(handler')
  <2>1. PICK r : handler' = [handler EXCEPT ![c] = Visited(@, r)]
    BY <1>3 DEF ExecHere
  <2>2. AllGuided([handler EXCEPT ![c] = Visited(@, r)])
    BY SetVisited
  <2> QED
    BY <2>1, <2>2
<1>4. ASSUME NEW c \in Conns, Borrow(c) PROVE AllGuided(handler')
  <2>1. PICK l : handler' = [[handler EXCEPT ![c].st = "select"] EXCEPT ![c].on = l]
    BY <1>4 DEF Borrow
  <2> QED
    BY <2>1, SetField
<1>5. ASSUME NEW c \in Conns, Forward(c) \/ SelectTimesOut(c) PROVE AllGuided(handler')
  <2>1. AllGuided([handler EXCEPT ![c].st = "wait"]) /\ AllGuided([handler EXCEPT ![c].st = "send"])
    BY SetField
  <2> QED
    BY <1>5, <2>1 DEF Forward, SelectTimesOut
<1>6. ASSUME NEW c \in Conns, NEW r, EndsWith(c, r) PROVE AllGuided(handler')
  <2>1. PICK d : handler' = [[handler EXCEPT ![c] = Visited(@, r)] EXCEPT ![d].to = None]
    BY <1>6 DEF EndsWith
  <2>2. AllGuided([handler EXCEPT ![c] = Visited(@, r)])
    BY SetVisited
  <2> QED
    BY <2>1, <2>2, SetField
<1>7. ASSUME NEW c \in Conns, WaitTimesOut(c) \/ Mispaired(c) PROVE AllGuided(handler')
  BY <1>6, <1>7 DEF WaitTimesOut, Mispaired
<1>8. ASSUME NEW c \in Conns, Finish(c) PROVE AllGuided(handler')
  <2>1. AllGuided([handler EXCEPT ![c] = Idle])
    BY SetIdle
  <2>2. \/ handler' = [handler EXCEPT ![c] = Idle]
        \/ \E d, r : handler' = [[handler EXCEPT ![c] = Idle] EXCEPT ![d] = Visited(@, r)]
    BY <1>8 DEF Finish
  <2> QED
    BY <2>1, <2>2, SetVisited
<1>9. ASSUME NEW l \in Pooled, Break(l) PROVE AllGuided(handler')
  BY <1>9, SetField DEF Break
<1>10. ASSUME NEW c \in Conns, Select(c) PROVE AllGuided(handler')
  BY <1>10 DEF Select
<1>11. CASE UNCHANGED vars
  BY <1>11 DEF vars
<1> QED
  BY <1>1, <1>2, <1>3, <1>4, <1>5, <1>7, <1>8, <1>9, <1>10, <1>11 DEF Next, Works, Done

-----------------------------------------------------------------------------
(* What a node stores.                                                     *)

LEMMA AfterRouted ==
  ASSUME NEW V, NEW m \in [Keys -> V], NEW op \in Routed, NEW ks, NEW v
  PROVE  /\ After(op, ks, v, m) \in [Keys -> V \union {v}]
         /\ \A k \in Keys : k # ks[1] => After(op, ks, v, m)[k] = m[k]
<1>1. After(op, ks, v, m) \in {m, Assign(m, ks[1], v)}
  BY DEF After, Routed
<1> QED
  BY <1>1 DEF Assign

LEMMA AfterOther ==
  ASSUME NEW V, NEW m \in [Keys -> V], NEW op \in Erasers \union Local, NEW ks, NEW v
  PROVE  /\ After(op, ks, v, m) \in [Keys -> V \union {Nil}]
         /\ \A k \in Keys : After(op, ks, v, m)[k] \in {m[k], Nil}
<1>1. After(op, ks, v, m) \in {m, [k \in Keys |-> IF k \in Range(ks) THEN Nil ELSE m[k]], Empty}
  BY DEF After, Erasers, Local
<1> QED
  BY <1>1 DEF Empty

LEMMA ExecStores ==
  ASSUME OwnerInv, NEW c \in Conns, ExecHere(c)
  PROVE  (\E V : store \in [Nodes -> [DBs -> [Keys -> V]]])' /\ StoredAtOwner'
<1> DEFINE w == Where(c)
           x == handler[c].cmd
           new == After(x.op, x.keys, x.id, store[w][x.db])
<1>1. PICK V : store \in [Nodes -> [DBs -> [Keys -> V]]]
  BY DEF OwnerInv
<1>2. /\ store' = [store EXCEPT ![w] = [store[w] EXCEPT ![x.db] = new]] /\ w \in Nodes
      /\ handler[c].todo # <<>> /\ Head(handler[c].todo) = w
      /\ Guided(c, handler[c])
  BY ConnsLead DEF ExecHere, Visits, Next1, OwnerInv, AllGuided
<1>3. CASE x.db \notin DBs
  <2>1. store' = store
    BY <1>1, <1>2, <1>3
  <2> QED
    BY <1>1, <2>1 DEF OwnerInv, StoredAtOwner
<1>4. CASE x.db \in DBs
  <2>1. store[w][x.db] \in [Keys -> V]
    BY <1>1, <1>2, <1>4
  <2>2. /\ new \in [Keys -> V \union {x.id, Nil}]
        /\ \A k \in Keys : new[k] \in {store[w][x.db][k], Nil} \/ Owner[w][k] = w
    <3>1. CASE x.op \in Routed
      <4>1. Owner[w][x.keys[1]] = w
        BY <1>2, <3>1 DEF Guided
      <4>2. /\ new \in [Keys -> V \union {x.id}]
            /\ \A k \in Keys : k # x.keys[1] => new[k] = store[w][x.db][k]
        <5> DEFINE op == x.op
                   ks == x.keys
                   v  == x.id
                   m  == store[w][x.db]
        <5>1. op \in Routed /\ m \in [Keys -> V]
          BY <2>1, <3>1
        <5> HIDE DEF op, ks, v, m
        <5>2. /\ After(op, ks, v, m) \in [Keys -> V \union {v}]
              /\ \A k \in Keys : k # ks[1] => After(op, ks, v, m)[k] = m[k]
          BY ONLY <5>1, AfterRouted
        <5> QED
          BY <5>2 DEF op, ks, v, m
      <4> HIDE DEF new
      <4> QED
        BY <4>1, <4>2
    <3>2. CASE x.op \in Erasers \union Local
      <4>1. /\ new \in [Keys -> V \union {Nil}]
            /\ \A k \in Keys : new[k] \in {store[w][x.db][k], Nil}
        BY <2>1, <3>2, AfterOther
      <4> HIDE DEF new
      <4> QED
        BY <4>1
    <3> QED
      BY <1>2, <3>1, <3>2 DEF Guided
  <2> HIDE DEF new
  <2>3. store' \in [Nodes -> [DBs -> [Keys -> V \union {x.id, Nil}]]]
    BY <1>1, <1>2, <1>4, <2>2
  <2>4. \A s \in Nodes, d \in DBs, k \in Keys :
          store'[s][d][k] = IF s = w /\ d = x.db THEN new[k] ELSE store[s][d][k]
    BY <1>1, <1>2, <1>4
  <2>5. ASSUME NEW s \in Nodes, NEW d \in DBs, NEW k \in Keys, store'[s][d][k] # Nil, NEW t \in Nodes
        PROVE  Owner[t][k] = s
    <3>1. CASE store[s][d][k] # Nil
      BY <3>1 DEF OwnerInv, StoredAtOwner
    <3>2. CASE store[s][d][k] = Nil
      BY <1>2, <2>2, <2>4, <2>5, <3>2, OneView
    <3> QED
      BY <3>1, <3>2
  <2> QED
    BY <2>3, <2>5 DEF StoredAtOwner
<1> QED
  BY <1>3, <1>4

LEMMA OwnerInit == Init => OwnerInv
<1> SUFFICES ASSUME Init PROVE OwnerInv
  OBVIOUS
<1>1. handler \in [Conns -> Handlers({"idle"}, {NoCommand}, {<<>>}, {None}, {NoReply}, {None})]
  BY DEF Init, Idle, Handlers
<1>2. \A c \in Conns : Guided(c, handler[c])
  BY DEF Init, Idle, NoCommand, Guided, Routed, Local
<1>3. store \in [Nodes -> [DBs -> [Keys -> {Nil}]]]
  BY DEF Init, Empty
<1>4. StoredAtOwner
  BY DEF Init, Empty, StoredAtOwner
<1> QED
  BY <1>1, <1>2, <1>3, <1>4 DEF OwnerInv, AllGuided

LEMMA OwnerStep == OwnerInv /\ [Next]_vars => OwnerInv'
<1> SUFFICES ASSUME OwnerInv, [Next]_vars PROVE OwnerInv'
  OBVIOUS
<1>1. AllGuided(handler')
  BY GuidedStep DEF OwnerInv
<1>2. CASE store' = store
  BY <1>1, <1>2 DEF OwnerInv, StoredAtOwner
<1>3. store' = store \/ \E c \in Conns : ExecHere(c)
  BY DEF Next, Works, Issue, Select, Receive, Forward, SelectTimesOut, WaitTimesOut, Mispaired,
         EndsWith, Finish, Borrow, Break, Done, vars
<1> QED
  BY <1>1, <1>2, <1>3, ExecStores DEF OwnerInv

(* Wherever a command enters the cluster, and however often it is relayed, *)
(* lost or repeated, it stores a key at no other node than the one that    *)
(* every node's ring names for it (cluster/router.go:25-29,                *)
(* lib/consistenthash/consistenthash.go:47-61).                            *)
THEOREM KeysAtTheirOwner == Spec => []StoredAtOwner
<1>1. OwnerInv => StoredAtOwner
  BY DEF OwnerInv
<1> QED
  BY <1>1, OwnerInit, OwnerStep, PTL DEF Spec
=============================================================================
