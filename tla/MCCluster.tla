----------------------------- MODULE MCCluster -----------------------------
(* Two nodes.  A key whose hash is a node's belongs to that node, k2 to n2, *)
(* and one after the last node to the first, k1 to n1.                     *)
EXTENDS Cluster, TLC

CONSTANTS n1, n2, cl1, cl2, k1, k2

Cmd(op, ks) == [db |-> 0, op |-> op, keys |-> ks]

TwoOrder == n1 :> <<n2, n1>> @@ n2 :> <<n1, n2>>
TwoHash  == n1 :> 10 @@ n2 :> 20 @@ k2 :> 20 @@ k1 :> 25
TwoHome  == cl1 :> n1 @@ cl2 :> n2

(* One client routes away from its node, the other writes and deletes.     *)
RouteMenu == cl1 :> {Cmd("getset", <<k2>>), Cmd("get", <<k2>>), Cmd("rename", <<k2, k2>>)}
          @@ cl2 :> {Cmd("set", <<k2>>), Cmd("del", <<k2>>), Cmd("ping", <<>>)}

DelMenu == cl1 :> {Cmd("del", <<k1>>)} @@ cl2 :> {}
=============================================================================
