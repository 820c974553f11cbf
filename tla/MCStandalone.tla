---------------------------- MODULE MCStandalone ----------------------------
(* Menus and bounds for the model checker.                                 *)
EXTENDS StandaloneReplay, TLC

CONSTANTS cl1, cl2, k1, k2, k3

Cmd(d, op, ks) == [db |-> d, op |-> op, keys |-> ks]

(* All commands, all on the same two keys. *)
MixedMenu == [c \in Clients |->
  {Cmd(0, "set", <<k1>>), Cmd(0, "setnx", <<k1>>), Cmd(0, "getset", <<k1>>),
   Cmd(0, "del", <<k1, k2>>), Cmd(0, "rename", <<k1, k2>>),
   Cmd(0, "renamenx", <<k1, k2>>), Cmd(0, "flushdb", <<>>),
   Cmd(0, "get", <<k1>>), Cmd(0, "exists", <<k1, k2>>), Cmd(0, "keys", <<k1, k2>>),
   Cmd(0, "ping", <<>>), Cmd(0, "bad", <<>>)}]

(* Each connection keeps to a key, or two keys, of its own. *)
OwnMenu == (cl1 :> {Cmd(0, "set", <<k1>>), Cmd(0, "setnx", <<k1>>), Cmd(0, "getset", <<k1>>),
                  Cmd(0, "del", <<k1, k2>>), Cmd(0, "rename", <<k1, k2>>),
                  Cmd(0, "renamenx", <<k1, k2>>), Cmd(0, "exists", <<k1, k2>>),
                  Cmd(0, "keys", <<k1, k2>>)}
         @@ cl2 :> {Cmd(0, "set", <<k3>>), Cmd(0, "get", <<k3>>), Cmd(0, "rename", <<k3, k3>>)})

(* Writes in two databases. *)
TwoDBMenu == [c \in Clients |->
  {Cmd(0, "set", <<k1>>), Cmd(1, "set", <<k1>>)}]
=============================================================================
