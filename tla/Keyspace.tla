------------------------------ MODULE Keyspace ------------------------------
(***************************************************************************)
(* The data a server holds and what one command does to it when no other   *)
(* command runs: the reading of database/string.go and database/keys.go    *)
(* that a client who sends one command at a time would give, and that      *)
(* LoadAof relies on when it replays the append-only file.                 *)
(*                                                                         *)
(* A value is the number of the command that wrote it, so that two writes  *)
(* never store the same value and a stale value is recognised wherever it  *)
(* turns up; Nil is the absence of the key.  A KEYS pattern is the list of *)
(* the keys it matches.                                                    *)
(***************************************************************************)
EXTENDS Integers, Sequences, FiniteSets, Functions

CONSTANTS Keys,    \* the names of keys
          NumDB    \* config.Properties.Databases

ASSUME NumDBAssumption == NumDB \in Nat \ {0}

DBs   == 0 .. NumDB - 1
Nil   == 0
Empty == [k \in Keys |-> Nil]
Dicts == [Keys -> Nat]

-----------------------------------------------------------------------------
(* Commands: an operation and its keys, in argument order.                 *)

Stateless == {"ping", "bad"}       \* PING; an unknown name or a wrong arity
Readers   == {"get", "exists", "keys"}   \* get stands for TYPE and STRLEN too
Writers   == {"set", "setnx", "getset", "del", "rename", "renamenx", "flushdb"}
Ops       == Stateless \union Readers \union Writers

Commands == [db : DBs, op : Ops, keys : Seq(Keys)]

(* A command has the arguments its registration asks for. *)
WellFormed(cmd) ==
  /\ cmd.op \in {"get", "set", "setnx", "getset"} => Len(cmd.keys) = 1
  /\ cmd.op \in {"rename", "renamenx"}            => Len(cmd.keys) = 2
  /\ cmd.op \in {"exists", "del"}                 => Len(cmd.keys) >= 1

-----------------------------------------------------------------------------
(* Replies.                                                                *)

Reply(kind, n, ks) == [kind |-> kind, n |-> n, ks |-> ks]

OkReply       == Reply("ok", 0, {})
ErrReply      == Reply("err", 0, {})       \* a reply that starts with '-'
UnknownReply  == Reply("unknown", 0, {})   \* the handler's answer to a nil reply
IntReply(n)   == Reply("int", n, {})
BulkReply(v)  == Reply("bulk", v, {})      \* BulkReply(Nil) is the null bulk
MultiReply(S) == Reply("multi", 0, S)

Replies == [kind : {"ok", "err", "unknown", "int", "bulk", "multi"},
            n : Nat, ks : SUBSET Keys]

-----------------------------------------------------------------------------
(* The dictionary after a command, and the command's answer.               *)

Assign(m, k, v) == [m EXCEPT ![k] = v]

(* Put under the new name, then remove the old one: in this order, so that *)
(* a rename onto itself removes the key.                                   *)
Move(m, from, to) == Assign(Assign(m, to, m[from]), from, Nil)

After(op, ks, v, m) ==
  CASE op \in {"set", "getset"} -> Assign(m, ks[1], v)
    [] op = "setnx" /\ m[ks[1]] = Nil -> Assign(m, ks[1], v)
    [] op = "del" -> [k \in Keys |-> IF k \in Range(ks) THEN Nil ELSE m[k]]
    [] op = "rename" /\ m[ks[1]] # Nil -> Move(m, ks[1], ks[2])
    [] op = "renamenx" /\ m[ks[2]] = Nil /\ m[ks[1]] # Nil ->
         Move(m, ks[1], ks[2])
    [] op = "flushdb" -> Empty
    [] OTHER -> m

Answer(op, ks, m) ==
  CASE op \in {"ping", "set", "flushdb"} -> OkReply
    [] op = "bad" -> ErrReply
    [] op \in {"get", "getset"} -> BulkReply(m[ks[1]])
    [] op = "setnx" -> IntReply(IF m[ks[1]] = Nil THEN 1 ELSE 0)
    [] op = "exists" ->
         IntReply(Cardinality({j \in DOMAIN ks : m[ks[j]] # Nil}))
    [] op = "del" -> IntReply(Cardinality({k \in Range(ks) : m[k] # Nil}))
    [] op = "keys" -> MultiReply({k \in Range(ks) : m[k] # Nil})
    [] op = "rename" -> IF m[ks[1]] = Nil THEN ErrReply ELSE OkReply
    [] op = "renamenx" -> IF m[ks[2]] # Nil THEN IntReply(0)
                          ELSE IF m[ks[1]] = Nil THEN ErrReply ELSE IntReply(1)
    [] OTHER -> UnknownReply

(* Whether the handler calls addAof before it gives this answer: SETNX     *)
(* whatever its result, DEL and RENAMENX only when they did something.     *)
Records(op, r) ==
  \/ op \in {"set", "flushdb", "rename"} /\ r.kind = "ok"
  \/ op = "getset" /\ r.kind = "bulk"
  \/ op = "setnx" /\ r.kind = "int"
  \/ op \in {"del", "renamenx"} /\ r.kind = "int" /\ r.n > 0
=============================================================================
