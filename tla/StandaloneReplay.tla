-------------------------- MODULE StandaloneReplay --------------------------
(***************************************************************************)
(* What the append-only file says against what memory holds and what       *)
(* clients were told.  Replay is LoadAof from the beginning of the file.   *)
(***************************************************************************)
EXTENDS Standalone

ApplyRecord(s, r) ==
  IF r.op = "select" THEN [s EXCEPT !.db = r.db]
  ELSE [s EXCEPT !.dbs[s.db] = After(r.op, r.keys, r.id, @)]

(* Where a reader of a file is after its first n records.                 *)
Replayed(file) ==
  LET state[n \in 0 .. Len(file)] ==
        IF n = 0 THEN [db |-> 0, dbs |-> [d \in DBs |-> Empty]]
        ELSE ApplyRecord(state[n - 1], file[n])
  IN  state

(* The databases a replay of the first n records builds. *)
Replay(n) == Replayed(log)[n].dbs

(* The keys of database d that only client c may touch: nobody else has    *)
(* them on its menu, and nobody else flushes d.                            *)
Touches(c, d, k) ==
  \E cmd \in Menu[c] : cmd.db = d /\ (cmd.op = "flushdb" \/ k \in Range(cmd.keys))

Owns(c, d, k) == \A o \in Clients \ {c} : ~Touches(o, d, k)

(* Nobody else touches the keys that c's commands in d name.               *)
KeepsToOwn(c, d) ==
  \A cmd \in Menu[c] : cmd.db = d => \A k \in Range(cmd.keys) : Owns(c, d, k)

(* A restart at this moment would bring back what memory holds, for the    *)
(* keys of a client that keeps to its own and has no command on its way,   *)
(* whatever the others are doing (README.md:206-209).                      *)
OwnedMatches ==
  phase = "serving" /\ ~IOErrors =>
    LET file == Replay(Len(log))
    IN  \A c \in Clients, d \in DBs : pc[c] = "idle" /\ KeepsToOwn(c, d) =>
          \A k \in Keys : Owns(c, d, k) => file[d][k] = mem[d][k]

-----------------------------------------------------------------------------
(* SETNX as a lock.                                                        *)

Won(h) == h.op = "setnx" /\ h.reply = IntReply(1)

(* Some command was sent that may have removed a key: it is a removal, or  *)
(* it was never answered.                                                  *)
RemovalSent ==
  \E n \in 1 .. nextId - 1 :
    \A h \in answered : h.id = n => h.op \in {"del", "rename", "renamenx", "flushdb"}

(* README.md:23: two clients are never both told that they set the same    *)
(* key while nobody removes it, also when the server restarts in between.  *)
SetnxOneWinner ==
  \A g, h \in answered :
    Won(g) /\ Won(h) /\ g.db = h.db /\ g.keys = h.keys /\ ~RemovalSent => g = h

-----------------------------------------------------------------------------
(* Refinement.  The contents are what a replay of the file gives: of the   *)
(* part the current run found there or has synced, and of the whole file   *)
(* while it is loaded.  A loss of power leaves it some of what was not     *)
(* synced.                                                                 *)
Settled == IF phase = "loading" THEN Len(log)
           ELSE IF synced > base THEN synced ELSE base

Store == Replay(Settled)
Kept  == {Replay(n) : n \in synced .. Settled}
Call  == [c \in Clients |->
            IF pc[c] = "idle" THEN [id |-> 0, db |-> 0, op |-> "ping", keys |-> <<>>]
            ELSE [id |-> task[c].id, db |-> sel[c], op |-> task[c].op,
                  keys |-> task[c].keys]]

Durable == INSTANCE DurableStore WITH store <- Store, kept <- Kept, call <- Call

(* To clients who each keep to keys of their own, the server is the        *)
(* durable store: every handler with all its steps, the AOF protocol and   *)
(* the restart take effect as one step of it or none.                      *)
ImplementsDurableStore == Durable!Spec
=============================================================================
