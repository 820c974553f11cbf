----------------------------- MODULE Standalone -----------------------------
(***************************************************************************)
(* A standalone server with "appendonly yes": one goroutine per connection *)
(* runs the command handlers of package database against the shared        *)
(* sync.Map of its database, then AofHandler.AddAof under the one AOF      *)
(* mutex.  The process may stop at any moment and start again from the     *)
(* append-only file.                                                       *)
(*                                                                         *)
(* Every Load, Store, LoadOrStore and Delete on a sync.Map is one step;    *)
(* between two of them, and between the last of them and AddAof, the other *)
(* connections run.  No lock covers a handler.                             *)
(***************************************************************************)
EXTENDS Keyspace

CONSTANTS Clients,     \* the connections
          Menu,        \* what each connection may send: [Clients -> SUBSET Commands]
          MaxCmds,     \* bound: commands sent in a behaviour
          MaxCrashes,  \* bound: times the process stops
          IOErrors,    \* whether a write or fsync of the file may fail
          None         \* no holder of the AOF mutex

ASSUME MenuAssumption ==
  /\ Menu \in [Clients -> SUBSET Commands]
  /\ \A c \in Clients : \A cmd \in Menu[c] : WellFormed(cmd)
ASSUME BoundsAssumption == MaxCmds \in Nat /\ MaxCrashes \in Nat
ASSUME IOErrorsAssumption == IOErrors \in BOOLEAN
ASSUME NoneAssumption == None \notin Clients

VARIABLES
  mem,       \* dbSet[d].data
  broken,    \* databases whose sync.Map a racing Clear left unusable
  log,       \* the append-only file, record by record
  synced,    \* how many records of it are known to be on disk
  curDB,     \* AofHandler.currentDBIndex
  mu,        \* holder of AofHandler.mu
  sel,       \* Connection.selectedDB of each client
  pc,        \* where each connection's handler is
  task,      \* the locals of the command it runs
  phase,     \* "loading" in LoadAof, "serving" afterwards
  pos,       \* records LoadAof has replayed
  fdb,       \* selectedDB of LoadAof's own connection
  base,      \* length of the file when the server last began to serve
  answered,  \* history: the commands answered so far, as clients saw them
  nextId,    \* number of the next command
  crashes    \* times the process stopped

data  == <<mem, broken>>
aof   == <<log, synced, curDB, mu>>
boot  == <<phase, pos, fdb, base, crashes>>
conns == <<sel, pc, task, answered, nextId>>
vars  == <<mem, broken, log, synced, curDB, mu, sel, pc, task, phase, pos,
           fdb, base, answered, nextId, crashes>>

-----------------------------------------------------------------------------
(* The file's records.  A command is written with its name and arguments   *)
(* alone; "id" and "db" (which database it ran in) are not in the file and *)
(* are used by no action, only by properties.                              *)

SelectRecord(d)    == [id |-> 0, db |-> d, op |-> "select", keys |-> <<>>]
CommandRecord(t, d) == [id |-> t.id, db |-> d, op |-> t.op, keys |-> t.keys]
LogRecords == [id : Nat, db : DBs, op : Writers \union {"select"}, keys : Seq(Keys)]

(* The locals of a handler: the argument under the loop index, a counter   *)
(* that becomes the integer reply, the entity it loaded, and for KEYS the  *)
(* keys Range has visited and those it kept.                               *)
NoTask == [id |-> 0, op |-> "ping", keys |-> <<>>, i |-> 1, n |-> 0,
           ent |-> Nil, seen |-> {}, hit |-> {}]
Tasks == [id : Nat, op : Ops, keys : Seq(Keys), i : Nat, n : Nat,
          ent : Nat, seen : SUBSET Keys, hit : SUBSET Keys]

(* "exec", "put", "source", "remove", "delete" and "clear" are inside a    *)
(* handler, "lock" is the call of AddAof, the last three hold its mutex.   *)
InDict   == {"exec", "put", "source", "remove", "delete"}
InAof    == {"select", "write", "sync"}
Pcs      == {"idle", "clear", "lock"} \union InDict \union InAof

-----------------------------------------------------------------------------
Go(c, p, t) == /\ pc'   = [pc EXCEPT ![c] = p]
               /\ task' = [task EXCEPT ![c] = t]

(* The handler returns and the reply reaches the client. *)
Finish(c, r) ==
  /\ Go(c, "idle", NoTask)
  /\ answered' = answered \union
       {[id |-> task[c].id, db |-> sel[c], op |-> task[c].op,
         keys |-> task[c].keys, reply |-> r]}

Stored(c, k)    == mem[sel[c]][k]
StoreTo(c, k, v) == mem' = [mem EXCEPT ![sel[c]] = Assign(@, k, v)]
Arg(c, j)       == task[c].keys[j]

(* The client's handler is about to touch the sync.Map of its database. *)
Runs(c, op) == pc[c] = "exec" /\ task[c].op = op /\ sel[c] \notin broken
At(c, p)    == pc[c] = p /\ sel[c] \notin broken

-----------------------------------------------------------------------------
(* Requests.                                                               *)

Select(c) ==
  /\ phase = "serving" /\ pc[c] = "idle"
  /\ \E d \in DBs \ {sel[c]} : sel' = [sel EXCEPT ![c] = d]
  /\ UNCHANGED <<data, aof, boot, pc, task, answered, nextId>>

Issue(c) ==
  /\ phase = "serving" /\ pc[c] = "idle" /\ nextId <= MaxCmds
  /\ \E cmd \in Menu[c] :
       /\ cmd.db = sel[c]
       /\ Go(c, "exec", [NoTask EXCEPT !.id = nextId, !.op = cmd.op, !.keys = cmd.keys])
  /\ nextId' = nextId + 1
  /\ UNCHANGED <<data, aof, boot, sel, answered>>

(* PING, an unknown command, a wrong number of arguments. *)
ExecStateless(c) ==
  /\ pc[c] = "exec" /\ task[c].op \in Stateless
  /\ Finish(c, Answer(task[c].op, task[c].keys, Empty))
  /\ UNCHANGED <<data, aof, boot, sel, nextId>>

-----------------------------------------------------------------------------
(* Readers.                                                                *)

ExecGet(c) ==
  /\ Runs(c, "get")
  /\ Finish(c, BulkReply(Stored(c, Arg(c, 1))))
  /\ UNCHANGED <<data, aof, boot, sel, nextId>>

(* One GetEntity per argument. *)
ExecExists(c) ==
  /\ Runs(c, "exists")
  /\ LET t == task[c]
         n == t.n + (IF Stored(c, Arg(c, t.i)) = Nil THEN 0 ELSE 1)
     IN  IF t.i = Len(t.keys)
         THEN Finish(c, IntReply(n))
         ELSE Go(c, "exec", [t EXCEPT !.i = @ + 1, !.n = n]) /\ UNCHANGED answered
  /\ UNCHANGED <<data, aof, boot, sel, nextId>>

(* sync.Map.Range: every key at most once, in any order, each as it is at  *)
(* some moment of the call; not a snapshot.                                *)
ExecKeys(c) ==
  /\ Runs(c, "keys")
  /\ LET t    == task[c]
         left == Range(t.keys) \ t.seen
     IN  \/ /\ left = {}
            /\ Finish(c, MultiReply(t.hit))
         \/ \E k \in left :
              /\ Go(c, "exec", [t EXCEPT !.seen = @ \union {k},
                    !.hit = IF Stored(c, k) = Nil THEN @ ELSE @ \union {k}])
              /\ UNCHANGED answered
  /\ UNCHANGED <<data, aof, boot, sel, nextId>>

-----------------------------------------------------------------------------
(* Writers.                                                                *)

(* The result of Put is dropped, so its Load is invisible: one Store. *)
ExecSet(c) ==
  /\ Runs(c, "set")
  /\ StoreTo(c, Arg(c, 1), task[c].id)
  /\ Go(c, "lock", task[c])
  /\ UNCHANGED <<broken, aof, boot, sel, answered, nextId>>

(* Faulty variant: PutIfAbsent as a Load and a later Store. *)
SetnxLoadThenStore(c) ==
  /\ Runs(c, "setnx")
  /\ IF Stored(c, Arg(c, 1)) = Nil
     THEN Go(c, "put", [task[c] EXCEPT !.n = 1])
     ELSE Go(c, "lock", task[c])
  /\ UNCHANGED <<data, aof, boot, sel, answered, nextId>>

(* PutIfAbsent: LoadOrStore, and a second Store by the winner. *)
ExecSetnx(c) ==
  /\ Runs(c, "setnx")
  /\ IF Stored(c, Arg(c, 1)) = Nil
     THEN StoreTo(c, Arg(c, 1), task[c].id) /\ Go(c, "put", [task[c] EXCEPT !.n = 1])
     ELSE UNCHANGED mem /\ Go(c, "lock", task[c])
  /\ UNCHANGED <<broken, aof, boot, sel, answered, nextId>>

ExecGetset(c) ==
  /\ Runs(c, "getset")
  /\ Go(c, "put", [task[c] EXCEPT !.ent = Stored(c, Arg(c, 1))])
  /\ UNCHANGED <<data, aof, boot, sel, answered, nextId>>

ExecRename(c) ==
  /\ Runs(c, "rename")
  /\ IF Stored(c, Arg(c, 1)) = Nil
     THEN Finish(c, ErrReply)
     ELSE /\ Go(c, "put", [task[c] EXCEPT !.ent = Stored(c, Arg(c, 1))])
          /\ UNCHANGED answered
  /\ UNCHANGED <<data, aof, boot, sel, nextId>>

(* The new name is looked up first, the old one in a second step. *)
ExecRenamenx(c) ==
  /\ Runs(c, "renamenx")
  /\ IF Stored(c, Arg(c, 2)) # Nil
     THEN Finish(c, IntReply(0))
     ELSE Go(c, "source", task[c]) /\ UNCHANGED answered
  /\ UNCHANGED <<data, aof, boot, sel, nextId>>

RenamenxSource(c) ==
  /\ At(c, "source")
  /\ IF Stored(c, Arg(c, 1)) = Nil
     THEN Finish(c, ErrReply)
     ELSE /\ Go(c, "put", [task[c] EXCEPT !.ent = Stored(c, Arg(c, 1)), !.n = 1])
          /\ UNCHANGED answered
  /\ UNCHANGED <<data, aof, boot, sel, nextId>>

(* Faulty variant: GETSET is left out of the append-only file. *)
PutGetsetUnlogged(c) ==
  /\ At(c, "put")
  /\ IF task[c].op \in {"rename", "renamenx"}
     THEN StoreTo(c, Arg(c, 2), task[c].ent) /\ Go(c, "remove", task[c]) /\ UNCHANGED answered
     ELSE /\ StoreTo(c, Arg(c, 1), task[c].id)
          /\ IF task[c].op = "getset" THEN Finish(c, BulkReply(task[c].ent))
             ELSE Go(c, "lock", task[c]) /\ UNCHANGED answered
  /\ UNCHANGED <<broken, aof, boot, sel, nextId>>

(* The Store that GETSET, SETNX, RENAME and RENAMENX end in, whatever      *)
(* happened to the keys since the handler looked at them.                  *)
Put(c) ==
  /\ At(c, "put")
  /\ IF task[c].op \in {"rename", "renamenx"}
     THEN StoreTo(c, Arg(c, 2), task[c].ent) /\ Go(c, "remove", task[c])
     ELSE StoreTo(c, Arg(c, 1), task[c].id) /\ Go(c, "lock", task[c])
  /\ UNCHANGED <<broken, aof, boot, sel, answered, nextId>>

(* Faulty variant: a DEL that removed nothing is logged as well. *)
RemovedAlwaysLogs(c, t) ==
  /\ IF t.op = "del" /\ t.i < Len(t.keys)
     THEN Go(c, "exec", [t EXCEPT !.i = @ + 1])
     ELSE Go(c, "lock", t)
  /\ UNCHANGED answered

(* After one Remove: DEL goes on with its next key, and at the end logs    *)
(* only if it counted a key; RENAME and RENAMENX go on to the log.         *)
Removed(c, t) ==
  IF t.op = "del" /\ t.i < Len(t.keys)
  THEN Go(c, "exec", [t EXCEPT !.i = @ + 1]) /\ UNCHANGED answered
  ELSE IF t.op = "del" /\ t.n = 0
       THEN Finish(c, IntReply(0))
       ELSE Go(c, "lock", t) /\ UNCHANGED answered

(* Remove: a Load, then a Delete if the key was there. *)
RemoveLoad(c) ==
  /\ Runs(c, "del") \/ At(c, "remove")
  /\ IF Stored(c, Arg(c, task[c].i)) = Nil
     THEN Removed(c, task[c])
     ELSE Go(c, "delete", task[c]) /\ UNCHANGED answered
  /\ UNCHANGED <<data, aof, boot, sel, nextId>>

(* Faulty variant: the reply of DEL forgets the last key. *)
RemoveDeleteMiscounts(c) ==
  /\ At(c, "delete")
  /\ StoreTo(c, Arg(c, task[c].i), Nil)
  /\ Removed(c, IF task[c].op = "del" THEN [task[c] EXCEPT !.n = task[c].i] ELSE task[c])
  /\ UNCHANGED <<broken, aof, boot, sel, nextId>>

(* The key counts as removed even if another connection removed it since.  *)
RemoveDelete(c) ==
  /\ At(c, "delete")
  /\ StoreTo(c, Arg(c, task[c].i), Nil)
  /\ Removed(c, IF task[c].op = "del" THEN [task[c] EXCEPT !.n = @ + 1] ELSE task[c])
  /\ UNCHANGED <<broken, aof, boot, sel, nextId>>

-----------------------------------------------------------------------------
(* FLUSHDB.  Clear overwrites the sync.Map structure in place with no      *)
(* synchronisation.  A handler of the same database that runs during the   *)
(* overwrite finds the old contents, or panics; it may also initialise the *)
(* half-written structure, which then has no root and makes every later    *)
(* operation panic until the next Clear.  (A torn mutex in the structure   *)
(* stops the process: Crash.)                                              *)

Clearing(d) == \E c \in Clients : pc[c] = "clear" /\ sel[c] = d

FlushBegin(c) ==
  /\ pc[c] = "exec" /\ task[c].op = "flushdb"
  /\ Go(c, "clear", task[c])
  /\ UNCHANGED <<data, aof, boot, sel, answered, nextId>>

(* Faulty variant: Clear leaves no table at all. *)
FlushEndNoTable(c) ==
  /\ pc[c] = "clear"
  /\ mem' = [mem EXCEPT ![sel[c]] = <<>>]
  /\ Go(c, "lock", task[c])
  /\ UNCHANGED <<broken, aof, boot, sel, answered, nextId>>

FlushEnd(c) ==
  /\ pc[c] = "clear"
  /\ mem' = [mem EXCEPT ![sel[c]] = Empty]
  /\ \/ broken' = broken \ {sel[c]}
     \/ /\ \E o \in Clients \ {c} : pc[o] \in InDict /\ sel[o] = sel[c]
        /\ broken' = broken \union {sel[c]}
  /\ Go(c, "lock", task[c])
  /\ UNCHANGED <<aof, boot, sel, answered, nextId>>

(* Exec recovers and returns nil; the handler answers "ERR unknown".  What *)
(* the command already stored stays, and it is not logged.                 *)
Panic(c) ==
  /\ pc[c] \in InDict /\ task[c].op \notin Stateless \union {"flushdb"}
  /\ sel[c] \in broken \/ Clearing(sel[c])
  /\ Finish(c, UnknownReply)
  /\ UNCHANGED <<data, aof, boot, sel, nextId>>

-----------------------------------------------------------------------------
(* AddAof.                                                                 *)

LoggedReply(t) ==
  CASE t.op \in {"set", "rename", "flushdb"} -> OkReply
    [] t.op = "getset" -> BulkReply(t.ent)
    [] OTHER -> IntReply(t.n)

AofLock(c) ==
  /\ pc[c] = "lock" /\ mu = None
  /\ mu' = c
  /\ Go(c, IF sel[c] # curDB THEN "select" ELSE "write", task[c])
  /\ UNCHANGED <<data, log, synced, curDB, boot, sel, answered, nextId>>

(* Faulty variant: the SELECT is written and not remembered. *)
AofSelectForgets(c) ==
  /\ pc[c] = "select"
  /\ log' = Append(log, SelectRecord(sel[c]))
  /\ Go(c, "write", task[c])
  /\ UNCHANGED <<data, synced, curDB, mu, boot, sel, answered, nextId>>

AofSelect(c) ==
  /\ pc[c] = "select"
  /\ log'   = Append(log, SelectRecord(sel[c]))
  /\ curDB' = sel[c]
  /\ Go(c, "write", task[c])
  /\ UNCHANGED <<data, synced, mu, boot, sel, answered, nextId>>

AofWrite(c) ==
  /\ pc[c] = "write"
  /\ log' = Append(log, CommandRecord(task[c], sel[c]))
  /\ Go(c, "sync", task[c])
  /\ UNCHANGED <<data, synced, curDB, mu, boot, sel, answered, nextId>>

(* Faulty variant: AddAof returns without the fsync. *)
AofSyncSkipped(c) ==
  /\ pc[c] = "sync"
  /\ mu' = None
  /\ Finish(c, LoggedReply(task[c]))
  /\ UNCHANGED <<data, log, synced, curDB, boot, sel, nextId>>

AofSync(c) ==
  /\ pc[c] = "sync"
  /\ synced' = Len(log)
  /\ mu' = None
  /\ Finish(c, LoggedReply(task[c]))
  /\ UNCHANGED <<data, log, curDB, boot, sel, nextId>>

(* Faulty variant: an error path that returns without unlocking. *)
AofErrorKeepsMutex(c) ==
  /\ IOErrors /\ pc[c] \in InAof
  /\ Finish(c, LoggedReply(task[c]))
  /\ UNCHANGED <<data, aof, boot, sel, nextId>>

(* A failed write or fsync is logged to the console and AddAof returns:    *)
(* the command is answered as if nothing had happened.                     *)
AofError(c) ==
  /\ IOErrors /\ pc[c] \in InAof
  /\ mu' = None
  /\ Finish(c, LoggedReply(task[c]))
  /\ UNCHANGED <<data, log, synced, curDB, boot, sel, nextId>>

-----------------------------------------------------------------------------
(* The process stops, and starts again.                                    *)

Restart ==
  /\ crashes < MaxCrashes /\ crashes' = crashes + 1
  /\ mem' = [d \in DBs |-> Empty] /\ broken' = {}
  /\ curDB' = 0 /\ mu' = None
  /\ sel'  = [c \in Clients |-> 0]
  /\ pc'   = [c \in Clients |-> "idle"]
  /\ task' = [c \in Clients |-> NoTask]
  /\ phase' = "loading" /\ pos' = 0 /\ fdb' = 0
  /\ UNCHANGED <<base, answered, nextId>>

(* The process alone stops: what it wrote is still in the page cache. *)
ProcessCrash == Restart /\ UNCHANGED <<log, synced>>

(* The machine stops: a suffix of what was not yet synced is lost. *)
PowerLoss ==
  /\ \E n \in synced .. Len(log) : log' = SubSeq(log, 1, n) /\ synced' = n
  /\ Restart

(* Faulty variants: addAof is wired before the replay; a SELECT is read    *)
(* again and again.                                                        *)
LoadRecordLogsAgain ==
  /\ phase = "loading" /\ pos < Len(log)
  /\ mem' = [mem EXCEPT ![fdb] = After(log[pos + 1].op, log[pos + 1].keys, log[pos + 1].id, @)]
  /\ log' = Append(log, log[pos + 1])
  /\ pos' = pos + 1
  /\ UNCHANGED <<broken, synced, curDB, mu, conns, phase, fdb, base, crashes>>

LoadRecordStuck ==
  /\ phase = "loading" /\ pos < Len(log)
  /\ LET r == log[pos + 1]
     IN  IF r.op = "select"
         THEN fdb' = r.db /\ UNCHANGED <<mem, pos>>
         ELSE /\ mem' = [mem EXCEPT ![fdb] = After(r.op, r.keys, r.id, @)]
              /\ pos' = pos + 1 /\ UNCHANGED fdb
  /\ UNCHANGED <<broken, aof, conns, phase, base, crashes>>

(* LoadAof: one record through Exec on a connection of its own, with       *)
(* addAof still the empty function makeDB gave it.                         *)
LoadRecord ==
  /\ phase = "loading" /\ pos < Len(log)
  /\ LET r == log[pos + 1]
     IN  IF r.op = "select"
         THEN fdb' = r.db /\ UNCHANGED mem
         ELSE /\ mem' = [mem EXCEPT ![fdb] = After(r.op, r.keys, r.id, @)]
              /\ UNCHANGED fdb
  /\ pos' = pos + 1
  /\ UNCHANGED <<broken, aof, conns, phase, base, crashes>>

(* NewAofHandler opens the file for appending and NewStandaloneDatabase    *)
(* wires addAof; currentDBIndex is the zero of a new handler.              *)
StartServing ==
  /\ phase = "loading" /\ pos = Len(log)
  /\ phase' = "serving" /\ base' = Len(log)
  /\ UNCHANGED <<data, aof, conns, pos, fdb, crashes>>

-----------------------------------------------------------------------------
Init ==
  /\ mem = [d \in DBs |-> Empty] /\ broken = {}
  /\ log = <<>> /\ synced = 0 /\ curDB = 0 /\ mu = None
  /\ sel = [c \in Clients |-> 0]
  /\ pc = [c \in Clients |-> "idle"]
  /\ task = [c \in Clients |-> NoTask]
  /\ phase = "loading" /\ pos = 0 /\ fdb = 0 /\ base = 0
  /\ answered = {} /\ nextId = 1 /\ crashes = 0

(* A handler that has a command in hand. *)
Dict(c) ==
  \/ ExecStateless(c) \/ ExecGet(c) \/ ExecExists(c) \/ ExecKeys(c)
  \/ ExecSet(c) \/ ExecSetnx(c) \/ ExecGetset(c) \/ ExecRename(c)
  \/ ExecRenamenx(c) \/ RenamenxSource(c) \/ Put(c)
  \/ RemoveLoad(c) \/ RemoveDelete(c)
  \/ FlushBegin(c) \/ FlushEnd(c) \/ Panic(c)

Aof(c) == AofLock(c) \/ AofSelect(c) \/ AofWrite(c) \/ AofSync(c) \/ AofError(c)

Load == LoadRecord \/ StartServing

(* All commands were sent and answered, and no crash is to come. *)
Done ==
  /\ nextId > MaxCmds /\ phase = "serving" /\ \A c \in Clients : pc[c] = "idle"
  /\ UNCHANGED vars

Next ==
  \/ \E c \in Clients : Select(c) \/ Issue(c) \/ Dict(c) \/ Aof(c)
  \/ Load \/ ProcessCrash \/ PowerLoss \/ Done

Spec == Init /\ [][Next]_vars

(* The scheduler runs every goroutine that can go on, and a sync.Mutex in  *)
(* starvation mode is handed to the waiter in front of it.                 *)
Fairness ==
  /\ WF_vars(Load)
  /\ \A c \in Clients : WF_vars(Dict(c)) /\ WF_vars(Aof(c)) /\ SF_vars(AofLock(c))

FairSpec == Spec /\ Fairness

-----------------------------------------------------------------------------
(* Properties.                                                             *)

(* Every variable has its type. *)
TypeOK ==
  /\ mem \in [DBs -> Dicts] /\ broken \in SUBSET DBs
  /\ log \in Seq(LogRecords) /\ synced \in 0 .. Len(log)
  /\ curDB \in DBs /\ mu \in Clients \union {None}
  /\ sel \in [Clients -> DBs] /\ pc \in [Clients -> Pcs]
  /\ task \in [Clients -> Tasks]
  /\ phase \in {"loading", "serving"} /\ pos \in Nat /\ fdb \in DBs
  /\ base \in Nat
  /\ answered \in SUBSET [id : Nat, db : DBs, op : Ops, keys : Seq(Keys), reply : Replies]
  /\ nextId \in Nat \ {0} /\ crashes \in Nat

(* The record of command x is at position i of the file. *)
IsRecordOf(i, x) == /\ log[i].op = x.op /\ log[i].id = x.id
                    /\ log[i].db = x.db /\ log[i].keys = x.keys

(* A client that was told its write happened finds it in the part of the   *)
(* file that is on disk, through any number of crashes: AddAof returns     *)
(* only after the fsync (aof.go:45), and every writing handler returns     *)
(* only after AddAof.  A failing disk is excepted.                         *)
AckedDurable ==
  ~IOErrors =>
    \A h \in answered : Records(h.op, h.reply) =>
      \E i \in 1 .. synced : IsRecordOf(i, h)

(* What a client was refused, or was told failed, is never in the file, so *)
(* that no restart makes it happen.                                        *)
RefusedNotLogged ==
  \A h \in answered : ~Records(h.op, h.reply) =>
    \A i \in 1 .. Len(log) : log[i].id # h.id

(* A command is in the file at most once, whatever restarts happened: the  *)
(* replay, which runs the same handlers, writes nothing back.              *)
LoggedOnce ==
  \A i, j \in 1 .. Len(log) :
    log[i].op # "select" /\ log[i].id = log[j].id => i = j

(* A reader of a file that begins after record "start", in database 0,   *)
(* is in database d when it comes to record i: the last SELECT on its way  *)
(* names d, or there is none and d is 0.                                   *)
LeadsTo(file, i, start, d) ==
  \/ d = 0 /\ \A k \in start + 1 .. i - 1 : file[k].op # "select"
  \/ \E j \in start + 1 .. i - 1 :
       /\ file[j].op = "select" /\ file[j].db = d
       /\ \A k \in j + 1 .. i - 1 : file[k].op # "select"

(* The records one run of the server appends are framed by SELECTs that    *)
(* lead every command to the database it ran in, also when connections of  *)
(* different databases alternate and when writes fail half-way.            *)
SelectFraming ==
  \A i \in base + 1 .. Len(log) : log[i].op # "select" => LeadsTo(log, i, base, log[i].db)

(* README.md:208-209: a restart loads the file and recovers the data; so   *)
(* read from the beginning the file leads every command to its database.   *)
RestartFraming ==
  \A i \in 1 .. Len(log) : log[i].op # "select" => LeadsTo(log, i, 0, log[i].db)

(* Every command that was sent is answered, unless the process stops: no   *)
(* path through AddAof, a failed write or fsync included, keeps the mutex. *)
AnsweredUnlessStopped ==
  \A n \in 1 .. MaxCmds :
    (\E c \in Clients : task[c].id = n)
      ~> ((\E h \in answered : h.id = n) \/ phase = "loading")

(* Whatever is in the file, LoadAof comes to its end and the server serves. *)
ServesAgain == phase = "loading" ~> phase = "serving"
=============================================================================
