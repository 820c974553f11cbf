------------------------ MODULE StandaloneReplayProofs ------------------------
(***************************************************************************)
(* What a replay of the append-only file gives, against memory and against *)
(* what clients were told: proofs for any number of connections, commands  *)
(* and crashes.                                                            *)
(***************************************************************************)
EXTENDS StandaloneReplay, StandaloneProofs, FiniteSetTheorems, Induction

-----------------------------------------------------------------------------
(* Replays.  A reader of a file is in a database and has built some.       *)
Readings == [db : DBs, dbs : [DBs -> Dicts]]
Start    == [db |-> 0, dbs |-> [d \in DBs |-> Empty]]
Files    == {f \in Seq(LogRecords) : \A j \in 1 .. Len(f) : WellFormed(f[j])}

LEMMA StartType == Start \in Readings
BY NumDBAssumption DEF Start, Readings, DBs, Empty, Dicts, Nil

LEMMA ApplyType ==
  ASSUME NEW s \in Readings, NEW r \in LogRecords, WellFormed(r)
  PROVE  ApplyRecord(s, r) \in Readings
<1>1. CASE r.op = "select"
  BY <1>1 DEF ApplyRecord, Readings, LogRecords
<1>2. CASE r.op # "select"
  <2>1. After(r.op, r.keys, r.id, s.dbs[s.db]) \in Dicts
    BY AfterType DEF LogRecords, WellFormed, Readings
  <2> QED
    BY <1>2, <2>1 DEF ApplyRecord, Readings
<1> QED
  BY <1>1, <1>2

(* A replay is what its recursive definition says.                         *)
LEMMA ReplayedDef ==
  ASSUME NEW f \in Files
  PROVE  /\ Replayed(f) \in [0 .. Len(f) -> Readings] /\ Replayed(f)[0] = Start
         /\ \A n \in 1 .. Len(f) : Replayed(f)[n] = ApplyRecord(Replayed(f)[n - 1], f[n])
<1> DEFINE s == [p \in Nat \X Readings |->
                   IF p[1] + 1 \in 1 .. Len(f) THEN ApplyRecord(p[2], f[p[1] + 1]) ELSE p[2]]
           E(g) == g = [n \in 0 .. Len(f) |-> IF n = 0 THEN Start ELSE ApplyRecord(g[n - 1], f[n])]
<1>1. Len(f) \in Nat /\ \A j \in 1 .. Len(f) : f[j] \in LogRecords /\ WellFormed(f[j])
  BY LenProperties, ElementOfSeq DEF Files
<1>2. s \in [Nat \X Readings -> Readings]
  <2>1. ASSUME NEW p \in Nat \X Readings
        PROVE  (IF p[1] + 1 \in 1 .. Len(f) THEN ApplyRecord(p[2], f[p[1] + 1]) ELSE p[2]) \in Readings
    <3>1. CASE p[1] + 1 \in 1 .. Len(f)
      BY <1>1, <3>1, ApplyType
    <3>2. CASE ~(p[1] + 1 \in 1 .. Len(f))
      BY <3>2
    <3> QED
      BY <3>1, <3>2
  <2> QED
    BY <2>1
<1> HIDE DEF s
<1>3. PICK g : Follows(g, Readings, Start, s)
  BY <1>2, StartType, Recursion
<1> USE DEF Follows
<1> DEFINE h == [n \in 0 .. Len(f) |-> g[n]]
<1>4. E(h)
  <2>1. ASSUME NEW n \in 0 .. Len(f), n # 0 PROVE g[n] = ApplyRecord(h[n - 1], f[n])
    <3>1. n - 1 \in Nat /\ (n - 1) + 1 = n /\ n \in 1 .. Len(f) /\ h[n - 1] = g[n - 1]
      BY <1>1, <2>1
    <3>2. g[n] = s[<<n - 1, g[n - 1]>>] /\ <<n - 1, g[n - 1]>> \in Nat \X Readings
      BY <1>3, <3>1
    <3> QED
      BY <3>1, <3>2 DEF s
  <2>2. \A n \in 0 .. Len(f) : h[n] = IF n = 0 THEN Start ELSE ApplyRecord(h[n - 1], f[n])
    BY <1>3, <2>1
  <2> QED
    BY <2>2
<1>5. E(Replayed(f))
  <2>1. Replayed(f) = CHOOSE r : E(r)
    BY DEF Replayed, Start
  <2>2. \E r : E(r)
    <3> HIDE DEF E, h
    <3> QED
      BY <1>4
  <2> HIDE DEF E
  <2> QED
    BY <2>1, <2>2
<1> DEFINE R == Replayed(f)
<1>6. /\ R[0] = Start
      /\ \A n \in 1 .. Len(f) : R[n] = ApplyRecord(R[n - 1], f[n])
      /\ DOMAIN R = 0 .. Len(f) /\ R = [n \in 0 .. Len(f) |-> R[n]]
  <2> HIDE DEF R
  <2>1. R = [n \in 0 .. Len(f) |-> IF n = 0 THEN Start ELSE ApplyRecord(R[n - 1], f[n])]
    BY <1>5 DEF R
  <2>2. DOMAIN R = 0 .. Len(f)
    BY <2>1
  <2>3. \A n \in 0 .. Len(f) : R[n] = IF n = 0 THEN Start ELSE ApplyRecord(R[n - 1], f[n])
    BY <2>1
  <2>4. R = [n \in 0 .. Len(f) |-> R[n]]
    BY <2>1
  <2> QED
    BY <1>1, <2>2, <2>3, <2>4
<1>7. \A n \in 0 .. Len(f) : R[n] \in Readings
  <2> HIDE DEF R
  <2> DEFINE T == {n \in Nat : n <= Len(f) => R[n] \in Readings}
  <2>1. 0 \in T
    BY <1>6, StartType
  <2>2. ASSUME NEW n \in Nat, n \in T PROVE n + 1 \in T
    <3> SUFFICES ASSUME n + 1 <= Len(f) PROVE R[n + 1] \in Readings
      OBVIOUS
    <3>1. n + 1 \in 1 .. Len(f) /\ (n + 1) - 1 = n /\ R[n] \in Readings
      BY <1>1, <2>2
    <3> QED
      BY <1>1, <1>6, <3>1, ApplyType
  <2>3. T = Nat
    <3>1. T \in SUBSET Nat /\ \A n \in T : n + 1 \in T
      BY <2>2
    <3> HIDE DEF T
    <3> QED
      BY <2>1, <3>1, SetInduction
  <2> QED
    BY <1>1, <2>3
<1> QED
  BY <1>6, <1>7

(* Two files that begin alike are read alike as far as they do.            *)
LEMMA ReplayedSame ==
  ASSUME NEW f \in Files, NEW g \in Files, NEW m \in Nat, m <= Len(f), m <= Len(g),
         \A j \in 1 .. m : f[j] = g[j]
  PROVE  \A n \in 0 .. m : Replayed(f)[n] = Replayed(g)[n]
<1> DEFINE T == {n \in Nat : n <= m => Replayed(f)[n] = Replayed(g)[n]}
<1>1. Len(f) \in Nat /\ Len(g) \in Nat
  BY LenProperties DEF Files
<1>2. 0 \in T
  BY ReplayedDef
<1>3. ASSUME NEW n \in Nat, n \in T PROVE n + 1 \in T
  <2> SUFFICES ASSUME n + 1 <= m PROVE Replayed(f)[n + 1] = Replayed(g)[n + 1]
    OBVIOUS
  <2>1. /\ n + 1 \in 1 .. Len(f) /\ n + 1 \in 1 .. Len(g) /\ (n + 1) - 1 = n
        /\ f[n + 1] = g[n + 1] /\ Replayed(f)[n] = Replayed(g)[n]
    BY <1>1, <1>3
  <2> QED
    BY <2>1, ReplayedDef
<1>4. T = Nat
  <2>1. T \in SUBSET Nat /\ \A n \in T : n + 1 \in T
    BY <1>3
  <2> HIDE DEF T
  <2> QED
    BY <1>2, <2>1, SetInduction
<1> QED
  BY <1>4

-----------------------------------------------------------------------------
(* The database a reader is in is the one the file leads to.               *)
LEMMA LeadsToUnique ==
  ASSUME NEW f, NEW i \in Nat, NEW d, NEW e, LeadsTo(f, i, 0, d), LeadsTo(f, i, 0, e)
  PROVE  d = e
<1>1. CASE \E j \in 1 .. i - 1 : f[j].op = "select"
  <2>1. PICK j \in 1 .. i - 1 : /\ f[j].op = "select" /\ f[j].db = d
                                /\ \A k \in j + 1 .. i - 1 : f[k].op # "select"
    BY <1>1 DEF LeadsTo
  <2>2. PICK l \in 1 .. i - 1 : /\ f[l].op = "select" /\ f[l].db = e
                                /\ \A k \in l + 1 .. i - 1 : f[k].op # "select"
    BY <1>1 DEF LeadsTo
  <2>3. ~(j < l) /\ ~(l < j)
    BY <2>1, <2>2
  <2> QED
    BY <2>1, <2>2, <2>3
<1>2. CASE ~\E j \in 1 .. i - 1 : f[j].op = "select"
  BY <1>2 DEF LeadsTo
<1> QED
  BY <1>1, <1>2

LEMMA ReaderDB ==
  ASSUME NEW f \in Files
  PROVE  \A n \in 0 .. Len(f) : LeadsTo(f, n + 1, 0, Replayed(f)[n].db)
<1> DEFINE R == Replayed(f)
           T == {n \in Nat : n <= Len(f) => LeadsTo(f, n + 1, 0, R[n].db)}
<1>1. Len(f) \in Nat
  BY LenProperties DEF Files
<1>2. 0 \in T
  BY ReplayedDef DEF Start, LeadsTo
<1>3. ASSUME NEW n \in Nat, n \in T PROVE n + 1 \in T
  <2> SUFFICES ASSUME n + 1 <= Len(f) PROVE LeadsTo(f, (n + 1) + 1, 0, R[n + 1].db)
    OBVIOUS
  <2>1. n + 1 \in 1 .. Len(f) /\ (n + 1) - 1 = n /\ n \in 0 .. Len(f) /\ LeadsTo(f, n + 1, 0, R[n].db)
    BY <1>1, <1>3
  <2>2. R[n + 1] = ApplyRecord(R[n], f[n + 1]) /\ R[n] \in Readings
    BY <2>1, ReplayedDef
  <2> HIDE DEF R
  <2>3. R[n + 1].db = IF f[n + 1].op = "select" THEN f[n + 1].db ELSE R[n].db
    BY <2>2 DEF ApplyRecord, Readings
  <2>4. CASE f[n + 1].op = "select"
    <3>1. n + 1 \in Nat /\ 0 < n + 1 /\ f[n + 1].db = R[n + 1].db
      BY <2>3, <2>4
    <3> QED
      BY <2>4, <3>1, LeadsToNext
  <2>5. CASE f[n + 1].op # "select"
    BY <2>1, <2>3, <2>5, LeadsToNext
  <2> QED
    BY <2>4, <2>5
<1>4. T = Nat
  <2>1. T \in SUBSET Nat /\ \A n \in T : n + 1 \in T
    BY <1>3
  <2> HIDE DEF T
  <2> QED
    BY <1>2, <2>1, SetInduction
<1> QED
  BY <1>4

(* So a command that the file leads to its database is replayed in it.     *)
LEMMA ReplayStep ==
  ASSUME NEW f \in Files, NEW n \in 1 .. Len(f),
         f[n].op # "select" => LeadsTo(f, n, 0, f[n].db)
  PROVE  /\ Replayed(f)[n - 1].dbs \in [DBs -> Dicts]
         /\ Replayed(f)[n].dbs =
              IF f[n].op = "select" THEN Replayed(f)[n - 1].dbs
              ELSE [Replayed(f)[n - 1].dbs EXCEPT
                      ![f[n].db] = After(f[n].op, f[n].keys, f[n].id, @)]
<1> DEFINE R == Replayed(f)
<1>1. n - 1 \in 0 .. Len(f) /\ (n - 1) + 1 = n /\ n \in Nat
  BY LenProperties DEF Files
<1>2. R[n - 1] \in Readings /\ R[n] = ApplyRecord(R[n - 1], f[n])
  BY <1>1, ReplayedDef
<1>3. f[n].op # "select" => R[n - 1].db = f[n].db
  BY <1>1, ReaderDB, LeadsToUnique
<1> HIDE DEF R
<1> QED
  BY <1>2, <1>3 DEF ApplyRecord, Readings, R

-----------------------------------------------------------------------------
(* A whole file leads every command to its database if there is no other   *)
(* database, or if the server never starts again.                          *)
OneContext == NumDB = 1 \/ MaxCrashes = 0

FirstRun == MaxCrashes = 0 => base = 0 /\ (phase = "loading" => log = <<>>)

LEMMA FileType == TypeInv => log \in Files
BY DEF TypeInv, TypeOK, LogFormed, Files

LEMMA FirstRunNext == FrameInv /\ FirstRun /\ [Next]_vars => FirstRun'
<1> SUFFICES ASSUME FrameInv, FirstRun, [Next]_vars, MaxCrashes = 0
             PROVE  base' = 0 /\ (phase' = "loading" => log' = <<>>)
  BY DEF FirstRun
<1>1. base = 0 /\ (phase = "loading" => log = <<>>) /\ TypeInv
  BY DEF FirstRun, FrameInv
<1>2. ASSUME UNCHANGED <<base, phase, log>> PROVE base' = 0 /\ (phase' = "loading" => log' = <<>>)
  BY <1>1, <1>2
<1>3. ASSUME NEW c \in Clients, Select(c) \/ Issue(c)
      PROVE  base' = 0 /\ (phase' = "loading" => log' = <<>>)
  BY <1>2, <1>3 DEF Select, Issue, aof, boot
<1>4. ASSUME NEW c \in Clients, Dict(c)
      PROVE  base' = 0 /\ (phase' = "loading" => log' = <<>>)
  <2>1. Frame(c)
    BY <1>1, <1>4, DictFrame DEF FrameInv
  <2> QED
    BY <1>2, <2>1 DEF Frame, aof, boot
<1>5. ASSUME NEW c \in Clients, Aof(c)
      PROVE  base' = 0 /\ (phase' = "loading" => log' = <<>>)
  <2>1. phase # "loading" /\ UNCHANGED boot
    BY <1>5 DEF Aof, AofLock, AofSelect, AofWrite, AofSync, AofError, InAof, FrameInv, Booting
  <2> QED
    BY <1>1, <2>1 DEF boot
<1>6. CASE Load
  BY <1>1, <1>6 DEF Load, LoadRecord, StartServing, aof, conns
<1>7. CASE ProcessCrash \/ PowerLoss
  BY <1>1, <1>7 DEF ProcessCrash, PowerLoss, Restart, TypeInv, TypeOK
<1>8. CASE UNCHANGED vars
  BY <1>2, <1>8 DEF vars
<1> QED
  BY <1>3, <1>4, <1>5, <1>6, <1>7, <1>8 DEF Next, Done

LEMMA WholeFraming == OneContext /\ FrameInv /\ FirstRun => RestartFraming
<1> SUFFICES ASSUME OneContext, FrameInv, FirstRun, NEW i \in 1 .. Len(log), log[i].op # "select"
             PROVE  LeadsTo(log, i, 0, log[i].db)
  BY DEF RestartFraming
<1>1. log \in Files /\ log \in Seq(LogRecords) /\ Len(log) \in Nat /\ phase \in {"loading", "serving"}
  BY FileType, LenProperties DEF FrameInv, TypeInv, TypeOK
<1>2. CASE NumDB = 1
  <2>1. i - 1 \in 0 .. Len(log) /\ (i - 1) + 1 = i
    BY <1>1
  <2>2. LeadsTo(log, i, 0, Replayed(log)[i - 1].db) /\ Replayed(log)[i - 1] \in Readings
    <3>1. LeadsTo(log, (i - 1) + 1, 0, Replayed(log)[i - 1].db)
      BY <1>1, <2>1, ReaderDB
    <3> QED
      BY <1>1, <2>1, <3>1, ReplayedDef
  <2>3. Replayed(log)[i - 1].db = log[i].db
    <3>1. log[i] \in LogRecords
      BY <1>1, ElementOfSeq
    <3> QED
      BY <1>2, <2>2, <3>1 DEF Readings, LogRecords, DBs
  <2> QED
    BY <2>2, <2>3
<1>3. CASE MaxCrashes = 0
  <2>1. base = 0
    BY <1>3 DEF FirstRun
  <2> QED
    BY <2>1 DEF FrameInv, SelectFraming
<1> QED
  BY <1>2, <1>3 DEF OneContext

(* With one database, or until the first restart, the file leads every     *)
(* command to the database it ran in from its very first record on.        *)
THEOREM FramedThroughout == OneContext => (Spec => []RestartFraming)
<1> SUFFICES ASSUME OneContext PROVE Spec => []RestartFraming
  OBVIOUS
<1> DEFINE J == FrameInv /\ FirstRun
<1>1. Init => J
  BY FrameInit DEF Init, FirstRun
<1>2. J /\ [Next]_vars => J'
  BY FrameNext, FirstRunNext
<1>3. J => RestartFraming
  BY WholeFraming
<1> QED
  BY <1>1, <1>2, <1>3, PTL DEF Spec

-----------------------------------------------------------------------------
(* Where the server stands in its file: how far a restart has come with    *)
(* it, and which records of it nobody was answered yet.                    *)
Loaded ==
  phase = "loading" =>
    /\ pos <= Len(log)
    /\ mem = Replay(pos) /\ fdb = Replayed(log)[pos].db

Unanswered ==
  ~IOErrors /\ phase = "serving" =>
    /\ mu # None => pc[mu] \in InAof
    /\ mu = None => Settled = Len(log)
    /\ \A i \in Settled + 1 .. Len(log) :
         log[i].op = "select" \/ (i = Len(log) /\ \E c \in Clients : pc[c] = "sync")
    /\ \A c \in Clients : pc[c] = "sync" =>
         Settled < Len(log) /\ log[Len(log)] = CommandRecord(task[c], sel[c])

LEMMA FileFacts ==
  ASSUME FrameInv
  PROVE  /\ log \in Files /\ log \in Seq(LogRecords) /\ Len(log) \in Nat
         /\ synced \in 0 .. Len(log) /\ base \in Nat /\ phase \in {"loading", "serving"}
         /\ Settled \in synced .. Len(log)
         /\ \A n \in 0 .. Len(log) : Replay(n) \in [DBs -> Dicts] /\ Replayed(log)[n] \in Readings
<1>1. /\ log \in Files /\ log \in Seq(LogRecords) /\ Len(log) \in Nat
      /\ synced \in 0 .. Len(log) /\ base \in Nat /\ phase \in {"loading", "serving"}
  BY FileType, LenProperties DEF FrameInv, TypeInv, TypeOK
<1>2. Settled \in synced .. Len(log)
  BY <1>1 DEF Settled, FrameInv, AtEnd
<1>3. \A n \in 0 .. Len(log) : Replayed(log)[n] \in Readings
  BY <1>1, ReplayedDef
<1> QED
  BY <1>1, <1>2, <1>3 DEF Replay, Readings

(* What follows in the file does not change what is read before it.        *)
LEMMA ReplayKept ==
  ASSUME FrameInv, FrameInv', NEW m \in 0 .. Len(log), m <= Len(log'),
         \A j \in 1 .. m : log'[j] = log[j]
  PROVE  \A n \in 0 .. m : Replayed(log')[n] = Replayed(log)[n] /\ Replay(n)' = Replay(n)
<1>1. log \in Files /\ log' \in Files /\ Len(log) \in Nat
  <2>1. log' \in Files
    BY DEF FrameInv, TypeInv, TypeOK, LogFormed, Files
  <2> QED
    BY <2>1, FileFacts
<1>2. m \in Nat /\ m <= Len(log) /\ \A j \in 1 .. m : log[j] = log'[j]
  BY <1>1
<1>3. \A n \in 0 .. m : Replayed(log)[n] = Replayed(log')[n]
  BY <1>1, <1>2, ReplayedSame
<1> QED
  BY <1>3 DEF Replay

(* LoadAof does to memory what a reader of the file expects.               *)
LEMMA LoadedNext ==
  ASSUME FrameInv, FrameInv', Loaded, [Next]_vars
  PROVE  Loaded'
<1>1. TypeInv /\ log \in Files /\ Len(log) \in Nat /\ phase \in {"loading", "serving"}
  BY FileFacts DEF FrameInv
<1>2. CASE LoadRecord
  <2> DEFINE R == Replayed(log)
  <2>1. pos \in 0 .. Len(log) /\ pos + 1 \in 1 .. Len(log) /\ (pos + 1) - 1 = pos
    BY <1>1, <1>2 DEF LoadRecord, TypeInv, TypeOK
  <2>2. R[pos + 1] = ApplyRecord(R[pos], log[pos + 1]) /\ R[pos] \in Readings
    BY <1>1, <2>1, ReplayedDef
  <2>3. mem = R[pos].dbs /\ fdb = R[pos].db
    BY <1>2 DEF Loaded, LoadRecord, Replay
  <2>4. UNCHANGED log /\ phase' = "loading" /\ pos' = pos + 1
    BY <1>2 DEF LoadRecord, aof
  <2> HIDE DEF R
  <2>5. CASE log[pos + 1].op = "select"
    <3>1. mem' = mem /\ fdb' = log[pos + 1].db
      BY <1>2, <2>5 DEF LoadRecord
    <3>2. mem' = R[pos + 1].dbs /\ fdb' = R[pos + 1].db
      BY <2>2, <2>3, <2>5, <3>1 DEF ApplyRecord, Readings
    <3> QED
      BY <2>1, <2>4, <3>2 DEF Loaded, Replay, R
  <2>6. CASE log[pos + 1].op # "select"
    <3>1. /\ mem' = [mem EXCEPT ![fdb] = After(log[pos + 1].op, log[pos + 1].keys, log[pos + 1].id, @)]
          /\ fdb' = fdb
      BY <1>2, <2>6 DEF LoadRecord
    <3>2. mem' = R[pos + 1].dbs /\ fdb' = R[pos + 1].db
      BY <2>2, <2>3, <2>6, <3>1 DEF ApplyRecord, Readings
    <3> QED
      BY <2>1, <2>4, <3>2 DEF Loaded, Replay, R
  <2> QED
    BY <2>5, <2>6
<1>3. CASE ProcessCrash \/ PowerLoss
  <2>1. Restart
    BY <1>3 DEF ProcessCrash, PowerLoss
  <2>2. Replayed(log')[0] = Start /\ Len(log') \in Nat
    <3>1. log' \in Files
      BY DEF FrameInv, TypeInv, TypeOK, LogFormed, Files
    <3> QED
      BY <3>1, ReplayedDef, LenProperties DEF Files
  <2> QED
    BY <2>1, <2>2 DEF Restart, Loaded, Replay, Start
<1>4. CASE phase = "serving" /\ ~(ProcessCrash \/ PowerLoss)
  <2>1. phase' = "serving"
    <3>1. ASSUME NEW c \in Clients, Dict(c) PROVE phase' = phase
      BY <1>1, <3>1, DictFrame DEF FrameInv, Frame, boot
    <3>2. ASSUME NEW c \in Clients, Select(c) \/ Issue(c) \/ Aof(c) PROVE phase' = phase
      BY <3>2 DEF Select, Issue, Aof, AofLock, AofSelect, AofWrite, AofSync, AofError, boot
    <3> QED
      BY <1>4, <3>1, <3>2 DEF Next, Done, Load, LoadRecord, StartServing, vars
  <2> QED
    BY <2>1 DEF Loaded
<1>5. CASE phase = "loading" /\ ~(ProcessCrash \/ PowerLoss) /\ ~LoadRecord
  <2>1. \A c \in Clients : pc[c] = "idle"
    BY <1>5 DEF FrameInv, Booting
  <2>2. ASSUME NEW c \in Clients PROVE ~Select(c) /\ ~Issue(c) /\ ~Dict(c) /\ ~Aof(c)
    <3>1. ~Dict(c)
      BY <1>1, <2>1, DictFrame, FrameFacts DEF FrameInv
    <3>2. ~Aof(c)
      BY <2>1 DEF Aof, AofLock, AofSelect, AofWrite, AofSync, AofError, InAof
    <3> QED
      BY <1>5, <3>1, <3>2 DEF Select, Issue
  <2>3. StartServing \/ UNCHANGED vars
    BY <1>5, <2>2 DEF Next, Done, Load
  <2> QED
    BY <2>3 DEF StartServing, vars, Loaded, Replay
<1> QED
  BY <1>1, <1>2, <1>3, <1>4, <1>5

(* Where a client is when it runs a handler of some sort: the server        *)
(* serves, and the AOF mutex is not its own unless it is in AddAof.         *)
LEMMA DictFacts ==
  ASSUME FrameInv, NEW c \in Clients, Dict(c)
  PROVE  /\ UNCHANGED <<log, synced, curDB, mu, phase, pos, fdb, base, crashes, sel, nextId>>
         /\ phase = "serving" /\ pc[c] \in InDict \union {"clear"}
         /\ pc[c] \notin InAof /\ pc'[c] \notin InAof /\ pc[c] # "idle"
         /\ \A o \in Clients \ {c} : pc'[o] = pc[o] /\ task'[o] = task[o]
<1>1. Frame(c) /\ TypeInv
  BY DictFrame DEF FrameInv
<1>2. pc[c] \notin InAof /\ pc'[c] \notin InAof /\ pc[c] # "idle"
      /\ \A o \in Clients \ {c} : pc'[o] = pc[o] /\ task'[o] = task[o]
  BY <1>1, FrameFacts
<1>3. phase = "serving"
  BY <1>2, FileFacts DEF FrameInv, Booting
<1> QED
  BY <1>1, <1>2, <1>3 DEF Frame, aof, boot

LEMMA AofFacts ==
  ASSUME FrameInv, NEW c \in Clients, Aof(c)
  PROVE  /\ UNCHANGED <<phase, pos, fdb, base, crashes, sel, nextId, mem, broken>>
         /\ phase = "serving" /\ pc[c] \in InAof \union {"lock"}
         /\ \A o \in Clients \ {c} : pc'[o] = pc[o] /\ task'[o] = task[o]
<1>1. pc[c] \in InAof \union {"lock"} /\ UNCHANGED <<boot, sel, nextId, data>>
  BY DEF Aof, AofLock, AofSelect, AofWrite, AofSync, AofError, InAof
<1>2. phase = "serving"
  BY <1>1, FileFacts DEF FrameInv, Booting, InAof
<1>3. \A o \in Clients \ {c} : pc'[o] = pc[o] /\ task'[o] = task[o]
  <2>1. pc \in [Clients -> Pcs] /\ task \in [Clients -> Tasks]
    BY DEF FrameInv, TypeInv, TypeOK
  <2> QED
    BY <2>1 DEF Aof, AofLock, AofSelect, AofWrite, AofSync, AofError, Finish, Go
<1> QED
  BY <1>1, <1>2, <1>3 DEF boot, data

(* A step of AddAof that writes leaves what was answered as it was, and    *)
(* puts one record behind it.                                              *)
LEMMA AppendFacts ==
  ASSUME FrameInv, FrameInv', NEW c \in Clients, AofSelect(c) \/ AofWrite(c)
  PROVE  /\ Len(log') = Len(log) + 1 /\ \A j \in 1 .. Len(log) : log'[j] = log[j]
         /\ log'[Len(log')] = IF pc[c] = "select" THEN SelectRecord(sel[c])
                              ELSE CommandRecord(task[c], sel[c])
         /\ UNCHANGED <<synced, base, phase, mu, sel, answered>> /\ Settled' = Settled
         /\ phase = "serving" /\ mu = c /\ task'[c] = task[c]
         /\ pc[c] \in {"select", "write"}
         /\ pc'[c] = IF pc[c] = "select" THEN "write" ELSE "sync"
         /\ \A o \in Clients \ {c} : pc'[o] = pc[o] /\ task'[o] = task[o]
<1>1. /\ pc \in [Clients -> Pcs] /\ task \in [Clients -> Tasks] /\ log \in Seq(LogRecords)
      /\ Aof(c) /\ log' \in Seq(LogRecords)
  BY DEF FrameInv, TypeInv, TypeOK, Aof
<1>2. /\ UNCHANGED <<synced, base, phase, mu, sel, answered>>
      /\ phase = "serving" /\ \A o \in Clients \ {c} : pc'[o] = pc[o] /\ task'[o] = task[o]
  BY <1>1, AofFacts DEF AofSelect, AofWrite
<1>3. mu = c /\ task'[c] = task[c] /\ pc[c] \in {"select", "write"}
      /\ pc'[c] = IF pc[c] = "select" THEN "write" ELSE "sync"
  BY <1>1 DEF AofSelect, AofWrite, Go, InAof, FrameInv, Locked
<1> DEFINE r == IF pc[c] = "select" THEN SelectRecord(sel[c]) ELSE CommandRecord(task[c], sel[c])
<1>4. log' = Append(log, r)
  BY DEF AofSelect, AofWrite
<1>5. r \in LogRecords
  <2>1. task[c] \in Tasks /\ sel[c] \in DBs /\ (pc[c] = "write" => task[c].op \in Writers)
    BY DEF FrameInv, TypeInv, TypeOK, TaskFormed, Formed
  <2> QED
    BY <1>3, <2>1 DEF SelectRecord, CommandRecord, LogRecords, Tasks
<1> HIDE DEF r
<1>6. Len(log') = Len(log) + 1 /\ log'[Len(log')] = r /\ \A j \in 1 .. Len(log) : log'[j] = log[j]
  BY <1>1, <1>4, <1>5, AppendProperties
<1>7. Settled' = Settled
  BY <1>2 DEF Settled
<1> QED
  BY <1>2, <1>3, <1>6, <1>7 DEF r

LEMMA UnansweredNext ==
  ASSUME FrameInv, FrameInv', Unanswered, [Next]_vars
  PROVE  Unanswered'
<1> SUFFICES ASSUME ~IOErrors, phase' = "serving"
             PROVE  /\ mu' # None => pc'[mu'] \in InAof
                    /\ mu' = None => Settled' = Len(log')
                    /\ \A i \in Settled' + 1 .. Len(log') :
                         log'[i].op = "select"
                           \/ (i = Len(log') /\ \E c \in Clients : pc'[c] = "sync")
                    /\ \A c \in Clients : pc'[c] = "sync" =>
                         Settled' < Len(log') /\ log'[Len(log')] = CommandRecord(task'[c], sel'[c])
  BY DEF Unanswered, CommandRecord
<1>1. /\ Len(log) \in Nat /\ synced \in 0 .. Len(log) /\ base \in Nat
      /\ Settled \in synced .. Len(log) /\ phase \in {"loading", "serving"}
      /\ pc \in [Clients -> Pcs] /\ task \in [Clients -> Tasks] /\ mu \in Clients \union {None}
      /\ sel \in [Clients -> DBs]
  BY FileFacts DEF FrameInv, TypeInv, TypeOK
<1>2. ASSUME phase = "serving", UNCHANGED <<log, synced, base, phase, mu>>,
             \A o \in Clients : pc'[o] = pc[o] \/ (pc[o] \notin InAof /\ pc'[o] \notin InAof),
             \A o \in Clients : pc[o] = "sync" => task'[o] = task[o] /\ sel'[o] = sel[o]
      PROVE  Unanswered'
  <2>1. Settled' = Settled /\ \A o \in Clients : pc'[o] = "sync" <=> pc[o] = "sync"
    BY <1>2 DEF Settled, InAof
  <2>2. mu # None => mu \in Clients
    BY <1>1
  <2> QED
    BY <1>2, <2>1, <2>2 DEF Unanswered, CommandRecord
<1>3. ASSUME NEW c \in Clients, Select(c) \/ Issue(c) PROVE Unanswered'
  <2>1. /\ phase = "serving" /\ UNCHANGED <<log, synced, base, phase, mu>> /\ pc[c] = "idle"
        /\ pc'[c] \in {"idle", "exec"}
        /\ \A o \in Clients \ {c} : pc'[o] = pc[o] /\ task'[o] = task[o] /\ sel'[o] = sel[o]
    BY <1>1, <1>3 DEF Select, Issue, Go, aof, boot
  <2> QED
    BY <1>2, <2>1 DEF InAof
<1>4. ASSUME NEW c \in Clients, Dict(c) PROVE Unanswered'
  BY <1>2, <1>4, DictFacts DEF InAof
<1>5. ASSUME NEW c \in Clients, AofLock(c) PROVE Unanswered'
  <2>1. /\ mu = None /\ mu' = c /\ UNCHANGED <<log, synced, base, phase>>
        /\ pc'[c] \in InAof \ {"sync"} /\ phase = "serving"
        /\ \A o \in Clients \ {c} : pc'[o] = pc[o]
    BY <1>1, <1>5, AofFacts DEF Aof, AofLock, Go, InAof
  <2>2. Settled' = Settled /\ Settled = Len(log)
    BY <2>1 DEF Settled, Unanswered
  <2>3. \A o \in Clients : pc'[o] # "sync"
    BY <2>1, NoneAssumption DEF FrameInv, Locked, InAof
  <2> QED
    BY <1>1, <2>1, <2>2, <2>3, NoneAssumption DEF Unanswered
<1>6. ASSUME NEW c \in Clients, AofSelect(c) \/ AofWrite(c) PROVE Unanswered'
  <2>1. /\ Len(log') = Len(log) + 1 /\ \A j \in 1 .. Len(log) : log'[j] = log[j]
        /\ log'[Len(log')] = IF pc[c] = "select" THEN SelectRecord(sel[c])
                             ELSE CommandRecord(task[c], sel[c])
        /\ UNCHANGED <<mu, sel>> /\ Settled' = Settled
        /\ phase = "serving" /\ mu = c /\ task'[c] = task[c]
        /\ pc[c] \in {"select", "write"}
        /\ pc'[c] = IF pc[c] = "select" THEN "write" ELSE "sync"
        /\ \A o \in Clients \ {c} : pc'[o] = pc[o]
    BY <1>6, AppendFacts
  <2>2. \A o \in Clients : pc[o] # "sync" /\ (pc'[o] = "sync" => o = c)
    BY <2>1 DEF FrameInv, Locked, InAof
  <2>3. \A i \in Settled + 1 .. Len(log) : log[i].op = "select"
    BY <2>1, <2>2 DEF Unanswered
  <2>4. \A i \in Settled' + 1 .. Len(log') : i \in Settled + 1 .. Len(log) \/ i = Len(log')
    BY <1>1, <2>1
  <2>5. \A i \in Settled + 1 .. Len(log) : log'[i] = log[i]
    BY <1>1, <2>1
  <2>6. pc[c] = "select" => log'[Len(log')].op = "select"
    BY <2>1 DEF SelectRecord
  <2>7. Settled' < Len(log') /\ mu' # None /\ pc'[mu'] \in InAof
    BY <1>1, <2>1, NoneAssumption DEF InAof
  <2>8. \A i \in Settled' + 1 .. Len(log') :
          log'[i].op = "select" \/ (i = Len(log') /\ \E o \in Clients : pc'[o] = "sync")
    BY <2>1, <2>3, <2>4, <2>5, <2>6
  <2>9. \A o \in Clients : pc'[o] = "sync" => log'[Len(log')] = CommandRecord(task'[o], sel'[o])
    BY <2>1, <2>2
  <2> QED
    BY <2>7, <2>8, <2>9 DEF Unanswered, CommandRecord
<1>7. ASSUME NEW c \in Clients, AofSync(c) PROVE Unanswered'
  <2>1. /\ mu' = None /\ synced' = Len(log) /\ UNCHANGED <<log, base, phase>> /\ pc[c] = "sync"
        /\ pc'[c] = "idle" /\ \A o \in Clients \ {c} : pc'[o] = pc[o]
    BY <1>1, <1>7 DEF AofSync, Finish, Go, boot
  <2>2. base <= Len(log)
    BY <2>1 DEF FrameInv, AtEnd
  <2>3. Settled' = Len(log')
    BY <1>1, <2>1, <2>2 DEF Settled
  <2>4. \A o \in Clients : pc'[o] # "sync"
    BY <2>1 DEF FrameInv, Locked, InAof
  <2> QED
    BY <1>1, <2>1, <2>3, <2>4 DEF Unanswered
<1>8. ASSUME Load PROVE Unanswered'
  <2>1. StartServing
    BY <1>8 DEF Load, LoadRecord
  <2>2. /\ UNCHANGED <<log, synced, mu, pc>> /\ mu = None /\ base' = Len(log)
        /\ \A o \in Clients : pc[o] # "sync"
    BY <2>1 DEF StartServing, aof, conns, FrameInv, Booting
  <2>3. Settled' = Len(log')
    BY <1>1, <2>2 DEF Settled
  <2> QED
    BY <1>1, <2>2, <2>3 DEF Unanswered
<1>9. ~ProcessCrash /\ ~PowerLoss
  BY DEF ProcessCrash, PowerLoss, Restart
<1>10. ASSUME UNCHANGED vars PROVE Unanswered'
  <2>1. phase = "serving"
    BY <1>10 DEF vars
  <2> QED
    BY <1>2, <1>10, <2>1 DEF vars
<1>11. Unanswered'
  BY <1>3, <1>4, <1>5, <1>6, <1>7, <1>8, <1>9, <1>10
  DEF Next, Done, Aof, AofError
<1> QED
  BY <1>11 DEF Unanswered, CommandRecord

(* What a replay of the whole file adds to what was answered: the command  *)
(* that is about to be fsynced, or nothing.                                *)
LEMMA UnansweredReplay ==
  ASSUME FrameInv, RestartFraming, Unanswered, ~IOErrors, phase = "serving"
  PROVE  /\ \A n \in Settled .. Len(log) :
              n < Len(log) \/ (\A c \in Clients : pc[c] # "sync") => Replay(n) = Store
         /\ \A c \in Clients : pc[c] = "sync" =>
              Replay(Len(log)) =
                [Store EXCEPT ![sel[c]] = After(task[c].op, task[c].keys, task[c].id, @)]
<1>1. /\ log \in Files /\ Len(log) \in Nat /\ Settled \in 0 .. Len(log)
  BY FileFacts
<1> DEFINE Quiet(n) == n < Len(log) \/ (\A c \in Clients : pc[c] # "sync")
<1>2. ASSUME NEW n \in 1 .. Len(log)
      PROVE  Replay(n) = IF log[n].op = "select" THEN Replay(n - 1)
                         ELSE [Replay(n - 1) EXCEPT
                                 ![log[n].db] = After(log[n].op, log[n].keys, log[n].id, @)]
  BY <1>1, ReplayStep DEF RestartFraming, Replay
<1>3. \A n \in Settled .. Len(log) : Quiet(n) => Replay(n) = Store
  <2> DEFINE T == {n \in Nat : n \in Settled .. Len(log) /\ Quiet(n) => Replay(n) = Store}
  <2>1. 0 \in T
    BY <1>1 DEF Store
  <2>2. ASSUME NEW n \in Nat, n \in T PROVE n + 1 \in T
    <3> SUFFICES ASSUME n + 1 \in Settled .. Len(log), Quiet(n + 1)
                 PROVE  Replay(n + 1) = Store
      OBVIOUS
    <3>1. CASE n + 1 = Settled
      BY <3>1 DEF Store
    <3>2. CASE n + 1 # Settled
      <4>1. n \in Settled .. Len(log) /\ n + 1 \in Settled + 1 .. Len(log) /\ n < Len(log)
            /\ n + 1 \in 1 .. Len(log) /\ (n + 1) - 1 = n
        BY <1>1, <3>2
      <4>2. log[n + 1].op = "select"
        BY <4>1 DEF Unanswered
      <4> QED
        BY <1>2, <2>2, <4>1, <4>2
    <3> QED
      BY <3>1, <3>2
  <2>3. T = Nat
    <3>1. T \in SUBSET Nat /\ \A n \in T : n + 1 \in T
      BY <2>2
    <3> HIDE DEF T
    <3> QED
      BY <2>1, <3>1, SetInduction
  <2> QED
    BY <1>1, <2>3
<1>4. ASSUME NEW c \in Clients, pc[c] = "sync"
      PROVE  Replay(Len(log)) =
               [Store EXCEPT ![sel[c]] = After(task[c].op, task[c].keys, task[c].id, @)]
  <2>1. Settled < Len(log) /\ log[Len(log)] = CommandRecord(task[c], sel[c])
    BY <1>4 DEF Unanswered
  <2>2. Len(log) \in 1 .. Len(log) /\ Len(log) - 1 \in Settled .. Len(log) /\ Len(log) - 1 < Len(log)
    BY <1>1, <2>1
  <2>3. Replay(Len(log) - 1) = Store
    BY <1>3, <2>2
  <2>4. task[c].op # "select"
    BY <1>4 DEF FrameInv, TypeInv, TaskFormed, Formed, Writers
  <2> QED
    BY <1>2, <2>1, <2>2, <2>3, <2>4 DEF CommandRecord
<1> QED
  BY <1>3, <1>4

-----------------------------------------------------------------------------
(* One client's view.  A handler at p with locals t, whose database was f   *)
(* when it began, has by now brought memory to Ahead(p, t, f), and knows of *)
(* f what it read there.                                                   *)
InAddAof == {"lock"} \union InAof
Gone(t)  == {t.keys[j] : j \in 1 .. t.i - 1}

Ahead(p, t, f) ==
  CASE p \in InAddAof -> After(t.op, t.keys, t.id, f)
    [] p = "put" /\ t.op = "setnx" -> Assign(f, t.keys[1], t.id)
    [] p \in {"remove", "delete"} /\ t.op \in {"rename", "renamenx"} ->
         Assign(f, t.keys[2], t.ent)
    [] p \in {"exec", "delete"} /\ t.op = "del" ->
         [k \in Keys |-> IF k \in Gone(t) THEN Nil ELSE f[k]]
    [] OTHER -> f

Knows(p, t, f) ==
  /\ p = "exec" /\ t.op = "setnx" => t.n = 0
  /\ p = "put" /\ t.op = "setnx" => t.n = 1 /\ f[t.keys[1]] = Nil
  /\ p = "put" /\ t.op = "getset" => t.ent = f[t.keys[1]]
  /\ p \in {"put", "remove", "delete"} /\ t.op \in {"rename", "renamenx"} =>
       t.ent = f[t.keys[1]] /\ t.ent # Nil
  /\ p \in {"source", "put", "remove", "delete"} /\ t.op = "renamenx" => f[t.keys[2]] = Nil
  /\ p \in {"exec", "delete"} /\ t.op = "del" => t.n = Cardinality({k \in Gone(t) : f[k] # Nil})
  /\ p = "delete" /\ t.op = "del" => t.keys[t.i] \notin Gone(t) /\ f[t.keys[t.i]] # Nil
  /\ t.op = "exists" => t.n = Cardinality({j \in 1 .. t.i - 1 : f[t.keys[j]] # Nil})
  /\ t.op = "keys" => t.seen \subseteq Range(t.keys) /\ t.hit = {k \in t.seen : f[k] # Nil}
  /\ p \in InAddAof => LoggedReply(t) = Answer(t.op, t.keys, f)

(* Client c finds in the keys O of its database what its handler left      *)
(* there since it was f.                                                   *)
Informed(c, f, O) ==
  /\ f \in Dicts /\ O \subseteq Keys /\ Range(task[c].keys) \subseteq O
  /\ \A k \in O : mem[sel[c]][k] = Ahead(pc[c], task[c], f)[k]
  /\ Knows(pc[c], task[c], f)

(* Its next step gives the answer that f calls for and leaves f, or makes  *)
(* it more informed.                                                       *)
Advances(c, f, O) ==
  \/ /\ Finish(c, Answer(task[c].op, task[c].keys, f))
     /\ After(task[c].op, task[c].keys, task[c].id, f) = f
     /\ \A k \in O : mem'[sel[c]][k] = f[k]
  \/ \E p \in Pcs \ {"idle"}, u \in Tasks :
       /\ Go(c, p, u) /\ UNCHANGED answered
       /\ Knows(p, u, f)
       /\ \A k \in O : mem'[sel[c]][k] = Ahead(p, u, f)[k]

LEMMA AheadFacts ==
  ASSUME NEW t, NEW f
  PROVE  /\ \A p \in InAddAof : Ahead(p, t, f) = After(t.op, t.keys, t.id, f)
         /\ \A p \in {"idle", "source", "clear"} : Ahead(p, t, f) = f
         /\ Ahead("put", t, f) = IF t.op = "setnx" THEN Assign(f, t.keys[1], t.id) ELSE f
         /\ \A p \in {"remove", "delete"} : t.op \in {"rename", "renamenx"} =>
              Ahead(p, t, f) = Assign(f, t.keys[2], t.ent)
         /\ \A p \in {"exec", "delete"} : t.op = "del" =>
              Ahead(p, t, f) = [k \in Keys |-> IF k \in Gone(t) THEN Nil ELSE f[k]]
         /\ t.op # "del" => Ahead("exec", t, f) = f
         /\ t.i = 1 /\ f \in Dicts => Ahead("exec", t, f) = f
<1>1. /\ \A p \in InAddAof : Ahead(p, t, f) = After(t.op, t.keys, t.id, f)
      /\ \A p \in {"idle", "source", "clear"} : Ahead(p, t, f) = f
      /\ Ahead("put", t, f) = IF t.op = "setnx" THEN Assign(f, t.keys[1], t.id) ELSE f
  BY DEF Ahead, InAddAof, InAof
<1>2. \A p \in {"remove", "delete"} : t.op \in {"rename", "renamenx"} =>
              Ahead(p, t, f) = Assign(f, t.keys[2], t.ent)
  BY DEF Ahead, InAddAof, InAof
<1>3. \A p \in {"exec", "delete"} : t.op = "del" =>
              Ahead(p, t, f) = [k \in Keys |-> IF k \in Gone(t) THEN Nil ELSE f[k]]
  BY DEF Ahead, InAddAof, InAof
<1>4. t.op # "del" => Ahead("exec", t, f) = f
  BY DEF Ahead, InAddAof, InAof
<1>5. t.i = 1 /\ f \in Dicts => Ahead("exec", t, f) = f
  <2> SUFFICES ASSUME t.i = 1, f \in Dicts, t.op = "del" PROVE Ahead("exec", t, f) = f
    BY <1>4
  <2>1. Gone(t) = {}
    BY DEF Gone
  <2> QED
    BY <1>3, <2>1 DEF Dicts
<1> QED
  BY <1>1, <1>2, <1>3, <1>4, <1>5

LEMMA AssignFacts ==
  ASSUME NEW m \in Dicts, NEW k, NEW v \in Nat
  PROVE  Assign(m, k, v) \in Dicts /\ \A j \in Keys : Assign(m, k, v)[j] = IF j = k THEN v ELSE m[j]
BY DEF Assign, Dicts

LEMMA InformedFacts ==
  ASSUME FrameInv, NEW c \in Clients, NEW f, NEW O, Informed(c, f, O)
  PROVE  /\ task[c] \in Tasks /\ Formed(pc[c], task[c]) /\ Counted(pc[c], task[c])
         /\ mem \in [DBs -> Dicts] /\ sel[c] \in DBs /\ mem[sel[c]] \in Dicts
         /\ f \in Dicts /\ O \subseteq Keys
         /\ \A j \in 1 .. Len(task[c].keys) : Arg(c, j) = task[c].keys[j] /\ Arg(c, j) \in O
         /\ \A k \in O : Stored(c, k) = Ahead(pc[c], task[c], f)[k]
         /\ Knows(pc[c], task[c], f)
<1>1. /\ task[c] \in Tasks /\ Formed(pc[c], task[c]) /\ Counted(pc[c], task[c])
      /\ mem \in [DBs -> Dicts] /\ sel[c] \in DBs /\ mem[sel[c]] \in Dicts
  BY DEF FrameInv, TypeInv, TypeOK, TaskFormed, TaskCounted
<1>2. \A j \in 1 .. Len(task[c].keys) : task[c].keys[j] \in Range(task[c].keys)
  BY <1>1, LenProperties DEF Tasks, Range
<1> QED
  BY <1>1, <1>2 DEF Informed, Arg, Stored

(* A Store under one key, seen from the keys of O.                         *)
LEMMA StoreSeen ==
  ASSUME FrameInv, NEW c \in Clients, NEW f, NEW O, Informed(c, f, O),
         NEW k, NEW v \in Nat, StoreTo(c, k, v)
  PROVE  \A j \in O : mem'[sel[c]][j] = IF j = k THEN v ELSE Ahead(pc[c], task[c], f)[j]
<1>1. mem'[sel[c]] = Assign(mem[sel[c]], k, v)
  BY InformedFacts DEF StoreTo
<1>2. \A j \in Keys : Assign(mem[sel[c]], k, v)[j] = IF j = k THEN v ELSE mem[sel[c]][j]
  BY InformedFacts, AssignFacts
<1> QED
  BY <1>1, <1>2 DEF Informed

-----------------------------------------------------------------------------
(* Every step of a handler advances its client's view.                     *)
LEMMA FirstArg ==
  ASSUME FrameInv, NEW c \in Clients,
         task[c].op \in {"get", "set", "setnx", "getset", "rename", "renamenx"}
  PROVE  1 \in 1 .. Len(task[c].keys)
<1>1. Formed(pc[c], task[c])
  BY DEF FrameInv, TypeInv, TaskFormed
<1>2. Len(task[c].keys) \in {1, 2}
  BY <1>1 DEF Formed, WellFormed
<1>3. \A n \in {1, 2} : 1 \in 1 .. n
  OBVIOUS
<1> QED
  BY <1>2, <1>3

(* What each operation answers, and what it does.                          *)
LEMMA AnswerPlain ==
  ASSUME NEW op, NEW ks, NEW m
  PROVE  /\ op \in {"ping", "set", "flushdb"} => Answer(op, ks, m) = OkReply
         /\ op = "bad" => Answer(op, ks, m) = ErrReply
         /\ op \notin Ops => Answer(op, ks, m) = UnknownReply
BY DEF Answer, Ops, Stateless, Readers, Writers

LEMMA AnswerValue ==
  ASSUME NEW op, NEW ks, NEW m
  PROVE  /\ op \in {"get", "getset"} => Answer(op, ks, m) = BulkReply(m[ks[1]])
         /\ op = "setnx" => Answer(op, ks, m) = IntReply(IF m[ks[1]] = Nil THEN 1 ELSE 0)
BY DEF Answer

LEMMA AnswerExists ==
  ASSUME NEW ks, NEW m
  PROVE  Answer("exists", ks, m) = IntReply(Cardinality({j \in DOMAIN ks : m[ks[j]] # Nil}))
BY DEF Answer

LEMMA AnswerDel ==
  ASSUME NEW ks, NEW m
  PROVE  Answer("del", ks, m) = IntReply(Cardinality({k \in Range(ks) : m[k] # Nil}))
BY DEF Answer

LEMMA AnswerKeys ==
  ASSUME NEW ks, NEW m
  PROVE  Answer("keys", ks, m) = MultiReply({k \in Range(ks) : m[k] # Nil})
BY DEF Answer

LEMMA AnswerMoves ==
  ASSUME NEW ks, NEW m
  PROVE  /\ Answer("rename", ks, m) = IF m[ks[1]] = Nil THEN ErrReply ELSE OkReply
         /\ Answer("renamenx", ks, m) = IF m[ks[2]] # Nil THEN IntReply(0)
              ELSE IF m[ks[1]] = Nil THEN ErrReply ELSE IntReply(1)
BY DEF Answer

LEMMA AfterTable ==
  ASSUME NEW op, NEW ks, NEW v, NEW m
  PROVE  /\ op \in {"set", "getset"} => After(op, ks, v, m) = Assign(m, ks[1], v)
         /\ op = "setnx" => After(op, ks, v, m) = IF m[ks[1]] = Nil THEN Assign(m, ks[1], v) ELSE m
         /\ op = "del" =>
              After(op, ks, v, m) = [k \in Keys |-> IF k \in Range(ks) THEN Nil ELSE m[k]]
         /\ op = "rename" =>
              After(op, ks, v, m) = IF m[ks[1]] # Nil THEN Move(m, ks[1], ks[2]) ELSE m
         /\ op = "renamenx" =>
              After(op, ks, v, m) =
                IF m[ks[2]] = Nil /\ m[ks[1]] # Nil THEN Move(m, ks[1], ks[2]) ELSE m
         /\ op = "flushdb" => After(op, ks, v, m) = Empty
         /\ op \notin Writers => After(op, ks, v, m) = m
BY DEF After, Writers

LEMMA StatelessAdvances ==
  ASSUME FrameInv, NEW c \in Clients, NEW f, NEW O, Informed(c, f, O), ExecStateless(c)
  PROVE  Advances(c, f, O)
<1>1. task[c].op \in {"ping", "bad"} /\ pc[c] = "exec" /\ mem' = mem
      /\ Finish(c, Answer(task[c].op, task[c].keys, Empty))
  BY DEF ExecStateless, Stateless, data
<1>2. /\ Answer(task[c].op, task[c].keys, Empty) = Answer(task[c].op, task[c].keys, f)
      /\ After(task[c].op, task[c].keys, task[c].id, f) = f
  BY <1>1, AnswerPlain, AfterTable DEF Writers
<1>3. Ahead("exec", task[c], f) = f
  BY <1>1, AheadFacts
<1> QED
  BY <1>1, <1>2, <1>3 DEF Advances, Informed

LEMMA GetAdvances ==
  ASSUME FrameInv, NEW c \in Clients, NEW f, NEW O, Informed(c, f, O), ExecGet(c)
  PROVE  Advances(c, f, O)
<1>1. task[c].op = "get" /\ pc[c] = "exec" /\ mem' = mem
      /\ Finish(c, BulkReply(Stored(c, Arg(c, 1))))
  BY DEF ExecGet, Runs, data
<1>2. 1 \in 1 .. Len(task[c].keys)
  BY <1>1, FirstArg
<1>3. Ahead("exec", task[c], f) = f
  BY <1>1, AheadFacts
<1>4. Stored(c, Arg(c, 1)) = f[task[c].keys[1]]
  BY <1>1, <1>2, <1>3, InformedFacts
<1>5. /\ BulkReply(Stored(c, Arg(c, 1))) = Answer(task[c].op, task[c].keys, f)
      /\ After(task[c].op, task[c].keys, task[c].id, f) = f
  BY <1>1, <1>4 DEF Answer, After
<1> QED
  BY <1>1, <1>3, <1>5 DEF Advances, Informed

(* How many of the first arguments f has, one argument more.               *)
Had(f, ks, i) == Cardinality({j \in 1 .. i : f[ks[j]] # Nil})

LEMMA CountNext ==
  ASSUME NEW f, NEW ks, NEW i \in Nat \ {0}
  PROVE  Had(f, ks, i) = Had(f, ks, i - 1) + (IF f[ks[i]] = Nil THEN 0 ELSE 1)
<1> DEFINE A == {j \in 1 .. i - 1 : f[ks[j]] # Nil}
           B == {j \in 1 .. i : f[ks[j]] # Nil}
<1>1. IsFiniteSet(A)
  <2>1. IsFiniteSet(1 .. i - 1) /\ A \subseteq 1 .. i - 1
    BY FS_Interval
  <2> QED
    BY <2>1, FS_Subset
<1>2. \A j : j \in 1 .. i <=> j \in 1 .. i - 1 \/ j = i
  OBVIOUS
<1>3. CASE f[ks[i]] # Nil
  <2>1. B = A \union {i} /\ i \notin A
    BY <1>2, <1>3
  <2> HIDE DEF A, B
  <2>2. Cardinality(B) = Cardinality(A) + 1
    BY <1>1, <2>1, FS_AddElement
  <2> QED
    BY <1>3, <2>2 DEF A, B, Had
<1>4. CASE f[ks[i]] = Nil
  <2>1. B = A
    BY <1>2, <1>4
  <2> HIDE DEF A, B
  <2>2. Cardinality(A) \in Nat
    BY <1>1, FS_CardinalityType
  <2>3. Cardinality(B) = Cardinality(A) + 0
    BY <2>1, <2>2
  <2> QED
    BY <1>4, <2>3 DEF A, B, Had
<1> QED
  BY <1>3, <1>4

LEMMA ExistsAdvances ==
  ASSUME FrameInv, NEW c \in Clients, NEW f, NEW O, Informed(c, f, O), ExecExists(c)
  PROVE  Advances(c, f, O)
<1> DEFINE t == task[c]
           n == t.n + (IF Stored(c, Arg(c, t.i)) = Nil THEN 0 ELSE 1)
           u == [t EXCEPT !.i = @ + 1, !.n = n]
<1>1. t.op = "exists" /\ pc[c] = "exec" /\ mem' = mem /\ t \in Tasks
      /\ t.i \in 1 .. Len(t.keys) /\ t.keys \in Seq(Keys)
  BY InformedFacts DEF ExecExists, Runs, data, Formed, Tasks
<1>2. Ahead("exec", t, f) = f
  BY <1>1, AheadFacts
<1>3. Stored(c, Arg(c, t.i)) = f[t.keys[t.i]]
  BY <1>1, <1>2, InformedFacts
<1>4. t.n = Cardinality({j \in 1 .. t.i - 1 : f[t.keys[j]] # Nil})
  <2>1. Knows("exec", t, f)
    BY <1>1, InformedFacts
  <2> QED
    BY <1>1, <2>1 DEF Knows
<1>5. n = Cardinality({j \in 1 .. t.i : f[t.keys[j]] # Nil})
  <2>1. Had(f, t.keys, t.i) = Had(f, t.keys, t.i - 1) + (IF f[t.keys[t.i]] = Nil THEN 0 ELSE 1)
    <3>1. t.i \in Nat \ {0}
      BY <1>1
    <3> QED
      BY <3>1, CountNext
  <2> QED
    BY <1>3, <1>4, <2>1 DEF Had
<1>6. n \in Nat /\ t.i + 1 \in Nat
  BY <1>1 DEF Tasks
<1> HIDE DEF n
<1>7. CASE t.i = Len(t.keys)
  <2>1. Finish(c, IntReply(n))
    BY <1>7 DEF ExecExists, n
  <2>2. DOMAIN t.keys = 1 .. t.i
    BY <1>1, <1>7, LenProperties
  <2>3. IntReply(n) = Answer(t.op, t.keys, f) /\ After(t.op, t.keys, t.id, f) = f
    BY <1>1, <1>5, <2>2 DEF Answer, After
  <2> QED
    BY <1>1, <1>2, <2>1, <2>3 DEF Advances, Informed
<1>8. CASE t.i # Len(t.keys)
  <2>1. Go(c, "exec", u) /\ UNCHANGED answered
    BY <1>8 DEF ExecExists, n
  <2>2. u \in Tasks /\ u.op = "exists" /\ u.keys = t.keys /\ u.n = n /\ u.i - 1 = t.i
    <3>1. u \in Tasks /\ u.op = t.op /\ u.keys = t.keys /\ u.n = n /\ u.i = t.i + 1
      BY <1>1, <1>6 DEF Tasks
    <3> QED
      BY <1>1, <3>1
  <2>3. Knows("exec", u, f)
    <3> HIDE DEF u
    <3> QED
      BY <1>5, <2>2 DEF Knows, InAddAof, InAof
  <2>4. Ahead("exec", u, f) = f /\ "exec" \in Pcs \ {"idle"}
    BY <2>2, AheadFacts, ZenonT(60) DEF Pcs, InDict
  <2> HIDE DEF u
  <2> QED
    BY <1>1, <1>2, <2>1, <2>2, <2>3, <2>4 DEF Advances, Informed
<1> QED
  BY <1>7, <1>8

LEMMA KeysAdvances ==
  ASSUME FrameInv, NEW c \in Clients, NEW f, NEW O, Informed(c, f, O), ExecKeys(c)
  PROVE  Advances(c, f, O)
<1> DEFINE t == task[c]
           left == Range(t.keys) \ t.seen
<1>1. t.op = "keys" /\ pc[c] = "exec" /\ mem' = mem /\ t \in Tasks
  BY InformedFacts DEF ExecKeys, Runs, data
<1>2. Ahead("exec", t, f) = f
  BY <1>1, AheadFacts
<1>3. t.seen \subseteq Range(t.keys) /\ t.hit = {k \in t.seen : f[k] # Nil}
  BY <1>1, InformedFacts DEF Knows
<1>4. CASE left = {} /\ Finish(c, MultiReply(t.hit))
  <2>1. t.seen = Range(t.keys)
    BY <1>3, <1>4
  <2>2. MultiReply(t.hit) = Answer(t.op, t.keys, f) /\ After(t.op, t.keys, t.id, f) = f
    BY <1>1, <1>3, <2>1 DEF Answer, After
  <2> QED
    BY <1>1, <1>2, <1>4, <2>2 DEF Advances, Informed
<1>5. ASSUME NEW k \in left, UNCHANGED answered,
             Go(c, "exec", [t EXCEPT !.seen = @ \union {k},
                    !.hit = IF Stored(c, k) = Nil THEN @ ELSE @ \union {k}])
      PROVE  Advances(c, f, O)
  <2> DEFINE u == [t EXCEPT !.seen = @ \union {k},
                    !.hit = IF Stored(c, k) = Nil THEN @ ELSE @ \union {k}]
  <2>1. k \in O /\ k \in Keys /\ Stored(c, k) = f[k]
    <3>1. k \in Range(t.keys)
      BY <1>5
    <3>2. k \in O /\ k \in Keys
      BY <3>1 DEF Informed
    <3> QED
      BY <1>1, <1>2, <3>2, InformedFacts
  <2>2. /\ u \in Tasks /\ u.op = "keys" /\ u.keys = t.keys
        /\ u.seen = t.seen \union {k}
        /\ u.hit = IF f[k] = Nil THEN t.hit ELSE t.hit \union {k}
    BY <1>1, <2>1 DEF Tasks
  <2>3. Knows("exec", u, f)
    BY <1>3, <1>5, <2>2 DEF Knows, InAddAof, InAof
  <2>4. Ahead("exec", u, f) = f /\ "exec" \in Pcs \ {"idle"}
    BY <2>2, AheadFacts DEF Pcs, InDict
  <2> HIDE DEF u
  <2>5. Go(c, "exec", u)
    BY <1>5 DEF u
  <2> QED
    BY <1>1, <1>2, <1>5, <2>2, <2>3, <2>4, <2>5 DEF Advances, Informed
<1> QED
  BY <1>4, <1>5 DEF ExecKeys

LEMMA SetAdvances ==
  ASSUME FrameInv, NEW c \in Clients, NEW f, NEW O, Informed(c, f, O), ExecSet(c)
  PROVE  Advances(c, f, O)
<1> DEFINE t == task[c]
<1>1. t.op = "set" /\ pc[c] = "exec" /\ t \in Tasks /\ t.id \in Nat
      /\ StoreTo(c, Arg(c, 1), t.id) /\ Go(c, "lock", t) /\ UNCHANGED answered
  BY InformedFacts DEF ExecSet, Runs, Tasks
<1>2. Arg(c, 1) = t.keys[1]
  BY DEF Arg
<1>3. Ahead("exec", t, f) = f /\ Ahead("lock", t, f) = Assign(f, t.keys[1], t.id)
  BY <1>1, AheadFacts DEF InAddAof, After
<1>4. \A k \in O : mem'[sel[c]][k] = Ahead("lock", t, f)[k]
  <2>1. \A k \in O : mem'[sel[c]][k] = IF k = t.keys[1] THEN t.id ELSE f[k]
    BY <1>1, <1>2, <1>3, StoreSeen
  <2> QED
    BY <1>1, <1>3, <2>1, AssignFacts, InformedFacts
<1>5. Knows("lock", t, f) /\ "lock" \in Pcs \ {"idle"}
  BY <1>1 DEF Knows, LoggedReply, Answer, InAddAof, Pcs
<1> QED
  BY <1>1, <1>4, <1>5 DEF Advances

LEMMA SetnxAdvances ==
  ASSUME FrameInv, NEW c \in Clients, NEW f, NEW O, Informed(c, f, O), ExecSetnx(c)
  PROVE  Advances(c, f, O)
<1> DEFINE t == task[c]
           u == [t EXCEPT !.n = 1]
<1>1. t.op = "setnx" /\ pc[c] = "exec" /\ t \in Tasks /\ t.id \in Nat /\ UNCHANGED answered
      /\ t.n = 0 /\ 1 \in 1 .. Len(t.keys)
  <2>1. t.op = "setnx" /\ pc[c] = "exec" /\ t \in Tasks /\ UNCHANGED answered
    BY InformedFacts DEF ExecSetnx, Runs
  <2>2. Knows("exec", t, f) /\ 1 \in 1 .. Len(t.keys)
    BY <2>1, InformedFacts, FirstArg
  <2> QED
    BY <2>1, <2>2 DEF Tasks, Knows
<1>2. Ahead("exec", t, f) = f
  BY <1>1, AheadFacts
<1>3. Arg(c, 1) = t.keys[1] /\ Stored(c, Arg(c, 1)) = f[t.keys[1]]
  BY <1>1, <1>2, InformedFacts
<1>4. CASE f[t.keys[1]] = Nil
  <2>1. StoreTo(c, t.keys[1], t.id) /\ Go(c, "put", u)
    BY <1>3, <1>4 DEF ExecSetnx
  <2>2. u \in Tasks /\ u.op = "setnx" /\ u.n = 1 /\ u.keys = t.keys /\ u.id = t.id
    BY <1>1 DEF Tasks
  <2>3. Ahead("put", u, f) = Assign(f, t.keys[1], t.id)
    BY <2>2, AheadFacts
  <2>4. \A k \in O : mem'[sel[c]][k] = Ahead("put", u, f)[k]
    <3>1. \A k \in O : mem'[sel[c]][k] = IF k = t.keys[1] THEN t.id ELSE f[k]
      BY <1>1, <1>2, <2>1, StoreSeen
    <3> QED
      BY <1>1, <2>3, <3>1, AssignFacts, InformedFacts
  <2>5. Knows("put", u, f) /\ "put" \in Pcs \ {"idle"}
    BY <1>4, <2>2 DEF Knows, InAddAof, InAof, Pcs, InDict
  <2> HIDE DEF u
  <2> QED
    BY <1>1, <2>1, <2>2, <2>4, <2>5 DEF Advances
<1>5. CASE f[t.keys[1]] # Nil
  <2>1. mem' = mem /\ Go(c, "lock", t)
    BY <1>3, <1>5 DEF ExecSetnx
  <2>2. Ahead("lock", t, f) = f
    BY <1>1, <1>5, AheadFacts DEF InAddAof, After
  <2>3. Knows("lock", t, f) /\ "lock" \in Pcs \ {"idle"}
    BY <1>1, <1>5 DEF Knows, LoggedReply, Answer, InAddAof, Pcs
  <2> QED
    BY <1>1, <1>2, <2>1, <2>2, <2>3 DEF Advances, Informed
<1> QED
  BY <1>4, <1>5

LEMMA GetsetAdvances ==
  ASSUME FrameInv, NEW c \in Clients, NEW f, NEW O, Informed(c, f, O), ExecGetset(c)
  PROVE  Advances(c, f, O)
<1> DEFINE t == task[c]
           u == [t EXCEPT !.ent = Stored(c, Arg(c, 1))]
<1>1. t.op = "getset" /\ pc[c] = "exec" /\ t \in Tasks /\ UNCHANGED answered /\ mem' = mem
      /\ 1 \in 1 .. Len(t.keys) /\ Go(c, "put", u)
  <2>1. t.op = "getset" /\ pc[c] = "exec" /\ t \in Tasks /\ UNCHANGED answered /\ mem' = mem
        /\ Go(c, "put", u)
    BY InformedFacts DEF ExecGetset, Runs, data
  <2> QED
    BY <2>1, FirstArg
<1>2. Ahead("exec", t, f) = f
  BY <1>1, AheadFacts
<1>3. Arg(c, 1) = t.keys[1] /\ Stored(c, Arg(c, 1)) = f[t.keys[1]] /\ f[t.keys[1]] \in Nat
  BY <1>1, <1>2, InformedFacts DEF Dicts
<1>4. u \in Tasks /\ u.op = "getset" /\ u.ent = f[t.keys[1]] /\ u.keys = t.keys
  BY <1>1, <1>3 DEF Tasks
<1>5. Ahead("put", u, f) = f
  BY <1>4, AheadFacts
<1>6. Knows("put", u, f) /\ "put" \in Pcs \ {"idle"}
  BY <1>4 DEF Knows, InAddAof, InAof, Pcs, InDict
<1> HIDE DEF u
<1> QED
  BY <1>1, <1>2, <1>4, <1>5, <1>6 DEF Advances, Informed

LEMMA AheadLock ==
  ASSUME NEW t, NEW f
  PROVE  Ahead("lock", t, f) = After(t.op, t.keys, t.id, f)
BY DEF Ahead, InAddAof

First(ks, n) == {ks[j] : j \in 1 .. n}

LEMMA FirstFinite ==
  ASSUME NEW ks, NEW n \in Int
  PROVE  IsFiniteSet(First(ks, n))
<1> DEFINE T == {ks[j] : j \in 1 .. n}
           g == [j \in 1 .. n |-> ks[j]]
<1>1. g \in Surjection(1 .. n, T)
  BY DEF Surjection
<1>2. IsFiniteSet(1 .. n)
  BY FS_Interval
<1> HIDE DEF g, T
<1>3. IsFiniteSet(T)
  BY <1>1, <1>2, FS_Surjection
<1> QED
  BY <1>3 DEF T, First

LEMMA RenameAdvances ==
  ASSUME FrameInv, NEW c \in Clients, NEW f, NEW O, Informed(c, f, O),
         ExecRename(c) \/ ExecRenamenx(c) \/ RenamenxSource(c)
  PROVE  Advances(c, f, O)
<1> DEFINE t == task[c]
<1>1. /\ t \in Tasks /\ mem' = mem /\ t.op \in {"rename", "renamenx"} /\ f \in Dicts
      /\ pc[c] \in {"exec", "source"}
      /\ Knows(pc[c], t, f)
  BY InformedFacts DEF ExecRename, ExecRenamenx, RenamenxSource, Runs, At, Formed, data
<1>2. Len(t.keys) = 2 /\ 1 \in 1 .. Len(t.keys) /\ 2 \in 1 .. Len(t.keys)
  <2>1. Len(t.keys) = 2
    BY <1>1, InformedFacts DEF Formed, WellFormed
  <2> QED
    BY <2>1
<1>3. Ahead("exec", t, f) = f /\ Ahead("source", t, f) = f
  BY <1>1, AheadFacts
<1>4. /\ Arg(c, 1) = t.keys[1] /\ Stored(c, Arg(c, 1)) = f[t.keys[1]] /\ f[t.keys[1]] \in Nat
      /\ Arg(c, 2) = t.keys[2] /\ Stored(c, Arg(c, 2)) = f[t.keys[2]]
  <2>1. Arg(c, 1) \in O /\ Arg(c, 2) \in O /\ Arg(c, 1) = t.keys[1] /\ Arg(c, 2) = t.keys[2]
    BY <1>2, InformedFacts
  <2>2. Stored(c, Arg(c, 1)) = f[Arg(c, 1)] /\ Stored(c, Arg(c, 2)) = f[Arg(c, 2)]
    BY <1>1, <1>3, <2>1, InformedFacts
  <2> QED
    BY <1>1, <2>1, <2>2, InformedFacts DEF Dicts
<1>5. {"put", "source"} \subseteq Pcs \ {"idle"}
  BY DEF Pcs, InDict
<1>6. \A k \in O : mem'[sel[c]][k] = f[k]
  BY <1>1, <1>3 DEF Informed
<1>7. CASE ExecRename(c)
  <2>1. t.op = "rename" /\ pc[c] = "exec"
    BY <1>7 DEF ExecRename, Runs
  <2>2. CASE f[t.keys[1]] = Nil
    <3>1. Finish(c, ErrReply)
      BY <1>4, <1>7, <2>2 DEF ExecRename
    <3>2. Answer(t.op, t.keys, f) = ErrReply /\ After(t.op, t.keys, t.id, f) = f
      BY <2>1, <2>2 DEF Answer, After
    <3> QED
      BY <1>6, <3>1, <3>2 DEF Advances
  <2>3. CASE f[t.keys[1]] # Nil
    <3> DEFINE u == [t EXCEPT !.ent = f[t.keys[1]]]
    <3>1. Go(c, "put", u) /\ UNCHANGED answered
      BY <1>4, <1>7, <2>3 DEF ExecRename
    <3>2. u \in Tasks /\ u.op = "rename" /\ u.keys = t.keys /\ u.ent = f[t.keys[1]]
      BY <1>1, <1>4, <2>1 DEF Tasks
    <3> HIDE DEF u
    <3>3. Knows("put", u, f) /\ Ahead("put", u, f) = f
      BY <2>3, <3>2, AheadFacts DEF Knows, InAddAof, InAof
    <3> QED
      BY <1>5, <1>6, <3>1, <3>2, <3>3 DEF Advances
  <2> QED
    BY <2>2, <2>3
<1>8. CASE ExecRenamenx(c)
  <2>1. t.op = "renamenx" /\ pc[c] = "exec"
    BY <1>8 DEF ExecRenamenx, Runs
  <2>2. CASE f[t.keys[2]] # Nil
    <3>1. Finish(c, IntReply(0))
      BY <1>4, <1>8, <2>2 DEF ExecRenamenx
    <3>2. Answer(t.op, t.keys, f) = IntReply(0) /\ After(t.op, t.keys, t.id, f) = f
      BY <2>1, <2>2 DEF Answer, After
    <3> QED
      BY <1>6, <3>1, <3>2 DEF Advances
  <2>3. CASE f[t.keys[2]] = Nil
    <3>1. Go(c, "source", t) /\ UNCHANGED answered
      BY <1>4, <1>8, <2>3 DEF ExecRenamenx
    <3>2. Knows("source", t, f) /\ Ahead("source", t, f) = f
      BY <1>1, <1>3, <2>1, <2>3 DEF Knows, InAddAof, InAof
    <3> QED
      BY <1>1, <1>5, <1>6, <3>1, <3>2 DEF Advances
  <2> QED
    BY <2>2, <2>3
<1>9. CASE RenamenxSource(c)
  <2>1. pc[c] = "source" /\ t.op = "renamenx" /\ f[t.keys[2]] = Nil
    BY <1>1, <1>9, InformedFacts DEF RenamenxSource, At, Formed, Knows
  <2>2. CASE f[t.keys[1]] = Nil
    <3>1. Finish(c, ErrReply)
      BY <1>4, <1>9, <2>2 DEF RenamenxSource
    <3>2. Answer(t.op, t.keys, f) = ErrReply /\ After(t.op, t.keys, t.id, f) = f
      BY <2>1, <2>2 DEF Answer, After
    <3> QED
      BY <1>6, <3>1, <3>2 DEF Advances
  <2>3. CASE f[t.keys[1]] # Nil
    <3> DEFINE u == [t EXCEPT !.ent = f[t.keys[1]], !.n = 1]
    <3>1. Go(c, "put", u) /\ UNCHANGED answered
      BY <1>4, <1>9, <2>3 DEF RenamenxSource
    <3>2. u \in Tasks /\ u.op = "renamenx" /\ u.keys = t.keys /\ u.ent = f[t.keys[1]]
      BY <1>1, <1>4, <2>1 DEF Tasks
    <3> HIDE DEF u
    <3>3. Knows("put", u, f) /\ Ahead("put", u, f) = f
      BY <2>1, <2>3, <3>2, AheadFacts DEF Knows, InAddAof, InAof
    <3> QED
      BY <1>5, <1>6, <3>1, <3>2, <3>3 DEF Advances
  <2> QED
    BY <2>2, <2>3
<1> QED
  BY <1>7, <1>8, <1>9

LEMMA PutAdvances ==
  ASSUME FrameInv, NEW c \in Clients, NEW f, NEW O, Informed(c, f, O), Put(c)
  PROVE  Advances(c, f, O)
<1> DEFINE t == task[c]
<1>1. /\ t \in Tasks /\ pc[c] = "put" /\ f \in Dicts /\ Knows("put", t, f) /\ UNCHANGED answered
      /\ t.op \in {"setnx", "getset", "rename", "renamenx"} /\ t.id \in Nat /\ t.ent \in Nat
  BY InformedFacts DEF Put, At, Counted, Tasks
<1>2. Arg(c, 1) = t.keys[1] /\ Arg(c, 2) = t.keys[2]
  BY DEF Arg
<1>3. Ahead("put", t, f) = IF t.op = "setnx" THEN Assign(f, t.keys[1], t.id) ELSE f
  BY AheadFacts
<1>4. CASE t.op \in {"rename", "renamenx"}
  <2>1. StoreTo(c, t.keys[2], t.ent) /\ Go(c, "remove", t)
    BY <1>2, <1>4 DEF Put
  <2>2. Ahead("remove", t, f) = Assign(f, t.keys[2], t.ent)
    BY <1>4, AheadFacts
  <2>3. \A k \in O : mem'[sel[c]][k] = Ahead("remove", t, f)[k]
    <3>1. \A k \in O : mem'[sel[c]][k] = IF k = t.keys[2] THEN t.ent ELSE f[k]
      BY <1>1, <1>3, <1>4, <2>1, StoreSeen
    <3> QED
      BY <1>1, <2>2, <3>1, AssignFacts, InformedFacts
  <2>4. Knows("remove", t, f) /\ "remove" \in Pcs \ {"idle"}
    BY <1>1, <1>4 DEF Knows, InAddAof, InAof, Pcs, InDict
  <2> QED
    BY <1>1, <2>1, <2>3, <2>4 DEF Advances
<1>5. CASE t.op \in {"setnx", "getset"}
  <2>1. StoreTo(c, t.keys[1], t.id) /\ Go(c, "lock", t)
    BY <1>2, <1>5 DEF Put
  <2>2. Ahead("lock", t, f) = Assign(f, t.keys[1], t.id)
    BY <1>1, <1>5, AheadLock DEF After, Knows
  <2>3. \A k \in O : mem'[sel[c]][k] = Ahead("lock", t, f)[k]
    <3>1. \A k \in O : mem'[sel[c]][k] = IF k = t.keys[1] THEN t.id ELSE Ahead("put", t, f)[k]
      BY <1>1, <2>1, StoreSeen
    <3>2. \A k \in Keys : Assign(f, t.keys[1], t.id)[k] = IF k = t.keys[1] THEN t.id ELSE f[k]
      BY <1>1, AssignFacts
    <3> QED
      BY <1>3, <2>2, <3>1, <3>2, InformedFacts
  <2>4. Knows("lock", t, f) /\ "lock" \in Pcs \ {"idle"}
    BY <1>1, <1>5 DEF Knows, LoggedReply, Answer, InAddAof, InAof, Pcs
  <2> QED
    BY <1>1, <2>1, <2>3, <2>4 DEF Advances
<1> QED
  BY <1>1, <1>4, <1>5

(* After its next argument, DEL has removed one more, or there are no more. *)
LEMMA RemovedAdvances ==
  ASSUME FrameInv, NEW c \in Clients, NEW f, NEW O, Informed(c, f, O),
         task[c].op = "del", NEW t \in Tasks, t.op = "del", t.keys = task[c].keys,
         t.i = task[c].i, t.id = task[c].id, Removed(c, t),
         t.n = Cardinality({k \in Gone(t) \union {t.keys[t.i]} : f[k] # Nil}),
         \A k \in O : mem'[sel[c]][k] = IF k \in Gone(t) \union {t.keys[t.i]} THEN Nil ELSE f[k]
  PROVE  Advances(c, f, O)
<1>1. /\ t.i \in 1 .. Len(t.keys) /\ t.keys \in Seq(Keys) /\ f \in Dicts /\ O \subseteq Keys
      /\ Len(t.keys) \in Nat
  BY InformedFacts, LenProperties DEF Formed, Tasks
<1>2. \A j : j \in 1 .. t.i <=> j \in 1 .. t.i - 1 \/ j = t.i
  BY <1>1
<1>3. CASE t.i < Len(t.keys)
  <2> DEFINE u == [t EXCEPT !.i = @ + 1]
  <2>1. Go(c, "exec", u) /\ UNCHANGED answered
    BY <1>3 DEF Removed
  <2>2. u \in Tasks /\ u.op = "del" /\ u.keys = t.keys /\ u.n = t.n /\ u.i - 1 = t.i
    <3>1. t.i + 1 \in Nat
      BY <1>1
    <3>2. u \in Tasks /\ u.op = t.op /\ u.keys = t.keys /\ u.n = t.n /\ u.i = t.i + 1
      BY <3>1 DEF Tasks
    <3> QED
      BY <1>1, <3>2
  <2> HIDE DEF u
  <2>3. Gone(u) = Gone(t) \union {t.keys[t.i]}
    BY <1>2, <2>2 DEF Gone
  <2>4. Knows("exec", u, f)
    BY <2>2, <2>3 DEF Knows, InAddAof, InAof
  <2>5. Ahead("exec", u, f) = [k \in Keys |-> IF k \in Gone(u) THEN Nil ELSE f[k]]
    BY <2>2, AheadFacts
  <2>6. \A k \in O : mem'[sel[c]][k] = Ahead("exec", u, f)[k] /\ "exec" \in Pcs \ {"idle"}
    BY <1>1, <2>3, <2>5 DEF Pcs, InDict
  <2>7. "exec" \in Pcs \ {"idle"}
    BY DEF Pcs, InDict
  <2> QED
    BY <2>1, <2>2, <2>4, <2>6, <2>7 DEF Advances
<1>4. CASE ~(t.i < Len(t.keys))
  <2>1. t.i = Len(t.keys)
    BY <1>1, <1>4
  <2>2. Range(t.keys) = Gone(t) \union {t.keys[t.i]}
    BY <1>1, <1>2, <2>1, LenProperties DEF Gone, Range
  <2>3. /\ Answer("del", t.keys, f) = IntReply(t.n)
        /\ After("del", t.keys, t.id, f) = [k \in Keys |-> IF k \in Range(t.keys) THEN Nil ELSE f[k]]
    BY <2>2 DEF Answer, After
  <2>4. \A k \in O : mem'[sel[c]][k] = After("del", t.keys, t.id, f)[k]
    BY <1>1, <2>2, <2>3
  <2>5. CASE t.n = 0
    <3>1. Finish(c, IntReply(0))
      BY <1>4, <2>5 DEF Removed
    <3>2. {k \in Range(t.keys) : f[k] # Nil} = {}
      <4> DEFINE Z == {k \in Range(t.keys) : f[k] # Nil}
      <4>1. IsFiniteSet(Z)
        <5>1. IsFiniteSet(Range(t.keys))
          <6>1. 1 .. Len(t.keys) = DOMAIN t.keys /\ Len(t.keys) \in Int
            BY <1>1, LenProperties
          <6>2. Range(t.keys) = {t.keys[j] : j \in 1 .. Len(t.keys)}
            BY <6>1 DEF Range
          <6>3. IsFiniteSet(First(t.keys, Len(t.keys)))
            BY <6>1, FirstFinite
          <6> QED
            BY <6>2, <6>3 DEF First
        <5> QED
          BY <5>1, FS_Subset
      <4>2. Cardinality(Z) = 0
        BY <2>2, <2>5
      <4> HIDE DEF Z
      <4>3. Z = {}
        BY <4>1, <4>2, FS_EmptySet
      <4> QED
        BY <4>3 DEF Z
    <3>3. After("del", t.keys, t.id, f) = f
      BY <1>1, <2>3, <3>2 DEF Dicts
    <3> QED
      BY <2>3, <2>4, <2>5, <3>1, <3>3 DEF Advances
  <2>6. CASE t.n # 0
    <3>1. Go(c, "lock", t) /\ UNCHANGED answered
      BY <1>4, <2>6 DEF Removed
    <3>2. Knows("lock", t, f) /\ "lock" \in Pcs \ {"idle"}
      BY <2>3 DEF Knows, LoggedReply, InAddAof, InAof, Pcs
    <3>3. Ahead("lock", t, f) = After("del", t.keys, t.id, f)
      BY AheadLock
    <3> QED
      BY <2>4, <3>1, <3>2, <3>3 DEF Advances
  <2> QED
    BY <2>5, <2>6
<1> QED
  BY <1>3, <1>4

LEMMA RemoveAdvances ==
  ASSUME FrameInv, NEW c \in Clients, NEW f, NEW O, Informed(c, f, O),
         RemoveLoad(c) \/ RemoveDelete(c)
  PROVE  Advances(c, f, O)
<1> DEFINE t == task[c]
<1>1. /\ t \in Tasks /\ f \in Dicts /\ O \subseteq Keys /\ Knows(pc[c], t, f)
      /\ t.op \in {"del", "rename", "renamenx"} /\ pc[c] \in {"exec", "remove", "delete"}
      /\ pc[c] = "exec" => t.op = "del"
      /\ pc[c] = "remove" => t.op # "del"
      /\ t.i \in 1 .. Len(t.keys) /\ t.keys \in Seq(Keys)
  <2>1. /\ t \in Tasks /\ f \in Dicts /\ O \subseteq Keys /\ Knows(pc[c], t, f)
        /\ t.op \in {"del", "rename", "renamenx"} /\ pc[c] \in {"exec", "remove", "delete"}
        /\ pc[c] = "exec" => t.op = "del"
        /\ pc[c] = "remove" => t.op # "del"
    BY InformedFacts DEF RemoveLoad, RemoveDelete, Runs, At, Counted
  <2>2. t.op = "del" => t.i \in 1 .. Len(t.keys)
    BY InformedFacts DEF Formed
  <2>3. t.op # "del" => t.i = 1
    BY <2>1, InformedFacts DEF Formed
  <2> QED
    BY <2>1, <2>2, <2>3, FirstArg DEF Tasks
<1>2. Arg(c, t.i) = t.keys[t.i] /\ Arg(c, t.i) \in O /\ Stored(c, Arg(c, t.i)) = Ahead(pc[c], t, f)[t.keys[t.i]]
  BY <1>1, InformedFacts
<1>3. {"delete", "lock"} \subseteq Pcs \ {"idle"}
  BY DEF Pcs, InDict
<1>4. CASE t.op = "del"
  <2>1. \A p \in {"exec", "delete"} : Ahead(p, t, f) = [k \in Keys |-> IF k \in Gone(t) THEN Nil ELSE f[k]]
    BY <1>4, AheadFacts
  <2>2. /\ \A k \in O : mem[sel[c]][k] = IF k \in Gone(t) THEN Nil ELSE f[k]
        /\ Stored(c, Arg(c, t.i)) = IF t.keys[t.i] \in Gone(t) THEN Nil ELSE f[t.keys[t.i]]
    BY <1>1, <1>2, <1>4, <2>1 DEF Informed
  <2>3. t.n = Cardinality({k \in Gone(t) : f[k] # Nil})
    BY <1>1, <1>4 DEF Knows
  <2>4. CASE RemoveLoad(c) /\ Stored(c, Arg(c, t.i)) = Nil
    <3>1. mem' = mem /\ Removed(c, t)
      BY <2>4 DEF RemoveLoad, data
    <3>2. {k \in Gone(t) \union {t.keys[t.i]} : f[k] # Nil} = {k \in Gone(t) : f[k] # Nil}
      BY <2>2, <2>4
    <3>3. \A k \in O : mem'[sel[c]][k] = IF k \in Gone(t) \union {t.keys[t.i]} THEN Nil ELSE f[k]
      BY <2>2, <2>4, <3>1
    <3> QED
      BY <1>1, <1>4, <2>3, <3>1, <3>2, <3>3, RemovedAdvances
  <2>5. CASE RemoveLoad(c) /\ Stored(c, Arg(c, t.i)) # Nil
    <3>1. mem' = mem /\ Go(c, "delete", t) /\ UNCHANGED answered
      BY <2>5 DEF RemoveLoad, data
    <3>2. Knows("delete", t, f)
      BY <1>4, <2>2, <2>3, <2>5 DEF Knows, InAddAof, InAof
    <3>3. \A k \in O : mem'[sel[c]][k] = Ahead("delete", t, f)[k]
      BY <1>1, <2>1, <2>2, <3>1
    <3> QED
      BY <1>1, <1>3, <3>1, <3>2, <3>3 DEF Advances
  <2>6. CASE RemoveDelete(c)
    <3> DEFINE u == [t EXCEPT !.n = @ + 1]
    <3>1. StoreTo(c, t.keys[t.i], Nil) /\ Removed(c, u) /\ pc[c] = "delete"
      BY <1>2, <1>4, <2>6 DEF RemoveDelete, At
    <3>2. t.n + 1 \in Nat
      BY <1>1 DEF Tasks
    <3>3. /\ u \in Tasks /\ u.op = "del" /\ u.keys = t.keys /\ u.i = t.i /\ u.id = t.id
          /\ u.n = t.n + 1
      BY <1>1, <1>4, <3>2 DEF Tasks
    <3> HIDE DEF u
    <3>4. Gone(u) = Gone(t)
      BY <3>3 DEF Gone
    <3>5. u.n = Cardinality({k \in Gone(u) \union {u.keys[u.i]} : f[k] # Nil})
      <4> DEFINE A == {k \in Gone(t) : f[k] # Nil}
                 B == {k \in Gone(u) \union {u.keys[u.i]} : f[k] # Nil}
      <4>1. t.keys[t.i] \notin Gone(t) /\ f[t.keys[t.i]] # Nil
        BY <1>1, <1>4, <3>1 DEF Knows
      <4>2. B = A \union {t.keys[t.i]} /\ t.keys[t.i] \notin A
        BY <3>3, <3>4, <4>1
      <4>3. IsFiniteSet(A)
        <5>1. t.i - 1 \in Int
          BY <1>1
        <5>2. IsFiniteSet(Gone(t))
          BY <5>1, FirstFinite DEF Gone, First
        <5> QED
          BY <5>2, FS_Subset
      <4> HIDE DEF A, B
      <4>4. Cardinality(B) = Cardinality(A) + 1
        BY <4>2, <4>3, FS_AddElement
      <4> QED
        BY <2>3, <3>3, <4>4 DEF A, B
    <3>6. \A k \in O : mem'[sel[c]][k] = IF k \in Gone(u) \union {u.keys[u.i]} THEN Nil ELSE f[k]
      <4>1. \A k \in O : mem'[sel[c]][k] = IF k = t.keys[t.i] THEN Nil ELSE Ahead(pc[c], t, f)[k]
        BY <3>1, StoreSeen DEF Nil
      <4> QED
        BY <1>1, <2>1, <3>1, <3>3, <3>4, <4>1
    <3> QED
      BY <1>4, <3>1, <3>3, <3>5, <3>6, RemovedAdvances
  <2> QED
    BY <1>4, <2>4, <2>5, <2>6
<1>5. CASE t.op # "del"
  <2>1. t.op \in {"rename", "renamenx"} /\ t.i = 1 /\ pc[c] \in {"remove", "delete"} /\ Len(t.keys) = 2
    BY <1>1, <1>5, InformedFacts DEF Formed, WellFormed
  <2>2. \A p \in {"remove", "delete"} : Ahead(p, t, f) = Assign(f, t.keys[2], t.ent)
    BY <2>1, AheadFacts
  <2>3. /\ t.ent = f[t.keys[1]] /\ t.ent # Nil /\ t.ent \in Nat
        /\ t.op = "renamenx" => f[t.keys[2]] = Nil
    BY <1>1, <2>1 DEF Knows, Tasks
  <2>4. t.keys[1] \in O /\ t.keys[1] \in Keys
    BY <1>1, <1>2, <2>1
  <2>5. \A j \in Keys : Assign(f, t.keys[2], t.ent)[j] = IF j = t.keys[2] THEN t.ent ELSE f[j]
    BY <1>1, <2>3, AssignFacts
  <2>6. CASE RemoveLoad(c)
    <3>1. Stored(c, Arg(c, t.i)) # Nil
      BY <1>2, <2>1, <2>2, <2>3, <2>4, <2>5
    <3>2. mem' = mem /\ Go(c, "delete", t) /\ UNCHANGED answered
      BY <2>6, <3>1 DEF RemoveLoad, data
    <3>3. Knows("delete", t, f)
      BY <2>1, <2>3 DEF Knows, InAddAof, InAof
    <3>4. \A k \in O : mem'[sel[c]][k] = Ahead("delete", t, f)[k]
      BY <2>1, <2>2, <3>2 DEF Informed
    <3> QED
      BY <1>1, <1>3, <3>2, <3>3, <3>4 DEF Advances
  <2>7. CASE RemoveDelete(c)
    <3>1. StoreTo(c, t.keys[1], Nil) /\ Go(c, "lock", t) /\ UNCHANGED answered
      BY <1>2, <2>1, <2>7 DEF RemoveDelete, Removed
    <3>2. Ahead("lock", t, f) = Assign(Assign(f, t.keys[2], t.ent), t.keys[1], Nil)
      BY <2>1, <2>3, AheadLock DEF After, Move
    <3>3. \A k \in O : mem'[sel[c]][k] = Ahead("lock", t, f)[k]
      <4>1. \A k \in O : mem'[sel[c]][k] = IF k = t.keys[1] THEN Nil ELSE Assign(f, t.keys[2], t.ent)[k]
        BY <2>1, <2>2, <3>1, StoreSeen DEF Nil
      <4>2. Assign(f, t.keys[2], t.ent) \in Dicts
        BY <1>1, <2>3, AssignFacts
      <4>3. \A j \in Keys : Ahead("lock", t, f)[j] =
              IF j = t.keys[1] THEN Nil ELSE Assign(f, t.keys[2], t.ent)[j]
        BY <3>2, <4>2, AssignFacts DEF Nil
      <4> QED
        BY <1>1, <4>1, <4>3
    <3>4. Knows("lock", t, f)
      <4>1. t.op = "renamenx" => t.n = 1
        BY <2>1, InformedFacts DEF Counted
      <4> QED
        BY <2>1, <2>3, <4>1 DEF Knows, LoggedReply, Answer, InAddAof, InAof
    <3> QED
      BY <1>1, <1>3, <3>1, <3>3, <3>4 DEF Advances
  <2> QED
    BY <2>6, <2>7
<1> QED
  BY <1>4, <1>5

LEMMA FlushAdvances ==
  ASSUME FrameInv, NEW c \in Clients, NEW f, NEW O, Informed(c, f, O),
         FlushBegin(c) \/ FlushEnd(c)
  PROVE  Advances(c, f, O)
<1> DEFINE t == task[c]
<1>1. /\ t \in Tasks /\ t.op = "flushdb" /\ mem \in [DBs -> Dicts] /\ sel[c] \in DBs
      /\ O \subseteq Keys /\ UNCHANGED answered
  BY InformedFacts DEF FlushBegin, FlushEnd, Counted
<1>2. {"clear", "lock"} \subseteq Pcs \ {"idle"}
  BY DEF Pcs
<1>3. CASE FlushBegin(c)
  <2>1. pc[c] = "exec" /\ Go(c, "clear", t) /\ mem' = mem
    BY <1>3 DEF FlushBegin, data
  <2>2. Ahead("exec", t, f) = f /\ Ahead("clear", t, f) = f
    BY <1>1, AheadFacts
  <2>3. Knows("clear", t, f)
    BY <1>1 DEF Knows, InAddAof, InAof
  <2> QED
    BY <1>1, <1>2, <2>1, <2>2, <2>3 DEF Advances, Informed
<1>4. CASE FlushEnd(c)
  <2>1. Go(c, "lock", t) /\ mem'[sel[c]] = Empty
    BY <1>1, <1>4 DEF FlushEnd
  <2>2. Ahead("lock", t, f) = Empty
    BY <1>1, AheadLock DEF After
  <2>3. Knows("lock", t, f)
    BY <1>1 DEF Knows, LoggedReply, Answer, InAddAof, InAof
  <2> QED
    BY <1>1, <1>2, <2>1, <2>2, <2>3 DEF Advances
<1> QED
  BY <1>3, <1>4

LEMMA DictAdvances ==
  ASSUME FrameInv, NEW c \in Clients, NEW f, NEW O, Informed(c, f, O), Dict(c), ~Panic(c)
  PROVE  Advances(c, f, O)
BY StatelessAdvances, GetAdvances, ExistsAdvances, KeysAdvances, SetAdvances, SetnxAdvances,
   GetsetAdvances, RenameAdvances, PutAdvances, RemoveAdvances, FlushAdvances DEF Dict

-----------------------------------------------------------------------------
(* All clients at once.  A busy client runs a command of its menu, in the  *)
(* database it has selected; a handler that a broken map awaits has not    *)
(* done anything yet, unless another client flushes the database; and each *)
(* client that keeps to its own finds there what it left.                  *)
InMenu ==
  \A c \in Clients :
    IF pc[c] = "idle" THEN task[c] = NoTask
    ELSE \E cmd \in Menu[c] : cmd.db = sel[c] /\ cmd.op = task[c].op /\ cmd.keys = task[c].keys

Flushes(c, d) == \E cmd \in Menu[c] : cmd.db = d /\ cmd.op = "flushdb"

Unbroken ==
  \A c \in Clients :
    pc[c] \in InDict /\ sel[c] \in broken /\ (\A o \in Clients \ {c} : ~Flushes(o, sel[c])) =>
      pc[c] = "exec" /\ task[c].i = 1

Mine(c, d) == {k \in Keys : Owns(c, d, k)}

View(c) ==
  /\ KeepsToOwn(c, sel[c]) => Informed(c, Store[sel[c]], Mine(c, sel[c]))
  /\ \A d \in DBs : KeepsToOwn(c, d) /\ d # sel[c] =>
       \A k \in Mine(c, d) : mem[d][k] = Store[d][k]

Views == ~IOErrors /\ phase = "serving" => \A c \in Clients : View(c)

LEMMA InMenuNext == FrameInv /\ InMenu /\ [Next]_vars => InMenu'
<1> SUFFICES ASSUME FrameInv, InMenu, [Next]_vars PROVE InMenu'
  OBVIOUS
<1>1. pc \in [Clients -> Pcs] /\ task \in [Clients -> Tasks] /\ sel \in [Clients -> DBs]
  BY DEF FrameInv, TypeInv, TypeOK
<1>2. ASSUME UNCHANGED <<pc, task, sel>> PROVE InMenu'
  BY <1>2 DEF InMenu
<1>3. ASSUME NEW c \in Clients, sel' = sel, pc[c] # "idle",
             \A o \in Clients \ {c} : pc'[o] = pc[o] /\ task'[o] = task[o],
             \/ pc'[c] = "idle" /\ task'[c] = NoTask
             \/ pc'[c] # "idle" /\ task'[c].op = task[c].op /\ task'[c].keys = task[c].keys
      PROVE  InMenu'
  BY <1>3 DEF InMenu
<1>4. ASSUME NEW c \in Clients, Select(c) PROVE InMenu'
  BY <1>1, <1>4 DEF Select, InMenu
<1>5. ASSUME NEW c \in Clients, Issue(c) PROVE InMenu'
  <2>1. PICK cmd \in Menu[c] :
          /\ cmd.db = sel[c]
          /\ Go(c, "exec", [NoTask EXCEPT !.id = nextId, !.op = cmd.op, !.keys = cmd.keys])
    BY <1>5 DEF Issue
  <2>2. /\ sel' = sel /\ pc'[c] = "exec" /\ task'[c].op = cmd.op /\ task'[c].keys = cmd.keys
        /\ \A o \in Clients \ {c} : pc'[o] = pc[o] /\ task'[o] = task[o]
    BY <1>1, <1>5, <2>1 DEF Issue, Go, NoTask
  <2> QED
    BY <2>1, <2>2 DEF InMenu
<1>6. ASSUME NEW c \in Clients, Dict(c) PROVE InMenu'
  <2>1. Frame(c) /\ TypeInv
    BY <1>6, DictFrame DEF FrameInv
  <2>2. sel' = sel /\ pc[c] # "idle" /\ \A o \in Clients \ {c} : pc'[o] = pc[o] /\ task'[o] = task[o]
    BY <1>6, DictFacts
  <2>3. CASE Moves(c)
    <3>1. PICK p \in Pcs \ (InAof \union {"idle"}), t \in Tasks :
            Go(c, p, t) /\ t.op = task[c].op /\ t.keys = task[c].keys
      BY <2>3 DEF Moves
    <3> QED
      BY <1>1, <1>3, <2>2, <3>1 DEF Go
  <2>4. CASE Refuses(c)
    BY <1>1, <1>3, <2>2, <2>4 DEF Refuses, Finish, Go
  <2> QED
    BY <2>1, <2>3, <2>4 DEF Frame
<1>7. ASSUME NEW c \in Clients, Aof(c) PROVE InMenu'
  <2>1. sel' = sel /\ pc[c] # "idle" /\ \A o \in Clients \ {c} : pc'[o] = pc[o] /\ task'[o] = task[o]
    BY <1>7, AofFacts DEF InAof
  <2>2. \/ pc'[c] = "idle" /\ task'[c] = NoTask
        \/ pc'[c] # "idle" /\ task'[c] = task[c]
    BY <1>1, <1>7 DEF Aof, AofLock, AofSelect, AofWrite, AofSync, AofError, Go, Finish
  <2> QED
    BY <1>3, <2>1, <2>2
<1>8. CASE Load
  BY <1>2, <1>8 DEF Load, LoadRecord, StartServing, conns
<1>9. CASE ProcessCrash \/ PowerLoss
  BY <1>9 DEF ProcessCrash, PowerLoss, Restart, InMenu
<1>10. CASE UNCHANGED vars
  BY <1>2, <1>10 DEF vars
<1> QED
  BY <1>4, <1>5, <1>6, <1>7, <1>8, <1>9, <1>10 DEF Next, Done

(* A client that flushes has it on its menu.                               *)
LEMMA Flusher ==
  ASSUME FrameInv, InMenu, NEW c \in Clients, pc[c] # "idle", task[c].op = "flushdb"
  PROVE  Flushes(c, sel[c])
BY DEF InMenu, Flushes

LEMMA UnbrokenNext == FrameInv /\ InMenu /\ Unbroken /\ [Next]_vars => Unbroken'
<1> SUFFICES ASSUME FrameInv, InMenu, Unbroken, [Next]_vars PROVE Unbroken'
  OBVIOUS
<1>1. /\ pc \in [Clients -> Pcs] /\ task \in [Clients -> Tasks] /\ sel \in [Clients -> DBs]
      /\ "idle" \notin InDict /\ "lock" \notin InDict /\ "clear" \notin InDict /\ InDict \cap InAof = {}
  BY DEF FrameInv, TypeInv, TypeOK, InDict, InAof
<1>2. ASSUME NEW c \in Clients, broken' = broken,
             \A o \in Clients \ {c} : pc'[o] = pc[o] /\ task'[o] = task[o] /\ sel'[o] = sel[o],
             pc'[c] \in InDict => (pc'[c] = "exec" /\ task'[c].i = 1) \/ sel'[c] \notin broken
      PROVE  Unbroken'
  BY <1>2 DEF Unbroken
<1>3. ASSUME NEW c \in Clients, Select(c) \/ Issue(c) PROVE Unbroken'
  <2>1. /\ broken' = broken
        /\ \A o \in Clients \ {c} : pc'[o] = pc[o] /\ task'[o] = task[o] /\ sel'[o] = sel[o]
    BY <1>1, <1>3 DEF Select, Issue, Go, data
  <2>2. pc'[c] = "idle" \/ (pc'[c] = "exec" /\ task'[c].i = 1)
    BY <1>1, <1>3 DEF Select, Issue, Go, NoTask
  <2> QED
    BY <1>1, <1>2, <2>1, <2>2
<1>4. ASSUME NEW c \in Clients, Dict(c) PROVE Unbroken'
  <2>1. sel' = sel /\ \A o \in Clients \ {c} : pc'[o] = pc[o] /\ task'[o] = task[o]
    BY <1>4, DictFacts
  <2>2. CASE FlushEnd(c)
    <3>1. pc[c] = "clear" /\ task[c].op = "flushdb" /\ pc'[c] = "lock"
      BY <1>1, <2>2 DEF FlushEnd, FrameInv, TaskCounted, Counted, Go
    <3>2. Flushes(c, sel[c])
      BY <3>1, Flusher
    <3>3. \A d \in DBs : d # sel[c] => (d \in broken' <=> d \in broken)
      BY <2>2 DEF FlushEnd
    <3> SUFFICES ASSUME NEW o \in Clients, pc'[o] \in InDict, sel'[o] \in broken',
                        \A x \in Clients \ {o} : ~Flushes(x, sel'[o])
                 PROVE  pc'[o] = "exec" /\ task'[o].i = 1
      BY DEF Unbroken, Flushes
    <3>4. o # c
      BY <1>1, <3>1
    <3>5. sel[o] # sel[c]
      BY <2>1, <3>2, <3>4
    <3>6. sel[o] \in broken /\ sel[o] \in DBs
      BY <1>1, <2>1, <3>3, <3>5
    <3> QED
      BY <2>1, <3>4, <3>6 DEF Unbroken
  <2>3. CASE ~FlushEnd(c)
    <3>1. broken' = broken
      BY <1>4, <2>3
      DEF Dict, ExecStateless, ExecGet, ExecExists, ExecKeys, ExecSet, ExecSetnx, ExecGetset,
          ExecRename, ExecRenamenx, RenamenxSource, Put, RemoveLoad, RemoveDelete, FlushBegin,
          Panic, data
    <3>2. CASE ExecStateless(c) \/ FlushBegin(c) \/ Panic(c)
      <4>1. pc'[c] \in {"idle", "clear"}
        BY <1>1, <3>2 DEF ExecStateless, FlushBegin, Panic, Finish, Go
      <4> QED
        BY <1>1, <1>2, <2>1, <3>1, <4>1
    <3>3. CASE ~(ExecStateless(c) \/ FlushBegin(c) \/ Panic(c))
      <4>1. sel[c] \notin broken
        BY <1>4, <2>3, <3>3
        DEF Dict, ExecGet, ExecExists, ExecKeys, ExecSet, ExecSetnx, ExecGetset,
            ExecRename, ExecRenamenx, RenamenxSource, Put, RemoveLoad, RemoveDelete, Runs, At
      <4> QED
        BY <1>2, <2>1, <3>1, <4>1
    <3> QED
      BY <3>2, <3>3
  <2> QED
    BY <2>2, <2>3
<1>5. ASSUME NEW c \in Clients, Aof(c) PROVE Unbroken'
  <2>1. /\ broken' = broken
        /\ \A o \in Clients \ {c} : pc'[o] = pc[o] /\ task'[o] = task[o] /\ sel'[o] = sel[o]
    BY <1>5, AofFacts
  <2>2. pc'[c] \in InAof \union {"idle"}
    BY <1>1, <1>5 DEF Aof, AofLock, AofSelect, AofWrite, AofSync, AofError, Go, Finish, InAof
  <2> QED
    BY <1>1, <1>2, <2>1, <2>2
<1>6. CASE Load
  BY <1>6 DEF Load, LoadRecord, StartServing, conns, data, Unbroken
<1>7. CASE ProcessCrash \/ PowerLoss
  BY <1>1, <1>7 DEF ProcessCrash, PowerLoss, Restart, Unbroken
<1>8. CASE UNCHANGED vars
  BY <1>8 DEF vars, Unbroken
<1> QED
  BY <1>3, <1>4, <1>5, <1>6, <1>7, <1>8 DEF Next, Done

(* A command changes only the keys it names.                               *)
LEMMA AfterElsewhere ==
  ASSUME NEW m \in Dicts, NEW t \in Tasks, WellFormed(t), t.op # "flushdb",
         NEW k \in Keys, k \notin Range(t.keys)
  PROVE  After(t.op, t.keys, t.id, m)[k] = m[k]
<1>1. /\ t.keys \in Seq(Keys) /\ t.id \in Nat /\ Len(t.keys) \in Nat
      /\ \A j \in 1 .. Len(t.keys) : t.keys[j] # k /\ t.keys[j] \in Keys
  BY LenProperties DEF Tasks, Range
<1>2. \A a, v : a # k /\ v \in Nat => Assign(m, a, v)[k] = m[k]
  BY AssignFacts
<1>3. t.op \in {"set", "getset", "setnx"} => t.keys[1] # k
  <2>1. t.op \in {"set", "getset", "setnx"} => Len(t.keys) = 1
    BY DEF WellFormed
  <2> QED
    BY <1>1, <2>1
<1>4. CASE t.op \in {"rename", "renamenx"}
  <2>1. Len(t.keys) = 2
    BY <1>4 DEF WellFormed
  <2>2. t.keys[1] # k /\ t.keys[2] # k /\ t.keys[1] \in Keys
    BY <1>1, <2>1
  <2>3. m[t.keys[1]] \in Nat
    BY <2>2 DEF Dicts
  <2>4. Move(m, t.keys[1], t.keys[2])[k] = m[k]
    BY <2>2, <2>3, AssignFacts DEF Move, Nil
  <2> QED
    BY <1>4, <2>4 DEF After
<1>5. CASE t.op \notin {"rename", "renamenx"}
  BY <1>1, <1>2, <1>3, <1>5 DEF After
<1> QED
  BY <1>4, <1>5

(* A command and its answer depend on the keys it names alone.             *)
LEMMA SameKeys ==
  ASSUME NEW t \in Tasks, WellFormed(t), NEW f \in Dicts, NEW g \in Dicts,
         NEW O \in SUBSET Keys, Range(t.keys) \subseteq O, \A k \in O : f[k] = g[k]
  PROVE  /\ Answer(t.op, t.keys, f) = Answer(t.op, t.keys, g)
         /\ \A k \in O : After(t.op, t.keys, t.id, f)[k] = After(t.op, t.keys, t.id, g)[k]
<1>1. /\ t.keys \in Seq(Keys) /\ t.id \in Nat /\ Len(t.keys) \in Nat
      /\ DOMAIN t.keys = 1 .. Len(t.keys)
      /\ \A j \in 1 .. Len(t.keys) : t.keys[j] \in O
  BY LenProperties DEF Tasks, Range
<1>2. t.op \in {"get", "set", "setnx", "getset", "rename", "renamenx"} => t.keys[1] \in O
  <2>1. t.op \in {"get", "set", "setnx", "getset", "rename", "renamenx"} =>
          Len(t.keys) = 1 \/ Len(t.keys) = 2
    BY DEF WellFormed
  <2> QED
    BY <1>1, <2>1
<1>3. t.op \in {"rename", "renamenx"} => t.keys[2] \in O
  <2>1. t.op \in {"rename", "renamenx"} => Len(t.keys) = 2
    BY DEF WellFormed
  <2> QED
    BY <1>1, <2>1
<1>4. Answer(t.op, t.keys, f) = Answer(t.op, t.keys, g)
  <2>1. {j \in DOMAIN t.keys : f[t.keys[j]] # Nil} = {j \in DOMAIN t.keys : g[t.keys[j]] # Nil}
    BY <1>1
  <2>2. {k \in Range(t.keys) : f[k] # Nil} = {k \in Range(t.keys) : g[k] # Nil}
    OBVIOUS
  <2>3. CASE t.op = "exists"
    BY <2>1, <2>3, AnswerExists, ZenonT(60)
  <2>4. CASE t.op = "del"
    BY <2>2, <2>4, AnswerDel
  <2>5. CASE t.op = "keys"
    BY <2>2, <2>5, AnswerKeys
  <2>6. CASE t.op \in {"rename", "renamenx"}
    BY <1>2, <1>3, <2>6, AnswerMoves
  <2>7. CASE t.op \in {"get", "getset", "setnx"}
    BY <1>2, <2>7, AnswerValue
  <2>8. CASE t.op \in {"ping", "bad", "set", "flushdb"}
    BY <2>8, AnswerPlain
  <2> QED
    BY <2>3, <2>4, <2>5, <2>6, <2>7, <2>8 DEF Tasks, Ops, Stateless, Readers, Writers
<1>5. \A v \in Nat : \A a : \A k \in O : Assign(f, a, v)[k] = Assign(g, a, v)[k]
  BY AssignFacts
<1>6. ASSUME t.op \in {"rename", "renamenx"}, NEW k \in O
      PROVE  Move(f, t.keys[1], t.keys[2])[k] = Move(g, t.keys[1], t.keys[2])[k]
  <2>1. t.keys[1] \in O /\ t.keys[2] \in O /\ f[t.keys[1]] = g[t.keys[1]] /\ f[t.keys[1]] \in Nat
    BY <1>2, <1>3, <1>6 DEF Dicts
  <2>2. \A m \in Dicts : m[t.keys[1]] \in Nat =>
          Move(m, t.keys[1], t.keys[2])[k] =
            IF k = t.keys[1] THEN Nil ELSE IF k = t.keys[2] THEN m[t.keys[1]] ELSE m[k]
    BY AssignFacts DEF Move, Nil
  <2> QED
    BY <2>1, <2>2
<1>7. ASSUME NEW k \in O
      PROVE  After(t.op, t.keys, t.id, f)[k] = After(t.op, t.keys, t.id, g)[k]
  <2>1. CASE t.op \in {"rename", "renamenx"}
    BY <1>2, <1>3, <1>6, <2>1, AfterTable
  <2>2. CASE t.op = "del"
    BY <2>2, AfterTable
  <2>3. CASE t.op \notin {"rename", "renamenx", "del"}
    BY <1>1, <1>2, <1>5, <2>3, AfterTable DEF Writers
  <2> QED
    BY <2>1, <2>2, <2>3
<1> QED
  BY <1>4, <1>7

(* So does what a handler knows of the dictionary it began with.           *)
LEMMA SameViews ==
  ASSUME FrameInv, NEW c \in Clients, NEW f, NEW g \in Dicts, NEW O,
         Informed(c, f, O), \A k \in O : f[k] = g[k]
  PROVE  Informed(c, g, O)
<1> DEFINE t == task[c]
           p == pc[c]
<1>1. /\ t \in Tasks /\ Formed(p, t) /\ Counted(p, t) /\ f \in Dicts /\ O \subseteq Keys
      /\ Range(t.keys) \subseteq O /\ WellFormed(t) /\ Knows(p, t, f)
      /\ \A j \in 1 .. Len(t.keys) : t.keys[j] \in O
      /\ \A k \in O : mem[sel[c]][k] = Ahead(p, t, f)[k]
  <2>1. /\ t \in Tasks /\ Formed(p, t) /\ Counted(p, t) /\ Knows(p, t, f)
        /\ \A j \in 1 .. Len(t.keys) : t.keys[j] \in O
    BY InformedFacts
  <2>2. /\ f \in Dicts /\ O \subseteq Keys /\ Range(t.keys) \subseteq O
        /\ \A k \in O : mem[sel[c]][k] = Ahead(p, t, f)[k]
    BY DEF Informed
  <2> QED
    BY <2>1, <2>2 DEF Formed
<1>2. /\ Answer(t.op, t.keys, f) = Answer(t.op, t.keys, g)
      /\ \A k \in O : After(t.op, t.keys, t.id, f)[k] = After(t.op, t.keys, t.id, g)[k]
  BY <1>1, SameKeys
<1>3. /\ t.i \in Nat /\ Len(t.keys) \in Nat /\ t.id \in Nat /\ t.ent \in Nat
      /\ t.op \in {"exists", "del"} => t.i \in 1 .. Len(t.keys)
  BY <1>1, LenProperties DEF Tasks, Formed
<1>4. /\ t.op \in {"set", "setnx", "getset", "rename", "renamenx"} => t.keys[1] \in O
      /\ t.op \in {"rename", "renamenx"} => t.keys[2] \in O
  <2>1. t.op \in {"set", "setnx", "getset", "rename", "renamenx"} => 1 \in 1 .. Len(t.keys)
    BY FirstArg
  <2>2. t.op \in {"rename", "renamenx"} => Len(t.keys) = 2
    BY <1>1 DEF WellFormed
  <2> QED
    BY <1>1, <2>1, <2>2
<1>5. \A k \in O : Ahead(p, t, f)[k] = Ahead(p, t, g)[k]
  <2>1. \A v \in Nat : \A a : \A k \in O : Assign(f, a, v)[k] = Assign(g, a, v)[k]
    BY <1>1, AssignFacts
  <2> QED
    BY <1>1, <1>2, <1>3, <2>1 DEF Ahead
<1>6. t.op = "del" => \A k \in Gone(t) \union {t.keys[t.i]} : f[k] = g[k]
  <2> SUFFICES ASSUME t.op = "del" PROVE \A k \in Gone(t) \union {t.keys[t.i]} : f[k] = g[k]
    OBVIOUS
  <2>1. \A j \in 1 .. t.i : j \in 1 .. Len(t.keys)
    BY <1>3
  <2>2. \A j \in 1 .. t.i - 1 : j \in 1 .. t.i
    BY <1>3
  <2> QED
    BY <1>1, <1>3, <2>1, <2>2 DEF Gone
<1>7. t.op = "exists" => \A j \in 1 .. t.i - 1 : f[t.keys[j]] = g[t.keys[j]]
  BY <1>1, <1>3
<1>8. Knows(p, t, g)
  <2>1. /\ t.op = "exists" => t.n = Cardinality({j \in 1 .. t.i - 1 : g[t.keys[j]] # Nil})
        /\ t.op = "keys" => t.seen \subseteq Range(t.keys) /\ t.hit = {k \in t.seen : g[k] # Nil}
    <3>1. t.op = "exists" => {j \in 1 .. t.i - 1 : f[t.keys[j]] # Nil} = {j \in 1 .. t.i - 1 : g[t.keys[j]] # Nil}
      BY <1>7
    <3>2. t.op = "keys" => t.seen \subseteq Range(t.keys)
                           /\ {k \in t.seen : f[k] # Nil} = {k \in t.seen : g[k] # Nil}
      BY <1>1 DEF Knows
    <3> QED
      BY <1>1, <3>1, <3>2 DEF Knows
  <2>2. /\ p \in {"exec", "delete"} /\ t.op = "del" => t.n = Cardinality({k \in Gone(t) : g[k] # Nil})
        /\ p = "delete" /\ t.op = "del" => t.keys[t.i] \notin Gone(t) /\ g[t.keys[t.i]] # Nil
    <3>1. t.op = "del" => {k \in Gone(t) : f[k] # Nil} = {k \in Gone(t) : g[k] # Nil}
      BY <1>6
    <3> QED
      BY <1>1, <1>6, <3>1 DEF Knows
  <2>3. p \in InAddAof => LoggedReply(t) = Answer(t.op, t.keys, g)
    BY <1>1, <1>2 DEF Knows
  <2>4. /\ p = "exec" /\ t.op = "setnx" => t.n = 0
        /\ p = "put" /\ t.op = "setnx" => t.n = 1 /\ g[t.keys[1]] = Nil
        /\ p = "put" /\ t.op = "getset" => t.ent = g[t.keys[1]]
        /\ p \in {"put", "remove", "delete"} /\ t.op \in {"rename", "renamenx"} =>
             t.ent = g[t.keys[1]] /\ t.ent # Nil
        /\ p \in {"source", "put", "remove", "delete"} /\ t.op = "renamenx" => g[t.keys[2]] = Nil
    BY <1>1, <1>4 DEF Knows
  <2> HIDE DEF p, t
  <2> QED
    BY <2>1, <2>2, <2>3, <2>4 DEF Knows
<1> QED
  BY <1>1, <1>5, <1>8 DEF Informed

-----------------------------------------------------------------------------
(* What each step does to the views.                                       *)
LEMMA MineFacts ==
  ASSUME FrameInv, InMenu, NEW c \in Clients, KeepsToOwn(c, sel[c])
  PROVE  Mine(c, sel[c]) \subseteq Keys /\ Range(task[c].keys) \subseteq Mine(c, sel[c])
<1>1. task[c].keys \in Seq(Keys) /\ Range(task[c].keys) \subseteq Keys
  <2>1. task[c].keys \in Seq(Keys)
    BY DEF FrameInv, TypeInv, TypeOK, Tasks
  <2> QED
    BY <2>1, LenProperties DEF Range
<1>2. \A k \in Range(task[c].keys) : Owns(c, sel[c], k)
  <2>1. CASE pc[c] = "idle"
    BY <2>1 DEF InMenu, NoTask, Range
  <2>2. CASE pc[c] # "idle"
    BY <2>2 DEF InMenu, KeepsToOwn
  <2> QED
    BY <2>1, <2>2
<1> QED
  BY <1>1, <1>2 DEF Mine

(* What a handler does to memory: nothing, or a change to a key that its   *)
(* command names, or a flush.                                              *)
LEMMA DictMem ==
  ASSUME FrameInv, NEW c \in Clients, Dict(c)
  PROVE  \/ mem' = mem
         \/ \E k \in Range(task[c].keys), v \in Nat : StoreTo(c, k, v)
         \/ task[c].op = "flushdb" /\ mem' = [mem EXCEPT ![sel[c]] = Empty]
<1>1. task[c] \in Tasks /\ Formed(pc[c], task[c]) /\ Counted(pc[c], task[c])
  BY DEF FrameInv, TypeInv, TypeOK, TaskFormed, TaskCounted
<1>2. \A j \in 1 .. Len(task[c].keys) : Arg(c, j) \in Range(task[c].keys)
  BY <1>1, LenProperties DEF Tasks, Arg, Range
<1>3. task[c].op \in {"set", "setnx", "getset", "rename", "renamenx"} =>
        Arg(c, 1) \in Range(task[c].keys)
  BY <1>2, FirstArg
<1>4. task[c].op \in {"rename", "renamenx"} => Arg(c, 2) \in Range(task[c].keys)
  <2>1. task[c].op \in {"rename", "renamenx"} => Len(task[c].keys) = 2
    BY <1>1 DEF Formed, WellFormed
  <2>2. 2 \in 1 .. 2
    OBVIOUS
  <2> QED
    BY <1>2, <2>1, <2>2
<1>5. task[c].id \in Nat /\ task[c].ent \in Nat /\ Nil \in Nat
  BY <1>1 DEF Tasks, Nil
<1>6. CASE ExecSet(c) \/ ExecSetnx(c) \/ Put(c)
  BY <1>1, <1>3, <1>4, <1>5, <1>6 DEF ExecSet, ExecSetnx, Put, Runs, At, Counted
<1>7. CASE RemoveDelete(c)
  <2>1. task[c].op \in {"del", "rename", "renamenx"}
    BY <1>1, <1>7 DEF RemoveDelete, At, Counted
  <2>2. Arg(c, task[c].i) \in Range(task[c].keys)
    BY <1>1, <1>2, <1>3, <2>1 DEF Formed
  <2> QED
    BY <1>5, <1>7, <2>2 DEF RemoveDelete
<1>8. CASE FlushEnd(c)
  BY <1>1, <1>8 DEF FlushEnd, Counted
<1> QED
  BY <1>6, <1>7, <1>8
  DEF Dict, ExecStateless, ExecGet, ExecExists, ExecKeys, ExecGetset, ExecRename, ExecRenamenx,
      RenamenxSource, RemoveLoad, FlushBegin, Panic, data

LEMMA DictElsewhere ==
  ASSUME FrameInv, InMenu, NEW c \in Clients, Dict(c)
  PROVE  /\ \A d \in DBs : d # sel[c] => mem'[d] = mem[d]
         /\ \A o \in Clients \ {c} : \A d \in DBs : \A k \in Mine(o, d) : mem'[d][k] = mem[d][k]
<1>1. mem \in [DBs -> Dicts] /\ sel[c] \in DBs /\ pc[c] # "idle"
  BY DictFacts DEF FrameInv, TypeInv, TypeOK
<1>2. \A d \in DBs : d # sel[c] => mem'[d] = mem[d]
  BY <1>1, DictMem DEF StoreTo
<1>3. ASSUME NEW o \in Clients \ {c}, NEW k \in Mine(o, sel[c])
      PROVE  mem'[sel[c]][k] = mem[sel[c]][k]
  <2>1. ~Touches(c, sel[c], k) /\ k \in Keys
    BY <1>3 DEF Mine, Owns
  <2>2. task[c].op # "flushdb" /\ k \notin Range(task[c].keys)
    BY <1>1, <2>1 DEF InMenu, Touches
  <2>3. ASSUME NEW a \in Range(task[c].keys), NEW v \in Nat, StoreTo(c, a, v)
        PROVE  mem'[sel[c]][k] = mem[sel[c]][k]
    <3>1. mem'[sel[c]] = Assign(mem[sel[c]], a, v) /\ mem[sel[c]] \in Dicts
      BY <1>1, <2>3 DEF StoreTo
    <3> QED
      BY <2>1, <2>2, <3>1, AssignFacts
  <2> QED
    BY <2>2, <2>3, DictMem
<1> QED
  BY <1>2, <1>3

(* A client that is not the one to take a step keeps its view.             *)
LEMMA OtherView ==
  ASSUME FrameInv, NEW o \in Clients, View(o), Store' \in [DBs -> Dicts],
         pc'[o] = pc[o], task'[o] = task[o], sel'[o] = sel[o],
         \A d \in DBs : \A k \in Mine(o, d) : mem'[d][k] = mem[d][k] /\ Store'[d][k] = Store[d][k]
  PROVE  View(o)'
<1>1. sel[o] \in DBs
  BY DEF FrameInv, TypeInv, TypeOK
<1>2. ASSUME KeepsToOwn(o, sel[o]) PROVE Informed(o, Store[sel[o]], Mine(o, sel[o]))'
  <2> DEFINE g == Store'[sel[o]]
             O == Mine(o, sel[o])
  <2>1. Informed(o, Store[sel[o]], O)
    BY <1>2 DEF View
  <2>2. g \in Dicts /\ \A k \in O : Store[sel[o]][k] = g[k]
    BY <1>1
  <2> HIDE DEF g, O
  <2>3. Informed(o, g, O)
    BY <2>1, <2>2, SameViews
  <2>4. \A k \in O : mem'[sel[o]][k] = mem[sel[o]][k]
    BY <1>1 DEF O
  <2>5. /\ g \in Dicts /\ O \subseteq Keys /\ Range(task'[o].keys) \subseteq O
        /\ \A k \in O : mem'[sel'[o]][k] = Ahead(pc'[o], task'[o], g)[k]
        /\ Knows(pc'[o], task'[o], g)
    BY <2>3, <2>4 DEF Informed
  <2> QED
    BY <2>5 DEF Informed, g, O
<1>3. ASSUME NEW d \in DBs, KeepsToOwn(o, d), d # sel[o], NEW k \in Mine(o, d)
      PROVE  mem'[d][k] = Store'[d][k]
  BY <1>3 DEF View
<1> QED
  BY <1>2, <1>3 DEF View

LEMMA StoreTyped ==
  FrameInv => Store \in [DBs -> Dicts]
<1> SUFFICES ASSUME FrameInv PROVE Store \in [DBs -> Dicts]
  OBVIOUS
<1>1. Settled \in 0 .. Len(log)
  BY FileFacts
<1> QED
  BY <1>1, FileFacts DEF Store

LEMMA StoreUnchanged ==
  UNCHANGED <<log, synced, base, phase>> => UNCHANGED <<Store, Settled>>
BY DEF Store, Replay, Settled

(* What a busy client finds when it is done: what its command leaves.      *)
LEMMA IdleView ==
  ASSUME FrameInv, FrameInv', InMenu, InMenu', NEW c \in Clients,
         Store' \in [DBs -> Dicts], pc'[c] = "idle",
         \A d \in DBs : KeepsToOwn(c, d) =>
           \A k \in Mine(c, d) : mem'[d][k] = Store'[d][k]
  PROVE  View(c)'
<1>1. sel'[c] \in DBs /\ task'[c] = NoTask
  BY DEF FrameInv, TypeInv, TypeOK, InMenu
<1>2. ASSUME KeepsToOwn(c, sel'[c])
      PROVE  Informed(c, Store[sel[c]], Mine(c, sel[c]))'
  <2> DEFINE g == Store'[sel'[c]]
             O == Mine(c, sel'[c])
  <2>1. g \in Dicts /\ O \subseteq Keys
    BY <1>1 DEF Mine
  <2>2. \A k \in O : mem'[sel'[c]][k] = g[k]
    BY <1>1, <1>2
  <2> HIDE DEF g, O
  <2>3. Ahead("idle", NoTask, g) = g
    BY AheadFacts
  <2>4. Knows("idle", NoTask, g) /\ Range(NoTask.keys) \subseteq O
    BY DEF Knows, NoTask, InAddAof, InAof, Range
  <2>5. /\ g \in Dicts /\ O \subseteq Keys /\ Range(task'[c].keys) \subseteq O
        /\ \A k \in O : mem'[sel'[c]][k] = Ahead(pc'[c], task'[c], g)[k]
        /\ Knows(pc'[c], task'[c], g)
    BY <1>1, <2>1, <2>2, <2>3, <2>4
  <2> QED
    BY <2>5 DEF Informed, g, O
<1> QED
  BY <1>2 DEF View

(* A panic undoes nothing, so the view of a client is kept only because     *)
(* nobody else may make its handler panic once it has stored something.    *)
LEMMA PanicFinds ==
  ASSUME FrameInv, InMenu, Unbroken, NEW c \in Clients, Panic(c), View(c), KeepsToOwn(c, sel[c]),
         NEW k \in Mine(c, sel[c])
  PROVE  mem[sel[c]][k] = Store[sel[c]][k]
<1>1. pc[c] \in InDict /\ (sel[c] \in broken \/ Clearing(sel[c]))
  BY DEF Panic
<1>2. \A o \in Clients \ {c} : ~Flushes(o, sel[c])
  BY DEF Mine, Owns, Touches, Flushes
<1>3. ~Clearing(sel[c])
  <2> SUFFICES ASSUME NEW o \in Clients, pc[o] = "clear", sel[o] = sel[c] PROVE FALSE
    BY DEF Clearing
  <2>1. o # c /\ task[o].op = "flushdb"
    BY <1>1 DEF InDict, FrameInv, TaskCounted, Counted
  <2>2. Flushes(o, sel[o])
    BY <2>1, Flusher
  <2> QED
    BY <1>2, <2>1, <2>2
<1>4. pc[c] = "exec" /\ task[c].i = 1
  BY <1>1, <1>2, <1>3 DEF Unbroken
<1>5. Informed(c, Store[sel[c]], Mine(c, sel[c]))
  BY DEF View
<1>6. Ahead("exec", task[c], Store[sel[c]]) = Store[sel[c]]
  BY <1>4, <1>5, AheadFacts DEF Informed
<1> QED
  BY <1>4, <1>5, <1>6 DEF Informed

(* The view of the client whose handler takes a step.                      *)
LEMMA DictView ==
  ASSUME FrameInv, FrameInv', InMenu, InMenu', Unbroken, NEW c \in Clients, Dict(c), View(c)
  PROVE  View(c)'
<1>1. /\ UNCHANGED <<log, synced, base, phase, sel>>
      /\ Store' = Store /\ Store \in [DBs -> Dicts] /\ sel[c] \in DBs
      /\ pc \in [Clients -> Pcs] /\ task \in [Clients -> Tasks]
  BY DictFacts, StoreUnchanged, StoreTyped DEF FrameInv, TypeInv, TypeOK
<1> DEFINE f == Store[sel[c]]
           O == Mine(c, sel[c])
<1>2. \A d \in DBs : d # sel[c] /\ KeepsToOwn(c, d) =>
        \A k \in Mine(c, d) : mem'[d][k] = Store'[d][k]
  BY <1>1, DictElsewhere DEF View
<1>3. ASSUME Finish(c, Answer(task[c].op, task[c].keys, f)) \/ Panic(c),
             KeepsToOwn(c, sel[c]) => \A k \in O : mem'[sel[c]][k] = f[k]
      PROVE  View(c)'
  <2>1. pc'[c] = "idle"
    BY <1>1, <1>3 DEF Panic, Finish, Go
  <2> QED
    BY <1>1, <1>2, <1>3, <2>1, IdleView
<1>4. CASE Panic(c)
  BY <1>3, <1>4, PanicFinds DEF Panic, data
<1>5. CASE ~Panic(c) /\ KeepsToOwn(c, sel[c])
  <2>1. Informed(c, f, O)
    BY <1>5 DEF View
  <2>2. Advances(c, f, O)
    <3> HIDE DEF f, O
    <3> QED
      BY <1>5, <2>1, DictAdvances
  <2>3. CASE Finish(c, Answer(task[c].op, task[c].keys, f)) /\ \A k \in O : mem'[sel[c]][k] = f[k]
    BY <1>3, <2>3
  <2>4. ASSUME NEW p \in Pcs \ {"idle"}, NEW u \in Tasks, Go(c, p, u), Knows(p, u, f),
               \A k \in O : mem'[sel[c]][k] = Ahead(p, u, f)[k]
        PROVE  View(c)'
    <3>1. pc'[c] = p /\ task'[c] = u
      BY <1>1, <2>4 DEF Go
    <3>2. Range(u.keys) \subseteq O /\ O \subseteq Keys
      <4>1. Frame(c)
        BY DictFrame DEF FrameInv
      <4>2. u.keys = task[c].keys
        BY <1>1, <2>4, <3>1, <4>1 DEF Frame, Moves, Refuses, Finish, Go
      <4> QED
        BY <1>5, <4>2, MineFacts
    <3>3. f \in Dicts
      BY <1>1
    <3>4. Informed(c, Store[sel[c]], Mine(c, sel[c]))'
      <4> HIDE DEF f, O
      <4>1. /\ f \in Dicts /\ O \subseteq Keys /\ Range(task'[c].keys) \subseteq O
            /\ \A k \in O : mem'[sel'[c]][k] = Ahead(pc'[c], task'[c], f)[k]
            /\ Knows(pc'[c], task'[c], f)
        BY <1>1, <2>4, <3>1, <3>2, <3>3
      <4>2. f = Store'[sel'[c]] /\ O = Mine(c, sel'[c])
        BY <1>1 DEF f, O
      <4> QED
        BY <4>1, <4>2 DEF Informed
    <3> QED
      BY <1>1, <1>2, <3>4 DEF View
  <2> HIDE DEF f, O
  <2> QED
    BY <2>2, <2>3, <2>4 DEF Advances
<1>6. CASE ~KeepsToOwn(c, sel[c])
  BY <1>1, <1>2, <1>6 DEF View
<1> QED
  BY <1>4, <1>5, <1>6

(* Up to the fsync, AddAof changes nothing that a client can see.          *)
LEMMA AofView ==
  ASSUME FrameInv, FrameInv', InMenu, InMenu', NEW c \in Clients, View(c), Store' = Store,
         UNCHANGED <<mem, sel>>, task'[c] = task[c], pc[c] \in InAddAof, pc'[c] \in InAddAof
  PROVE  View(c)'
<1>1. ASSUME NEW f, NEW O, Informed(c, f, O)
      PROVE  Informed(c, f, O)'
  <2>1. Ahead(pc'[c], task[c], f) = Ahead(pc[c], task[c], f)
    BY AheadFacts
  <2>2. \A p \in InAddAof : p \notin {"exec", "put", "source", "remove", "delete"}
    BY DEF InAddAof, InAof
  <2>3. Knows(pc'[c], task[c], f)
    <3>1. Knows(pc[c], task[c], f)
      BY <1>1 DEF Informed
    <3> DEFINE t == task[c]
    <3>2. /\ t.op = "exists" => t.n = Cardinality({j \in 1 .. t.i - 1 : f[t.keys[j]] # Nil})
          /\ t.op = "keys" => t.seen \subseteq Range(t.keys) /\ t.hit = {k \in t.seen : f[k] # Nil}
          /\ LoggedReply(t) = Answer(t.op, t.keys, f)
      BY <3>1 DEF Knows
    <3> HIDE DEF t
    <3>3. Knows(pc'[c], t, f)
      BY <2>2, <3>2 DEF Knows
    <3> QED
      BY <3>3 DEF t
  <2> QED
    BY <1>1, <2>1, <2>3 DEF Informed
<1>2. KeepsToOwn(c, sel[c]) => Informed(c, Store[sel[c]], Mine(c, sel[c]))'
  <2> SUFFICES ASSUME KeepsToOwn(c, sel[c]) PROVE Informed(c, Store[sel[c]], Mine(c, sel[c]))'
    OBVIOUS
  <2> DEFINE f == Store[sel[c]]
             O == Mine(c, sel[c])
  <2>1. Informed(c, f, O)
    BY DEF View
  <2> HIDE DEF f, O
  <2>2. Informed(c, f, O)
    BY <2>1
  <2> QED
    BY <1>1, <2>2 DEF f, O, Informed
<1> QED
  BY <1>2 DEF View

(* The moment of the fsync: what the client's handler made of memory is     *)
(* now what a replay makes of the file; and another client finds its own    *)
(* keys unchanged in both.                                                  *)
LEMMA SyncView ==
  ASSUME FrameInv, FrameInv', InMenu, InMenu', RestartFraming, Unanswered, ~IOErrors,
         NEW c \in Clients, AofSync(c), NEW o \in Clients, View(o)
  PROVE  View(o)'
<1> DEFINE t == task[c]
<1>1. /\ pc \in [Clients -> Pcs] /\ task \in [Clients -> Tasks] /\ sel[c] \in DBs
      /\ t \in Tasks /\ WellFormed(t) /\ pc[c] = "sync" /\ Aof(c)
      /\ Store \in [DBs -> Dicts]
  BY StoreTyped DEF FrameInv, TypeInv, TypeOK, TaskFormed, Formed, AofSync, Aof
<1>2. /\ UNCHANGED <<log, base, phase, sel, mem>> /\ phase = "serving" /\ synced' = Len(log)
      /\ pc'[c] = "idle" /\ \A x \in Clients \ {c} : pc'[x] = pc[x] /\ task'[x] = task[x]
  BY <1>1, AofFacts DEF AofSync, Finish, Go
<1>3. Store' = [Store EXCEPT ![sel[c]] = After(t.op, t.keys, t.id, @)]
  <2>1. base <= Len(log)
    BY <1>2 DEF FrameInv, AtEnd
  <2>2. Settled' = Len(log)
    <3>1. Len(log) \in Nat /\ base \in Nat
      BY FileFacts
    <3> QED
      BY <1>2, <2>1, <3>1 DEF Settled
  <2>3. Store' = Replay(Len(log))
    BY <1>2, <2>2 DEF Store, Replay
  <2> QED
    BY <1>1, <1>2, <2>3, UnansweredReplay
<1>4. After(t.op, t.keys, t.id, Store[sel[c]]) \in Dicts
  BY <1>1, AfterType DEF Tasks, WellFormed
<1>5. Store' \in [DBs -> Dicts]
  BY <1>1, <1>3, <1>4
<1>6. CASE o = c
  <2>1. ASSUME KeepsToOwn(c, sel[c]), NEW k \in Mine(c, sel[c])
        PROVE  mem[sel[c]][k] = After(t.op, t.keys, t.id, Store[sel[c]])[k]
    <3>1. Informed(c, Store[sel[c]], Mine(c, sel[c]))
      BY <1>6, <2>1 DEF View
    <3>2. Ahead("sync", t, Store[sel[c]]) = After(t.op, t.keys, t.id, Store[sel[c]])
      BY AheadFacts DEF InAddAof, InAof
    <3> QED
      BY <1>1, <2>1, <3>1, <3>2 DEF Informed
  <2>2. \A d \in DBs : KeepsToOwn(c, d) => \A k \in Mine(c, d) : mem'[d][k] = Store'[d][k]
    BY <1>1, <1>2, <1>3, <1>6, <2>1 DEF View
  <2> QED
    BY <1>2, <1>5, <1>6, <2>2, IdleView
<1>7. CASE o # c
  <2>1. ASSUME NEW k \in Mine(o, sel[c])
        PROVE  After(t.op, t.keys, t.id, Store[sel[c]])[k] = Store[sel[c]][k]
    <3>1. ~Touches(c, sel[c], k) /\ k \in Keys
      BY <1>7, <2>1 DEF Mine, Owns
    <3>2. t.op # "flushdb" /\ k \notin Range(t.keys)
      BY <1>1, <3>1 DEF InMenu, Touches
    <3> QED
      BY <1>1, <3>1, <3>2, AfterElsewhere
  <2>2. \A d \in DBs : \A k \in Mine(o, d) : Store'[d][k] = Store[d][k]
    BY <1>1, <1>3, <2>1
  <2> QED
    BY <1>2, <1>5, <1>7, <2>2, OtherView
<1> QED
  BY <1>6, <1>7

LEMMA ViewsNext ==
  FrameInv /\ FrameInv' /\ InMenu /\ InMenu' /\ RestartFraming /\ Loaded /\ Unanswered /\ Unbroken
    /\ Views /\ [Next]_vars => Views'
<1> SUFFICES ASSUME FrameInv, FrameInv', InMenu, InMenu', RestartFraming, Loaded, Unanswered,
                    Unbroken, Views, [Next]_vars, ~IOErrors, phase' = "serving", NEW o \in Clients
             PROVE  View(o)'
  BY DEF Views
<1>1. /\ pc \in [Clients -> Pcs] /\ task \in [Clients -> Tasks] /\ sel \in [Clients -> DBs]
      /\ Store \in [DBs -> Dicts]
  BY StoreTyped DEF FrameInv, TypeInv, TypeOK
<1>2. ASSUME phase = "serving", UNCHANGED <<log, synced, base>>,
             pc'[o] = pc[o], task'[o] = task[o], sel'[o] = sel[o],
             \A d \in DBs : \A k \in Mine(o, d) : mem'[d][k] = mem[d][k]
      PROVE  View(o)'
  <2>1. View(o) /\ Store' = Store
    BY <1>2, StoreUnchanged DEF Views
  <2> QED
    BY <1>1, <1>2, <2>1, OtherView
<1>3. ASSUME NEW c \in Clients, Select(c) PROVE View(o)'
  <2>1. /\ phase = "serving" /\ UNCHANGED <<log, synced, base, phase, mem, pc, task>> /\ pc[c] = "idle"
        /\ \A x \in Clients \ {c} : sel'[x] = sel[x]
    BY <1>1, <1>3 DEF Select, data, aof, boot
  <2>2. CASE o # c
    BY <1>2, <2>1, <2>2
  <2>3. CASE o = c
    <3>1. View(c) /\ Store' = Store /\ task[c] = NoTask
      BY <2>1, <2>3, StoreUnchanged DEF Views, InMenu
    <3>2. Ahead("idle", NoTask, Store[sel[c]]) = Store[sel[c]]
      BY AheadFacts
    <3>3. KeepsToOwn(c, sel[c]) => \A k \in Mine(c, sel[c]) : mem[sel[c]][k] = Store[sel[c]][k]
      BY <2>1, <3>1, <3>2 DEF View, Informed
    <3>4. \A d \in DBs : KeepsToOwn(c, d) => \A k \in Mine(c, d) : mem'[d][k] = Store'[d][k]
      BY <2>1, <3>1, <3>3 DEF View
    <3> QED
      BY <1>1, <2>1, <2>3, <3>1, <3>4, IdleView
  <2> QED
    BY <2>2, <2>3
<1>4. ASSUME NEW c \in Clients, Issue(c) PROVE View(o)'
  <2>1. PICK cmd \in Menu[c] :
          /\ cmd.db = sel[c]
          /\ Go(c, "exec", [NoTask EXCEPT !.id = nextId, !.op = cmd.op, !.keys = cmd.keys])
    BY <1>4 DEF Issue
  <2>2. /\ phase = "serving" /\ UNCHANGED <<log, synced, base, phase, mem, sel>> /\ pc[c] = "idle"
        /\ \A x \in Clients \ {c} : pc'[x] = pc[x] /\ task'[x] = task[x]
    BY <1>1, <1>4 DEF Issue, Go, data, aof, boot
  <2>3. CASE o # c
    BY <1>2, <2>2, <2>3
  <2>4. CASE o = c
    <3> DEFINE u == [NoTask EXCEPT !.id = nextId, !.op = cmd.op, !.keys = cmd.keys]
               f == Store[sel[c]]
               O == Mine(c, sel[c])
    <3>1. View(c) /\ Store' = Store /\ task[c] = NoTask /\ f \in Dicts
      BY <1>1, <2>2, <2>4, StoreUnchanged DEF Views, InMenu
    <3>2. /\ u.i = 1 /\ u.n = 0 /\ u.seen = {} /\ u.hit = {} /\ u.keys = cmd.keys
          /\ pc'[c] = "exec" /\ task'[c] = u
      BY <1>1, <2>1 DEF NoTask, Go
    <3>3. ASSUME KeepsToOwn(c, sel[c]) PROVE Informed(c, f, O)'
      <4>1. Informed(c, f, O)
        BY <3>1, <3>3 DEF View
      <4>2. Ahead("idle", NoTask, f) = f
        BY AheadFacts
      <4>3. Ahead("exec", u, f) = f
        <5> HIDE DEF u, f
        <5> QED
          BY <3>1, <3>2, AheadFacts
      <4>4. Range(u.keys) \subseteq O
        <5>1. WellFormed(cmd) /\ cmd \in Commands
          BY MenuAssumption
        <5>2. Range(cmd.keys) \subseteq Keys
          BY <5>1, LenProperties DEF Commands, Range
        <5>3. \A k \in Range(cmd.keys) : Owns(c, sel[c], k)
          BY <2>1, <3>3 DEF KeepsToOwn
        <5> QED
          BY <3>2, <5>2, <5>3 DEF Mine
      <4>5. Knows("exec", u, f)
        <5>1. Gone(u) = {} /\ {j \in 1 .. u.i - 1 : f[u.keys[j]] # Nil} = {}
          <6> HIDE DEF u
          <6> QED
            BY <3>2 DEF Gone
        <5>2. Cardinality({}) = 0
          BY FS_EmptySet
        <5> HIDE DEF u, f
        <5>3. {k \in Gone(u) : f[k] # Nil} = {}
          BY <5>1
        <5>4. /\ u.n = Cardinality({k \in Gone(u) : f[k] # Nil})
              /\ u.n = Cardinality({j \in 1 .. u.i - 1 : f[u.keys[j]] # Nil})
              /\ u.seen \subseteq Range(u.keys) /\ u.hit = {k \in u.seen : f[k] # Nil}
          BY <3>2, <5>1, <5>2, <5>3
        <5> QED
          BY <3>2, <5>4 DEF Knows, InAddAof, InAof
      <4> HIDE DEF u, f, O
      <4> QED
        BY <2>2, <3>1, <3>2, <4>1, <4>2, <4>3, <4>4, <4>5 DEF Informed, f, O
    <3>4. KeepsToOwn(c, sel[c]) => Informed(c, Store[sel[c]], Mine(c, sel[c]))'
      BY <2>2, <3>1, <3>3 DEF Informed
    <3> HIDE DEF u, f, O
    <3> QED
      BY <2>2, <2>4, <3>1, <3>4 DEF View
  <2> QED
    BY <2>3, <2>4
<1>5. ASSUME NEW c \in Clients, Dict(c) PROVE View(o)'
  <2>1. /\ phase = "serving" /\ UNCHANGED <<log, synced, base, sel>>
        /\ \A x \in Clients \ {c} : pc'[x] = pc[x] /\ task'[x] = task[x]
    BY <1>5, DictFacts
  <2>2. CASE o # c
    BY <1>2, <1>5, <2>1, <2>2, DictElsewhere
  <2>3. CASE o = c
    BY <1>5, <2>1, <2>3, DictView DEF Views
  <2> QED
    BY <2>2, <2>3
<1>6. ASSUME NEW c \in Clients, AofLock(c) PROVE View(o)'
  <2>1. /\ phase = "serving" /\ UNCHANGED <<log, synced, base, phase, sel, mem>>
        /\ \A x \in Clients \ {c} : pc'[x] = pc[x] /\ task'[x] = task[x]
        /\ task'[c] = task[c] /\ pc[c] \in InAddAof /\ pc'[c] \in InAddAof
    BY <1>1, <1>6, AofFacts DEF Aof, AofLock, Go, InAddAof, InAof
  <2>2. CASE o # c
    BY <1>2, <2>1, <2>2
  <2>3. CASE o = c
    BY <2>1, <2>3, AofView, StoreUnchanged DEF Views
  <2> QED
    BY <2>2, <2>3
<1>7. ASSUME NEW c \in Clients, AofSelect(c) \/ AofWrite(c) PROVE View(o)'
  <2>1. /\ Len(log') = Len(log) + 1 /\ \A j \in 1 .. Len(log) : log'[j] = log[j]
        /\ UNCHANGED <<sel, mem>> /\ Settled' = Settled /\ phase = "serving" /\ task'[c] = task[c]
        /\ pc[c] \in InAddAof /\ pc'[c] \in InAddAof
        /\ \A x \in Clients \ {c} : pc'[x] = pc[x] /\ task'[x] = task[x]
    BY <1>7, AppendFacts, AofFacts DEF Aof, InAddAof, InAof
  <2>2. Store' = Store
    <3>1. Len(log) \in Nat /\ Settled \in 0 .. Len(log)
      BY FileFacts
    <3>2. \A n \in 0 .. Len(log) : Replay(n)' = Replay(n)
      BY <2>1, <3>1, ReplayKept
    <3>3. Replayed(log')[Settled].dbs = Replayed(log)[Settled].dbs
      BY <3>1, <3>2 DEF Replay
    <3> QED
      BY <2>1, <3>3 DEF Store, Replay
  <2>3. CASE o # c
    BY <1>1, <2>1, <2>2, <2>3, OtherView DEF Views
  <2>4. CASE o = c
    BY <2>1, <2>2, <2>4, AofView DEF Views
  <2> QED
    BY <2>3, <2>4
<1>8. ASSUME NEW c \in Clients, AofSync(c) PROVE View(o)'
  <2>1. phase = "serving"
    BY <1>8, AofFacts DEF Aof
  <2> QED
    BY <1>8, <2>1, SyncView DEF Views
<1>9. CASE StartServing
  <2>1. /\ phase = "loading" /\ base' = Len(log) /\ pos = Len(log)
        /\ UNCHANGED <<log, synced, mem, sel, pc, task>> /\ pc[o] = "idle"
        /\ Len(log) \in Nat /\ synced \in 0 .. Len(log)
    BY <1>9, FileFacts DEF StartServing, data, aof, conns, FrameInv, Booting
  <2>2. mem = Replay(Len(log))
    BY <2>1 DEF Loaded
  <2>3. Settled' = Len(log)
    BY <2>1 DEF Settled
  <2>4. Store' = mem'
    BY <2>1, <2>2, <2>3 DEF Store, Replay
  <2>5. Store' \in [DBs -> Dicts]
    BY <2>4 DEF FrameInv, TypeInv, TypeOK
  <2> QED
    BY <2>1, <2>4, <2>5, IdleView
<1>10. CASE UNCHANGED vars
  <2>1. phase = "serving" /\ UNCHANGED <<log, synced, base, pc, task, sel, mem>>
    BY <1>10 DEF vars
  <2> QED
    BY <1>2, <2>1
<1>11. ~LoadRecord /\ ~ProcessCrash /\ ~PowerLoss /\ \A c \in Clients : ~AofError(c)
  BY DEF LoadRecord, ProcessCrash, PowerLoss, Restart, AofError
<1> QED
  BY <1>3, <1>4, <1>5, <1>6, <1>7, <1>8, <1>9, <1>10, <1>11 DEF Next, Done, Aof, Load

ReplayInv == FrameInv /\ FirstRun /\ InMenu /\ Loaded /\ Unanswered /\ Unbroken /\ Views

LEMMA ReplayInit == Init => ReplayInv
<1> SUFFICES ASSUME Init PROVE ReplayInv
  OBVIOUS
<1>1. FrameInv
  BY FrameInit
<1>2. phase = "loading" /\ pos = 0 /\ fdb = 0 /\ log = <<>> /\ base = 0
      /\ mem = [d \in DBs |-> Empty]
  BY DEF Init
<1>3. Loaded
  <2>1. Replayed(log)[0] = Start /\ Len(log) \in Nat
    BY <1>1, FileFacts, ReplayedDef
  <2> QED
    BY <1>2, <2>1 DEF Loaded, Replay, Start
<1>4. FirstRun /\ Unanswered /\ Views
  BY <1>2 DEF FirstRun, Unanswered, Views
<1>5. InMenu /\ Unbroken
  BY DEF Init, InMenu, Unbroken
<1> QED
  BY <1>1, <1>3, <1>4, <1>5 DEF ReplayInv

LEMMA ReplayNext == OneContext /\ ReplayInv /\ [Next]_vars => ReplayInv'
<1> SUFFICES ASSUME OneContext, ReplayInv, [Next]_vars PROVE ReplayInv'
  OBVIOUS
<1>1. FrameInv' /\ FirstRun' /\ InMenu'
  BY FrameNext, FirstRunNext, InMenuNext DEF ReplayInv
<1>2. RestartFraming
  BY WholeFraming DEF ReplayInv
<1>3. Loaded' /\ Unanswered' /\ Unbroken'
  BY <1>1, LoadedNext, UnansweredNext, UnbrokenNext DEF ReplayInv
<1>4. Views'
  BY <1>1, <1>2, ViewsNext DEF ReplayInv
<1> QED
  BY <1>1, <1>3, <1>4 DEF ReplayInv

LEMMA ReplayInvariant == OneContext => (Spec => []ReplayInv)
<1> SUFFICES ASSUME OneContext PROVE Spec => []ReplayInv
  OBVIOUS
<1> QED
  BY ReplayInit, ReplayNext, PTL DEF Spec

(* A replay of the whole file differs from what was answered at most by    *)
(* the command of one other client, which touches nobody else's keys.      *)
LEMMA OwnedMatch == OneContext /\ ReplayInv => OwnedMatches
<1> SUFFICES ASSUME OneContext, ReplayInv, phase = "serving", ~IOErrors,
                    NEW c \in Clients, NEW d \in DBs, pc[c] = "idle", KeepsToOwn(c, d),
                    NEW k \in Keys, Owns(c, d, k)
             PROVE  Replay(Len(log))[d][k] = mem[d][k]
  BY DEF OwnedMatches
<1>1. /\ FrameInv /\ InMenu /\ Unanswered /\ View(c) /\ RestartFraming /\ k \in Mine(c, d)
      /\ Len(log) \in Nat /\ Settled \in 0 .. Len(log) /\ Store \in [DBs -> Dicts]
  BY WholeFraming, FileFacts, StoreTyped DEF ReplayInv, Views, Mine
<1>2. mem[d][k] = Store[d][k]
  <2>1. CASE d = sel[c]
    <3>1. Informed(c, Store[d], Mine(c, d)) /\ Ahead("idle", task[c], Store[d]) = Store[d]
      BY <1>1, <2>1, AheadFacts DEF View
    <3> QED
      BY <1>1, <2>1, <3>1 DEF Informed
  <2> QED
    BY <1>1, <2>1 DEF View
<1>3. CASE \A x \in Clients : pc[x] # "sync"
  <2>1. Len(log) \in Settled .. Len(log)
    BY <1>1
  <2> QED
    BY <1>1, <1>2, <1>3, <2>1, UnansweredReplay
<1>4. ASSUME NEW x \in Clients, pc[x] = "sync"
      PROVE  Replay(Len(log))[d][k] = Store[d][k]
  <2> DEFINE t == task[x]
  <2>1. Replay(Len(log)) = [Store EXCEPT ![sel[x]] = After(t.op, t.keys, t.id, @)]
    BY <1>1, <1>4, UnansweredReplay
  <2>2. CASE sel[x] # d
    BY <1>1, <2>1, <2>2
  <2>3. CASE sel[x] = d
    <3>1. t \in Tasks /\ WellFormed(t) /\ x # c
      BY <1>1, <1>4 DEF FrameInv, TypeInv, TypeOK, TaskFormed, Formed
    <3>2. ~Touches(x, d, k)
      BY <3>1 DEF Owns
    <3>3. t.op # "flushdb" /\ k \notin Range(t.keys)
      BY <1>1, <1>4, <2>3, <3>2 DEF InMenu, Touches
    <3> QED
      BY <1>1, <2>1, <2>3, <3>1, <3>3, AfterElsewhere
  <2> QED
    BY <2>2, <2>3
<1> QED
  BY <1>2, <1>3, <1>4

(* With one database, or until the first restart, and without I/O errors,   *)
(* a client that keeps to keys of its own and has no command on its way     *)
(* would find after a restart exactly what memory holds of them, whatever   *)
(* the other clients do: flushes of theirs, panics and crashes included.    *)
THEOREM OwnedKeysMatch == OneContext => (Spec => []OwnedMatches)
<1> SUFFICES ASSUME OneContext PROVE Spec => []OwnedMatches
  OBVIOUS
<1>1. ReplayInv => OwnedMatches
  BY OwnedMatch
<1> QED
  BY <1>1, ReplayInvariant, PTL

-----------------------------------------------------------------------------
(* Refinement.  The clients keep apart: where two of them have commands in  *)
(* the same database, neither flushes it and they name different keys.      *)
Apart ==
  \A c \in Clients : \A o \in Clients \ {c} : \A x \in Menu[c], y \in Menu[o] :
    x.db = y.db => x.op # "flushdb" /\ y.op # "flushdb" /\ Range(x.keys) \cap Range(y.keys) = {}

Sound == broken = {}

LEMMA ApartKeeps ==
  Apart => \A c \in Clients : \A d \in DBs : KeepsToOwn(c, d)
<1> SUFFICES ASSUME Apart, NEW c \in Clients, NEW d \in DBs, NEW x \in Menu[c], x.db = d,
                    NEW k \in Range(x.keys), NEW o \in Clients \ {c}, NEW y \in Menu[o],
                    y.db = d, y.op = "flushdb" \/ k \in Range(y.keys)
             PROVE  FALSE
  BY DEF KeepsToOwn, Owns, Touches
<1> QED
  BY DEF Apart

(* So nobody is in the database that another client flushes.               *)
LEMMA FlushesAlone ==
  ASSUME Apart, FrameInv, InMenu, NEW c \in Clients, NEW o \in Clients \ {c},
         pc[c] # "idle", pc[o] # "idle", sel[o] = sel[c]
  PROVE  task[c].op # "flushdb" /\ task[o].op # "flushdb"
<1>1. PICK x \in Menu[c] : x.db = sel[c] /\ x.op = task[c].op /\ x.keys = task[c].keys
  BY DEF InMenu
<1>2. PICK y \in Menu[o] : y.db = sel[o] /\ y.op = task[o].op /\ y.keys = task[o].keys
  BY DEF InMenu
<1> QED
  BY <1>1, <1>2 DEF Apart

LEMMA NoPanic ==
  ASSUME Apart, FrameInv, InMenu, Sound, NEW c \in Clients
  PROVE  ~Panic(c)
<1> SUFFICES ASSUME Panic(c) PROVE FALSE
  OBVIOUS
<1>1. pc[c] \in InDict /\ Clearing(sel[c])
  BY DEF Panic, Sound
<1>2. PICK o \in Clients : pc[o] = "clear" /\ sel[o] = sel[c]
  BY <1>1 DEF Clearing
<1>3. o # c /\ task[o].op = "flushdb" /\ pc[o] # "idle" /\ pc[c] # "idle"
  BY <1>1, <1>2 DEF InDict, FrameInv, TaskCounted, Counted
<1> QED
  BY <1>2, <1>3, FlushesAlone

LEMMA SoundNext == Apart /\ FrameInv /\ InMenu /\ Sound /\ [Next]_vars => Sound'
<1> SUFFICES ASSUME Apart, FrameInv, InMenu, broken = {}, [Next]_vars PROVE broken' = {}
  BY DEF Sound
<1>1. ASSUME NEW c \in Clients, FlushEnd(c) PROVE broken' = {}
  <2>1. ~\E o \in Clients \ {c} : pc[o] \in InDict /\ sel[o] = sel[c]
    <3> SUFFICES ASSUME NEW o \in Clients \ {c}, pc[o] \in InDict, sel[o] = sel[c] PROVE FALSE
      OBVIOUS
    <3>1. pc[c] = "clear" /\ task[c].op = "flushdb" /\ pc[o] # "idle"
      BY <1>1 DEF FlushEnd, InDict, FrameInv, TaskCounted, Counted
    <3> QED
      BY <3>1, FlushesAlone
  <2> QED
    BY <1>1, <2>1 DEF FlushEnd
<1>2. ASSUME NEW c \in Clients, Dict(c) PROVE broken' = {}
  BY <1>1, <1>2
  DEF Dict, ExecStateless, ExecGet, ExecExists, ExecKeys, ExecSet, ExecSetnx, ExecGetset,
      ExecRename, ExecRenamenx, RenamenxSource, Put, RemoveLoad, RemoveDelete, FlushBegin,
      Panic, data
<1>3. ASSUME NEW c \in Clients, Aof(c) PROVE broken' = {}
  BY <1>3, AofFacts
<1> QED
  BY <1>2, <1>3
  DEF Next, Done, Select, Issue, Load, LoadRecord, StartServing, ProcessCrash, PowerLoss, Restart,
      data, vars

(* The abstract specification has the same commands.  What each of its     *)
(* operators gives, then the same as what the operator of Keyspace gives.  *)
LEMMA DurablePlain ==
  ASSUME NEW op, NEW ks, NEW m
  PROVE  /\ op \in {"ping", "set", "flushdb"} => Durable!Answer(op, ks, m) = Durable!OkReply
         /\ op = "bad" => Durable!Answer(op, ks, m) = Durable!ErrReply
         /\ op \notin Durable!Ops => Durable!Answer(op, ks, m) = Durable!UnknownReply
BY DEF Durable!Answer, Durable!Ops, Durable!Stateless, Durable!Readers, Durable!Writers

LEMMA DurableValue ==
  ASSUME NEW op, NEW ks, NEW m
  PROVE  /\ op \in {"get", "getset"} => Durable!Answer(op, ks, m) = Durable!BulkReply(m[ks[1]])
         /\ op = "setnx" =>
              Durable!Answer(op, ks, m) = Durable!IntReply(IF m[ks[1]] = Durable!Nil THEN 1 ELSE 0)
BY DEF Durable!Answer

LEMMA DurableExists ==
  ASSUME NEW ks, NEW m
  PROVE  Durable!Answer("exists", ks, m) =
           Durable!IntReply(Durable!Cardinality({j \in DOMAIN ks : m[ks[j]] # Durable!Nil}))
BY DEF Durable!Answer

LEMMA DurableDel ==
  ASSUME NEW ks, NEW m
  PROVE  Durable!Answer("del", ks, m) =
           Durable!IntReply(Durable!Cardinality({k \in Durable!Range(ks) : m[k] # Durable!Nil}))
BY DEF Durable!Answer

LEMMA DurableKeys ==
  ASSUME NEW ks, NEW m
  PROVE  Durable!Answer("keys", ks, m) =
           Durable!MultiReply({k \in Durable!Range(ks) : m[k] # Durable!Nil})
BY DEF Durable!Answer

LEMMA DurableMoves ==
  ASSUME NEW ks, NEW m
  PROVE  /\ Durable!Answer("rename", ks, m) =
              IF m[ks[1]] = Durable!Nil THEN Durable!ErrReply ELSE Durable!OkReply
         /\ Durable!Answer("renamenx", ks, m) =
              IF m[ks[2]] # Durable!Nil THEN Durable!IntReply(0)
              ELSE IF m[ks[1]] = Durable!Nil THEN Durable!ErrReply ELSE Durable!IntReply(1)
BY DEF Durable!Answer

LEMMA DurableAfter ==
  ASSUME NEW op, NEW ks, NEW v, NEW m
  PROVE  /\ op \in {"set", "getset"} =>
              Durable!After(op, ks, v, m) = Durable!Assign(m, ks[1], v)
         /\ op = "setnx" =>
              Durable!After(op, ks, v, m) =
                IF m[ks[1]] = Durable!Nil THEN Durable!Assign(m, ks[1], v) ELSE m
         /\ op = "del" =>
              Durable!After(op, ks, v, m) =
                [k \in Keys |-> IF k \in Durable!Range(ks) THEN Durable!Nil ELSE m[k]]
         /\ op = "rename" =>
              Durable!After(op, ks, v, m) =
                IF m[ks[1]] # Durable!Nil THEN Durable!Move(m, ks[1], ks[2]) ELSE m
         /\ op = "renamenx" =>
              Durable!After(op, ks, v, m) =
                IF m[ks[2]] = Durable!Nil /\ m[ks[1]] # Durable!Nil
                THEN Durable!Move(m, ks[1], ks[2]) ELSE m
         /\ op = "flushdb" => Durable!After(op, ks, v, m) = Durable!Empty
         /\ op \notin Durable!Writers => Durable!After(op, ks, v, m) = m
BY DEF Durable!After, Durable!Writers

LEMMA SameParts ==
  /\ Durable!Nil = Nil /\ Durable!Empty = Empty /\ Durable!DBs = DBs
  /\ Durable!Writers = Writers /\ Durable!Ops = Ops
  /\ \A m, k, v : Durable!Assign(m, k, v) = Assign(m, k, v)
  /\ \A m, a, b : Durable!Move(m, a, b) = Move(m, a, b)
  /\ \A ks : Durable!Range(ks) = Range(ks)
  /\ \A S : Durable!Cardinality(S) = Cardinality(S)
<1>1. Durable!Nil = Nil /\ Durable!Empty = Empty /\ Durable!DBs = DBs
  BY DEF Durable!Nil, Nil, Durable!Empty, Empty, Durable!DBs, DBs
<1>2. Durable!Writers = Writers
  BY DEF Durable!Writers, Writers
<1>3. Durable!Stateless = Stateless /\ Durable!Readers = Readers
  BY DEF Durable!Stateless, Stateless, Durable!Readers, Readers
<1>4. Durable!Ops = Ops
  BY <1>2, <1>3 DEF Durable!Ops, Ops
<1>5. \A m, k, v : Durable!Assign(m, k, v) = Assign(m, k, v)
  BY DEF Durable!Assign, Assign
<1>6. \A m, a, b : Durable!Move(m, a, b) = Move(m, a, b)
  BY <1>1, <1>5 DEF Durable!Move, Move
<1>7. \A ks : Durable!Range(ks) = Range(ks)
  BY DEF Durable!Range, Range
<1>8. \A S : Durable!Cardinality(S) = Cardinality(S)
  BY DEF Durable!Cardinality, Cardinality
<1> QED
  BY <1>1, <1>2, <1>4, <1>5, <1>6, <1>7, <1>8

LEMMA SameReplies ==
  /\ Durable!OkReply = OkReply /\ Durable!ErrReply = ErrReply
  /\ Durable!UnknownReply = UnknownReply
  /\ \A n : /\ Durable!IntReply(n) = IntReply(n) /\ Durable!BulkReply(n) = BulkReply(n)
            /\ Durable!MultiReply(n) = MultiReply(n)
<1>1. \A kind, n, ks : Durable!Reply(kind, n, ks) = Reply(kind, n, ks)
  BY DEF Durable!Reply, Reply
<1> QED
  BY <1>1 DEF Durable!OkReply, OkReply, Durable!ErrReply, ErrReply, Durable!UnknownReply,
     UnknownReply, Durable!IntReply, IntReply, Durable!BulkReply, BulkReply,
     Durable!MultiReply, MultiReply

LEMMA SameAfter ==
  ASSUME NEW op, NEW ks, NEW v, NEW m
  PROVE  Durable!After(op, ks, v, m) = After(op, ks, v, m)
<1>1. CASE op \in {"set", "getset", "setnx"}
  BY <1>1, DurableAfter, AfterTable, SameParts
<1>2. CASE op = "del"
  <2>1. Durable!After(op, ks, v, m) =
          [k \in Keys |-> IF k \in Durable!Range(ks) THEN Durable!Nil ELSE m[k]]
    BY <1>2, DurableAfter
  <2>2. After(op, ks, v, m) = [k \in Keys |-> IF k \in Range(ks) THEN Nil ELSE m[k]]
    BY <1>2, AfterTable
  <2> QED
    BY <2>1, <2>2, SameParts
<1>3. CASE op = "rename"
  BY <1>3, DurableAfter, AfterTable, SameParts
<1>4. CASE op = "renamenx"
  BY <1>4, DurableAfter, AfterTable, SameParts
<1>5. CASE op = "flushdb"
  BY <1>5, DurableAfter, AfterTable, SameParts
<1>6. CASE op \notin Writers
  BY <1>6, DurableAfter, AfterTable, SameParts
<1> QED
  BY <1>1, <1>2, <1>3, <1>4, <1>5, <1>6 DEF Writers

LEMMA SameAnswer ==
  ASSUME NEW op, NEW ks, NEW m
  PROVE  Durable!Answer(op, ks, m) = Answer(op, ks, m)
<1>1. CASE op \in {"ping", "set", "flushdb", "bad"}
  BY <1>1, DurablePlain, AnswerPlain, SameReplies
<1>2. CASE op \in {"get", "getset", "setnx"}
  BY <1>2, DurableValue, AnswerValue, SameReplies, SameParts
<1>3. CASE op = "exists"
  <2> DEFINE S == {j \in DOMAIN ks : m[ks[j]] # Nil}
  <2>1. {j \in DOMAIN ks : m[ks[j]] # Durable!Nil} = S
    BY SameParts
  <2>2. Durable!Answer(op, ks, m) = Durable!IntReply(Durable!Cardinality({j \in DOMAIN ks : m[ks[j]] # Durable!Nil}))
    BY <1>3, DurableExists
  <2>3. Answer(op, ks, m) = IntReply(Cardinality(S))
    BY <1>3, AnswerExists
  <2> HIDE DEF S
  <2> QED
    BY <2>1, <2>2, <2>3, SameReplies, SameParts
<1>4. CASE op = "del"
  <2> DEFINE S == {k \in Range(ks) : m[k] # Nil}
  <2>1. {k \in Durable!Range(ks) : m[k] # Durable!Nil} = S
    BY SameParts
  <2>2. Durable!Answer(op, ks, m) = Durable!IntReply(Durable!Cardinality({k \in Durable!Range(ks) : m[k] # Durable!Nil}))
    BY <1>4, DurableDel
  <2>3. Answer(op, ks, m) = IntReply(Cardinality(S))
    BY <1>4, AnswerDel
  <2> HIDE DEF S
  <2> QED
    BY <2>1, <2>2, <2>3, SameReplies, SameParts
<1>5. CASE op = "keys"
  <2> DEFINE S == {k \in Range(ks) : m[k] # Nil}
  <2>1. {k \in Durable!Range(ks) : m[k] # Durable!Nil} = S
    BY SameParts
  <2>2. Durable!Answer(op, ks, m) = Durable!MultiReply({k \in Durable!Range(ks) : m[k] # Durable!Nil})
    BY <1>5, DurableKeys
  <2>3. Answer(op, ks, m) = MultiReply(S)
    BY <1>5, AnswerKeys
  <2> HIDE DEF S
  <2> QED
    BY <2>1, <2>2, <2>3, SameReplies, SameParts
<1>6. CASE op \in {"rename", "renamenx"}
  BY <1>6, DurableMoves, AnswerMoves, SameReplies, SameParts
<1>7. CASE op \notin Ops
  BY <1>7, DurablePlain, AnswerPlain, SameReplies, SameParts
<1> QED
  BY <1>1, <1>2, <1>3, <1>4, <1>5, <1>6, <1>7 DEF Ops, Stateless, Readers, Writers

LEMMA SameRecords ==
  ASSUME NEW op, NEW r
  PROVE  Durable!Records(op, r) <=> Records(op, r)
BY DEF Durable!Records, Records

DurableInvariant == ReplayInv /\ LogInv /\ Sound

-----------------------------------------------------------------------------
(* The commands on their way, as the abstract specification sees them.     *)
Command(c) == [id |-> task[c].id, db |-> sel[c], op |-> task[c].op, keys |-> task[c].keys]

LEMMA CallFacts ==
  ASSUME LogInv
  PROVE  /\ Call = [c \in Clients |-> IF pc[c] = "idle" THEN Durable!NoCall ELSE Command(c)]
         /\ \A c \in Clients : pc[c] = "idle" <=> Call[c] = Durable!NoCall
<1>1. Call = [c \in Clients |-> IF pc[c] = "idle" THEN Durable!NoCall ELSE Command(c)]
  BY DEF Call, Durable!NoCall, Command
<1>2. ASSUME NEW c \in Clients, pc[c] # "idle" PROVE Command(c) # Durable!NoCall
  <2>1. task[c].id \in Nat \ {0}
    BY <1>2 DEF LogInv, IdInv, TaskIds, Busy, Sent
  <2>2. Command(c).id = task[c].id /\ Durable!NoCall.id = 0
    BY DEF Command, Durable!NoCall
  <2> QED
    BY <2>1, <2>2
<1> QED
  BY <1>1, <1>2

(* They stay what they are while no handler begins or returns.             *)
LEMMA CallSame ==
  ASSUME \A c \in Clients :
           /\ pc'[c] = "idle" <=> pc[c] = "idle"
           /\ pc[c] # "idle" => /\ sel'[c] = sel[c] /\ task'[c].id = task[c].id
                                /\ task'[c].op = task[c].op /\ task'[c].keys = task[c].keys
  PROVE  Call' = Call
BY DEF Call

LEMMA CallEnds ==
  ASSUME NEW c \in Clients, pc'[c] = "idle", sel' = sel,
         \A o \in Clients \ {c} : pc'[o] = pc[o] /\ task'[o] = task[o]
  PROVE  Call' = [Call EXCEPT ![c] = Durable!NoCall]
BY DEF Call, Durable!NoCall

LEMMA CallStops ==
  ASSUME \A c \in Clients : pc'[c] = "idle"
  PROVE  Call' = [c \in Clients |-> Durable!NoCall]
BY DEF Call, Durable!NoCall

(* The contents stay what they are while the settled part of the file does. *)
LEMMA KeptSame ==
  ASSUME FrameInv, FrameInv', synced' = synced, Settled' = Settled, Settled <= Len(log'),
         \A j \in 1 .. Settled : log'[j] = log[j]
  PROVE  Store' = Store /\ Kept' = Kept
<1>1. /\ Settled \in synced .. Len(log) /\ Len(log) \in Nat /\ synced \in Nat
  BY FileFacts
<1>2. \A n \in 0 .. Settled : Replay(n)' = Replay(n)
  BY <1>1, ReplayKept
<1>3. Store' = Replay(Settled)'
  BY DEF Store
<1>4. \A n \in synced .. Settled : n \in 0 .. Settled
  BY <1>1
<1>5. Store' = Store
  <2>1. Store' = Replayed(log')[Settled'].dbs /\ Store = Replayed(log)[Settled].dbs
    BY DEF Store, Replay
  <2>2. Replayed(log')[Settled].dbs = Replayed(log)[Settled].dbs
    BY <1>1, <1>2 DEF Replay
  <2> QED
    BY <2>1, <2>2
<1>6. Kept' = Kept
  BY <1>2, <1>4 DEF Kept, Replay
<1> QED
  BY <1>5, <1>6

(* A command on its way, taken as one step.                                *)
LEMMA EffectFacts ==
  ASSUME LogInv, NEW c \in Clients, pc[c] # "idle"
  PROVE  /\ Call[c] # Durable!NoCall /\ Call[c] = Command(c)
         /\ Durable!Effect(Call[c]) =
              [Store EXCEPT ![sel[c]] = After(task[c].op, task[c].keys, task[c].id, @)]
<1>1. Call[c] # Durable!NoCall /\ Call[c] = Command(c)
  BY CallFacts
<1>2. /\ Command(c).id = task[c].id /\ Command(c).db = sel[c]
      /\ Command(c).op = task[c].op /\ Command(c).keys = task[c].keys
  BY DEF Command
<1> QED
  BY <1>1, <1>2, SameAfter DEF Durable!Effect

(* It is performed when the reply of the dictionary it began with, now     *)
(* given, goes to its client.                                              *)
LEMMA Performs ==
  ASSUME LogInv, NEW c \in Clients, pc[c] # "idle", sel' = sel, nextId' = nextId,
         \A o \in Clients \ {c} : pc'[o] = pc[o] /\ task'[o] = task[o],
         NEW r, r = Answer(task[c].op, task[c].keys, Store[sel[c]]),
         Finish(c, r), pc'[c] = "idle",
         Store' = [Store EXCEPT ![sel[c]] = After(task[c].op, task[c].keys, task[c].id, @)],
         Kept' = IF Records(task[c].op, r) THEN {Store'} ELSE Kept
  PROVE  Durable!Perform(c)
<1>1. Call' = [Call EXCEPT ![c] = Durable!NoCall]
  BY CallEnds
<1>2. /\ Call[c] # Durable!NoCall /\ Call[c] = Command(c)
      /\ Store' = Durable!Effect(Call[c])
  BY EffectFacts
<1>3. /\ Call[c].id = task[c].id /\ Call[c].db = sel[c]
      /\ Call[c].op = task[c].op /\ Call[c].keys = task[c].keys
  BY <1>2 DEF Command
<1>4. r = Durable!Answer(Call[c].op, Call[c].keys, Store[Call[c].db])
  BY <1>3, SameAnswer
<1>5. answered' = answered \union
        {[id |-> Call[c].id, db |-> Call[c].db, op |-> Call[c].op, keys |-> Call[c].keys,
          reply |-> r]}
  BY <1>3 DEF Finish
<1>6. Kept' = IF Durable!Records(Call[c].op, r) THEN {Store'} ELSE Kept
  BY <1>3, SameRecords
<1> QED
  BY <1>1, <1>2, <1>4, <1>5, <1>6 DEF Durable!Perform

-----------------------------------------------------------------------------
(* Every step is one of the abstract specification, or none.               *)
LEMMA StutterStep ==
  ASSUME FrameInv, FrameInv', synced' = synced, Settled' = Settled, Settled <= Len(log'),
         \A j \in 1 .. Settled : log'[j] = log[j], Call' = Call,
         UNCHANGED <<answered, nextId>>
  PROVE  UNCHANGED Durable!vars
BY KeptSame DEF Durable!vars

(* Where the file is left alone so is the settled part of it.              *)
LEMMA FileSame ==
  ASSUME FrameInv, FrameInv', UNCHANGED <<log, synced, base, phase>>
  PROVE  /\ Settled' = Settled /\ Settled <= Len(log') /\ synced' = synced
         /\ \A j \in 1 .. Settled : log'[j] = log[j]
         /\ Store' = Store /\ Kept' = Kept
<1>1. Settled' = Settled /\ Settled <= Len(log') /\ synced' = synced
      /\ \A j \in 1 .. Settled : log'[j] = log[j]
  BY FileFacts DEF Settled
<1> QED
  BY <1>1, KeptSame

LEMMA RequestRefines ==
  ASSUME DurableInvariant, DurableInvariant', NEW c \in Clients, Select(c) \/ Issue(c)
  PROVE  [Durable!Next]_Durable!vars
<1>1. LogInv /\ FrameInv /\ FrameInv' /\ TypeOK
  BY DEF DurableInvariant, LogInv, FrameInv, TypeInv
<1>2. CASE Select(c)
  <2>1. UNCHANGED <<log, synced, base, phase, pc, task, answered, nextId>> /\ pc[c] = "idle"
        /\ \A o \in Clients \ {c} : sel'[o] = sel[o]
    BY <1>1, <1>2 DEF Select, aof, boot, TypeOK
  <2>2. Call' = Call
    BY <2>1, CallSame
  <2> QED
    BY <1>1, <2>1, <2>2, FileSame, StutterStep
<1>3. CASE Issue(c)
  <2>1. UNCHANGED <<log, synced, base, phase, sel, answered>> /\ pc[c] = "idle"
        /\ nextId <= MaxCmds /\ nextId' = nextId + 1
    BY <1>3 DEF Issue, aof, boot
  <2>2. PICK cmd \in Menu[c] :
          /\ cmd.db = sel[c]
          /\ Go(c, "exec", [NoTask EXCEPT !.id = nextId, !.op = cmd.op, !.keys = cmd.keys])
    BY <1>3 DEF Issue
  <2> DEFINE t == [NoTask EXCEPT !.id = nextId, !.op = cmd.op, !.keys = cmd.keys]
  <2>3. t.id = nextId /\ t.op = cmd.op /\ t.keys = cmd.keys
    BY DEF NoTask
  <2> HIDE DEF t
  <2>4. /\ pc'[c] = "exec" /\ task'[c] = t
        /\ \A o \in Clients \ {c} : pc'[o] = pc[o] /\ task'[o] = task[o]
    BY <1>1, <2>2 DEF Go, TypeOK, t
  <2>5. Call' = [Call EXCEPT ![c] = [id |-> nextId, db |-> cmd.db, op |-> cmd.op, keys |-> cmd.keys]]
    BY <2>1, <2>2, <2>3, <2>4 DEF Call
  <2>6. Call[c] = Durable!NoCall
    BY <1>1, <2>1, CallFacts
  <2>7. Durable!Submit(c)
    BY <1>1, <2>1, <2>5, <2>6, FileSame DEF Durable!Submit
  <2> QED
    BY <2>7 DEF Durable!Next
<1> QED
  BY <1>2, <1>3

LEMMA DictRefines ==
  ASSUME Apart, ~IOErrors, DurableInvariant, DurableInvariant', NEW c \in Clients, Dict(c)
  PROVE  [Durable!Next]_Durable!vars
<1> DEFINE d == sel[c]
           f == Store[d]
           t == task[c]
<1>1. /\ LogInv /\ FrameInv /\ FrameInv' /\ TypeOK /\ TypeInv /\ TaskCounted /\ InMenu /\ Sound /\ Views
  BY DEF DurableInvariant, ReplayInv, LogInv, FrameInv, TypeInv
<1>2. /\ UNCHANGED <<log, synced, base, phase, sel, nextId>> /\ phase = "serving"
      /\ pc[c] # "idle" /\ \A o \in Clients \ {c} : pc'[o] = pc[o] /\ task'[o] = task[o]
  BY <1>1, DictFacts
<1>3. Informed(c, f, Mine(c, d))
  <2>1. d \in DBs /\ KeepsToOwn(c, d)
    BY <1>1, ApartKeeps DEF TypeOK
  <2> QED
    BY <1>1, <1>2, <2>1 DEF Views, View
<1>4. Advances(c, f, Mine(c, d))
  BY <1>1, <1>3, NoPanic, DictAdvances
<1>5. Store' = Store /\ Kept' = Kept
  BY <1>1, <1>2, FileSame
<1>6. t.id \in Nat \ {0} /\ \A h \in answered : h.id # t.id
  BY <1>1, <1>2 DEF LogInv, IdInv, TaskIds, AnswerIds, Busy, Sent
<1>7. Frame(c)
  BY <1>1, DictFrame
<1> HIDE DEF f
<1>8. CASE Finish(c, Answer(t.op, t.keys, f)) /\ After(t.op, t.keys, t.id, f) = f
  <2> DEFINE r == Answer(t.op, t.keys, f)
             h(x) == [id |-> t.id, db |-> d, op |-> t.op, keys |-> t.keys, reply |-> x]
  <2>1. pc'[c] = "idle" /\ task'[c] = NoTask /\ answered' = answered \union {h(r)}
    BY <1>1, <1>8 DEF Finish, Go, TypeOK
  <2>2. h(r) \notin answered
    BY <1>6
  <2>3. \E x \in Replies : Finish(c, x) /\ ~Records(t.op, x)
    <3>1. ~UNCHANGED answered
      BY <2>1, <2>2
    <3> QED
      BY <1>1, <1>7, <3>1, FrameFacts
  <2>4. PICK x \in Replies : Finish(c, x) /\ ~Records(t.op, x)
    BY <2>3
  <2>5. answered' = answered \union {h(x)}
    BY <2>4 DEF Finish
  <2>6. h(r) = h(x)
    BY <2>1, <2>2, <2>5
  <2>7. r = x
    <3>1. h(r).reply = r /\ h(x).reply = x
      OBVIOUS
    <3> QED
      BY <2>6, <3>1
  <2> HIDE DEF r
  <2>8. ~Records(t.op, r)
    BY <2>4, <2>7
  <2>9. Store \in [DBs -> Dicts] /\ d \in DBs
    BY <1>1, StoreTyped DEF TypeOK
  <2>10. Store' = [Store EXCEPT ![d] = After(t.op, t.keys, t.id, @)]
    BY <1>5, <1>8, <2>9 DEF f
  <2>11. Finish(c, r) /\ r = Answer(t.op, t.keys, Store[d])
    BY <2>4, <2>7 DEF r, f
  <2>12. Durable!Perform(c)
    BY <1>1, <1>2, <1>5, <2>1, <2>8, <2>10, <2>11, Performs
  <2> QED
    BY <2>12 DEF Durable!Next
<1>9. ASSUME NEW p \in Pcs \ {"idle"}, NEW u \in Tasks, Go(c, p, u), UNCHANGED answered
      PROVE  [Durable!Next]_Durable!vars
  <2>1. pc'[c] # "idle"
    BY <1>1, <1>9 DEF Go, TypeOK
  <2>2. Moves(c)
    BY <1>1, <1>7, <2>1, FinishType DEF Frame, Refuses
  <2>3. task'[c].id = t.id /\ task'[c].op = t.op /\ task'[c].keys = t.keys
    BY <1>1, <2>2 DEF Moves, Go, TypeOK
  <2>4. Call' = Call
    BY <1>2, <2>1, <2>3, CallSame
  <2> QED
    BY <1>1, <1>2, <1>9, <2>4, FileSame, StutterStep
<1> QED
  BY <1>4, <1>8, <1>9 DEF Advances

LEMMA AofRefines ==
  ASSUME Apart, OneContext, ~IOErrors, DurableInvariant, DurableInvariant',
         NEW c \in Clients, Aof(c)
  PROVE  [Durable!Next]_Durable!vars
<1> DEFINE d == sel[c]
           f == Store[d]
           t == task[c]
<1>1. /\ LogInv /\ FrameInv /\ FrameInv' /\ TypeOK /\ TypeInv /\ TaskCounted /\ InMenu /\ Views
      /\ Unanswered /\ RestartFraming
  BY WholeFraming DEF DurableInvariant, ReplayInv, LogInv, FrameInv, TypeInv
<1>2. /\ UNCHANGED <<phase, base, sel, nextId>> /\ phase = "serving"
      /\ pc[c] \in InAddAof /\ pc[c] # "idle"
      /\ \A o \in Clients \ {c} : pc'[o] = pc[o] /\ task'[o] = task[o]
  BY <1>1, AofFacts DEF InAddAof, InAof
<1>3. CASE AofLock(c)
  <2>1. UNCHANGED <<log, synced, answered>> /\ pc'[c] # "idle" /\ task'[c] = t
    BY <1>1, <1>3 DEF AofLock, Go, TypeOK
  <2>2. Call' = Call
    BY <1>2, <2>1, CallSame
  <2> QED
    BY <1>1, <1>2, <2>1, <2>2, FileSame, StutterStep
<1>4. CASE AofSelect(c) \/ AofWrite(c)
  <2>1. /\ Len(log') = Len(log) + 1 /\ \A j \in 1 .. Len(log) : log'[j] = log[j]
        /\ UNCHANGED <<synced, answered>> /\ Settled' = Settled /\ task'[c] = t
        /\ pc'[c] # "idle"
    BY <1>1, <1>4, AppendFacts
  <2>2. Settled <= Len(log') /\ \A j \in 1 .. Settled : log'[j] = log[j]
    BY <1>1, <2>1, FileFacts
  <2>3. Call' = Call
    BY <1>2, <2>1, CallSame
  <2> QED
    BY <1>1, <1>2, <2>1, <2>2, <2>3, StutterStep
<1>5. CASE AofSync(c)
  <2>1. pc[c] = "sync" /\ log' = log /\ synced' = Len(log) /\ Finish(c, LoggedReply(t))
    BY <1>5 DEF AofSync
  <2>2. pc'[c] = "idle"
    BY <1>1, <2>1 DEF Finish, Go, TypeOK
  <2>3. LoggedReply(t) = Answer(t.op, t.keys, f)
    <3>1. d \in DBs /\ KeepsToOwn(c, d)
      BY <1>1, ApartKeeps DEF TypeOK
    <3>2. Informed(c, f, Mine(c, d))
      BY <1>1, <1>2, <3>1 DEF Views, View
    <3> QED
      BY <1>2, <3>2 DEF Informed, Knows
  <2>4. Records(t.op, LoggedReply(t))
    BY <1>1, <2>1 DEF TaskCounted, Counted, InAof
  <2>5. Settled' = Len(log)
    <3>1. base <= Len(log) /\ base \in Nat /\ Len(log) \in Nat
      BY <1>1, <1>2, FileFacts DEF FrameInv, AtEnd
    <3> QED
      BY <1>2, <2>1, <3>1 DEF Settled
  <2>6. Replay(Len(log)) = [Store EXCEPT ![d] = After(t.op, t.keys, t.id, @)]
    BY <1>1, <1>2, <2>1, UnansweredReplay
  <2>7. Store' = Replay(Len(log))
    BY <2>1, <2>5 DEF Store, Replay
  <2>8. Kept' = {Store'}
    <3>1. \A n : n \in synced' .. Settled' <=> n = Len(log)
      BY <1>1, <2>1, <2>5, FileFacts
    <3>2. Kept' = {Replay(n)' : n \in synced' .. Settled'} /\ Store' = Replay(Settled)'
      BY DEF Kept, Store
    <3>3. \A n : Replay(n)' = Replay(n)
      BY <2>1 DEF Replay
    <3> QED
      BY <2>7, <3>1, <3>2, <3>3
  <2> HIDE DEF f
  <2>9. Durable!Perform(c)
    BY <1>1, <1>2, <2>1, <2>2, <2>3, <2>4, <2>6, <2>7, <2>8, Performs DEF f
  <2> QED
    BY <2>9 DEF Durable!Next
<1>6. ~AofError(c)
  BY DEF AofError
<1> QED
  BY <1>3, <1>4, <1>5, <1>6 DEF Aof

(* While the file is loaded nobody is served, and all of it is settled.    *)
LEMMA LoadRefines ==
  ASSUME DurableInvariant, DurableInvariant', Load
  PROVE  [Durable!Next]_Durable!vars
<1>1. FrameInv /\ FrameInv' /\ TypeOK
  BY DEF DurableInvariant, LogInv, FrameInv, TypeInv
<1>2. UNCHANGED <<log, synced, sel, pc, task, answered, nextId>> /\ phase = "loading"
  BY DEF Load, LoadRecord, StartServing, aof, conns
<1>3. Call' = Call
  BY <1>2, CallSame
<1>4. Settled' = Settled
  <2>1. Settled = Len(log)
    BY <1>2 DEF Settled
  <2>2. phase' = "loading" \/ (phase' # "loading" /\ base' = Len(log))
    BY <1>2 DEF Load, LoadRecord, StartServing
  <2>3. synced \in 0 .. Len(log) /\ Len(log) \in Nat
    BY <1>1, FileFacts
  <2> QED
    BY <1>2, <2>1, <2>2, <2>3 DEF Settled
<1>5. Settled <= Len(log') /\ \A j \in 1 .. Settled : log'[j] = log[j]
  BY <1>1, <1>2, FileFacts
<1> QED
  BY <1>1, <1>2, <1>3, <1>4, <1>5, StutterStep

(* What the file holds beyond its settled part is one command at most.     *)
LEMMA BeyondSettled ==
  ASSUME OneContext, ~IOErrors, DurableInvariant, NEW n \in 0 .. Len(log), Settled <= n
  PROVE  Replay(n) \in {Store} \union Durable!Overtaken
<1>1. /\ LogInv /\ FrameInv /\ Unanswered /\ RestartFraming
      /\ phase \in {"loading", "serving"} /\ Settled \in Nat /\ Len(log) \in Nat
  BY WholeFraming, FileFacts DEF DurableInvariant, ReplayInv, LogInv
<1>2. CASE phase = "loading"
  <2>1. n = Settled
    BY <1>1, <1>2 DEF Settled
  <2> QED
    BY <2>1 DEF Store
<1>3. CASE phase = "serving"
  <2>1. CASE n < Len(log) \/ \A c \in Clients : pc[c] # "sync"
    <3>1. n \in Settled .. Len(log)
      BY <1>1
    <3>2. Replay(n) = Store
      BY <1>1, <1>3, <2>1, <3>1, UnansweredReplay
    <3> QED
      BY <3>2
  <2>2. ASSUME n = Len(log), NEW c \in Clients, pc[c] = "sync"
        PROVE  Replay(n) \in Durable!Overtaken
    <3>1. pc[c] # "idle"
      BY <2>2
    <3>2. Replay(n) = [Store EXCEPT ![sel[c]] = After(task[c].op, task[c].keys, task[c].id, @)]
      BY <1>1, <1>3, <2>2, UnansweredReplay
    <3>3. Replay(n) = Durable!Effect(Call[c]) /\ Call[c] # Durable!NoCall
      BY <1>1, <3>1, <3>2, EffectFacts
    <3> QED
      BY <3>3 DEF Durable!Overtaken
  <2> QED
    BY <1>1, <2>1, <2>2
<1> QED
  BY <1>1, <1>2, <1>3

LEMMA RestartFacts ==
  ASSUME FrameInv, Restart, synced' \in Nat, log' \in Seq(LogRecords)
  PROVE  /\ \A c \in Clients : pc'[c] = "idle"
         /\ Settled' = Len(log') /\ UNCHANGED <<answered, nextId>>
BY DEF Restart, Settled

LEMMA CrashRefines ==
  ASSUME OneContext, ~IOErrors, DurableInvariant, DurableInvariant', ProcessCrash
  PROVE  Durable!ProcessStops
<1>1. /\ LogInv /\ FrameInv /\ FrameInv' /\ Settled \in synced .. Len(log)
      /\ Len(log) \in Nat /\ synced \in Nat
  BY FileFacts DEF DurableInvariant, LogInv
<1>2. Restart /\ log' = log /\ synced' = synced
  BY DEF ProcessCrash
<1>3. (\A c \in Clients : pc'[c] = "idle") /\ Settled' = Len(log) /\ UNCHANGED <<answered, nextId>>
  <2>1. synced' \in Nat /\ log' \in Seq(LogRecords)
    BY <1>1, <1>2, FileFacts
  <2> QED
    BY <1>1, <1>2, <2>1, RestartFacts
<1>4. \A n : Replay(n)' = Replay(n)
  BY <1>2 DEF Replay
<1>5. Store' = Replay(Len(log))
  <2>1. Store' = Replay(Settled)'
    BY DEF Store
  <2> QED
    BY <1>2, <1>3, <2>1 DEF Replay
<1>6. Store' \in {Store} \union Durable!Overtaken
  <2>1. Len(log) \in 0 .. Len(log) /\ Settled <= Len(log)
    BY <1>1
  <2> QED
    BY <1>5, <2>1, BeyondSettled
<1>7. Kept' = Kept \union {Store'}
  <2>1. Kept' = {Replay(n) : n \in synced .. Len(log)}
    <3>1. Kept' = {Replay(n)' : n \in synced' .. Settled'}
      BY DEF Kept
    <3> QED
      BY <1>2, <1>3, <1>4, <3>1
  <2>2. ASSUME NEW n \in synced .. Len(log) PROVE Replay(n) \in Kept \union {Store'}
    <3>1. CASE n <= Settled
      BY <1>1, <3>1 DEF Kept
    <3>2. CASE n = Len(log)
      BY <1>5, <3>2
    <3>3. CASE Settled < n /\ n < Len(log)
      <4>1. phase = "serving"
        BY <1>1, <3>3, FileFacts DEF Settled
      <4>2. Replay(n) = Store
        <5>1. n \in Settled .. Len(log)
          BY <1>1, <3>3
        <5>2. RestartFraming /\ Unanswered
          BY WholeFraming DEF DurableInvariant, ReplayInv
        <5> QED
          BY <1>1, <3>3, <4>1, <5>1, <5>2, UnansweredReplay
      <4>3. Settled \in synced .. Settled
        BY <1>1
      <4> QED
        BY <4>2, <4>3 DEF Kept, Store
    <3> QED
      BY <1>1, <3>1, <3>2, <3>3
  <2>3. Kept \subseteq {Replay(n) : n \in synced .. Len(log)}
    <3>1. synced .. Settled \subseteq synced .. Len(log)
      BY <1>1
    <3> QED
      BY <3>1 DEF Kept
  <2>4. Store' \in {Replay(n) : n \in synced .. Len(log)}
    <3>1. Len(log) \in synced .. Len(log)
      BY <1>1
    <3> QED
      BY <1>5, <3>1
  <2> QED
    BY <2>1, <2>2, <2>3, <2>4
<1>8. Durable!Stop
  BY <1>3, CallStops DEF Durable!Stop
<1> QED
  BY <1>6, <1>7, <1>8 DEF Durable!ProcessStops

LEMMA PowerRefines ==
  ASSUME OneContext, ~IOErrors, DurableInvariant, DurableInvariant', PowerLoss
  PROVE  Durable!PowerFails
<1>1. /\ LogInv /\ FrameInv /\ FrameInv' /\ Settled \in synced .. Len(log) /\ TypeInv
      /\ Len(log) \in Nat /\ synced \in Nat
  BY FileFacts DEF DurableInvariant, LogInv, FrameInv
<1>2. PICK n \in synced .. Len(log) : log' = SubSeq(log, 1, n) /\ synced' = n /\ Restart
  BY DEF PowerLoss
<1>3. n \in 0 .. Len(log)
  BY <1>1
<1>4. log' \in Seq(LogRecords) /\ Len(log') = n /\ \A j \in 1 .. n : log'[j] = log[j]
  BY <1>1, <1>2, <1>3, PrefixFormed
<1>5. (\A c \in Clients : pc'[c] = "idle") /\ Settled' = n /\ UNCHANGED <<answered, nextId>>
  <2>1. synced' \in Nat
    BY <1>2, <1>3
  <2> QED
    BY <1>1, <1>2, <1>4, <2>1, RestartFacts
<1>6. Store' = Replay(n)
  <2>1. Store' = Replayed(log')[Settled'].dbs
    BY DEF Store, Replay
  <2>2. n \in 0 .. n /\ n <= Len(log')
    BY <1>3, <1>4
  <2>3. Replayed(log')[n] = Replayed(log)[n]
    BY <1>1, <1>3, <1>4, <2>2, ReplayKept
  <2> QED
    BY <1>5, <2>1, <2>3 DEF Replay
<1>7. Kept' = {Store'}
  <2>1. \A m : m \in synced' .. Settled' <=> m = Settled'
    BY <1>2, <1>3, <1>5
  <2>2. Kept' = {Replay(m)' : m \in synced' .. Settled'} /\ Store' = Replay(Settled)'
    BY DEF Kept, Store
  <2>3. Kept' = {Replayed(log')[m].dbs : m \in synced' .. Settled'}
        /\ Store' = Replayed(log')[Settled'].dbs
    BY <2>2 DEF Replay
  <2> QED
    BY <2>1, <2>3
<1>8. Store' \in Kept \union Durable!Overtaken
  <2>1. Store \in Kept
    <3>1. Settled \in synced .. Settled
      BY <1>1
    <3> QED
      BY <3>1 DEF Kept, Store
  <2>2. CASE n <= Settled
    <3>1. n \in synced .. Settled
      BY <1>1, <2>2
    <3> QED
      BY <1>6, <3>1 DEF Kept
  <2>3. CASE Settled <= n
    BY <1>3, <1>6, <2>1, <2>3, BeyondSettled
  <2> QED
    BY <1>1, <1>3, <2>2, <2>3
<1>9. Durable!Stop
  BY <1>5, CallStops DEF Durable!Stop
<1> QED
  BY <1>7, <1>8, <1>9 DEF Durable!PowerFails

LEMMA DurableStarts == Init => Durable!Init
<1> SUFFICES ASSUME Init PROVE Durable!Init
  OBVIOUS
<1>1. /\ log = <<>> /\ synced = 0 /\ phase = "loading" /\ answered = {} /\ nextId = 1
      /\ pc = [c \in Clients |-> "idle"]
  BY DEF Init
<1>2. log \in Files /\ Len(log) = 0
  BY <1>1 DEF Files
<1>3. Settled = 0
  BY <1>1, <1>2 DEF Settled
<1>4. Replay(0) = [d \in DBs |-> Empty]
  BY <1>2, ReplayedDef DEF Replay, Start
<1>5. Store = [d \in DBs |-> Empty] /\ Store = [d \in Durable!DBs |-> Durable!Empty]
  BY <1>3, <1>4, SameParts DEF Store
<1>6. Kept = {Store}
  <2>1. \A n : n \in synced .. Settled <=> n = 0
    BY <1>1, <1>3
  <2>2. Store = Replay(0) /\ Kept = {Replay(n) : n \in synced .. Settled}
    BY <1>3 DEF Store, Kept
  <2> QED
    BY <2>1, <2>2
<1>7. Call = [c \in Clients |-> Durable!NoCall]
  BY <1>1 DEF Call, Durable!NoCall
<1> QED
  BY <1>1, <1>5, <1>6, <1>7 DEF Durable!Init

LEMMA DurableSteps ==
  ASSUME Apart, OneContext, ~IOErrors, DurableInvariant, DurableInvariant', [Next]_vars
  PROVE  [Durable!Next]_Durable!vars
<1>1. ASSUME NEW c \in Clients, Select(c) \/ Issue(c) PROVE [Durable!Next]_Durable!vars
  BY <1>1, RequestRefines
<1>2. ASSUME NEW c \in Clients, Dict(c) PROVE [Durable!Next]_Durable!vars
  BY <1>2, DictRefines
<1>3. ASSUME NEW c \in Clients, Aof(c) PROVE [Durable!Next]_Durable!vars
  BY <1>3, AofRefines
<1>4. CASE Load
  BY <1>4, LoadRefines
<1>5. CASE ProcessCrash
  BY <1>5, CrashRefines DEF Durable!Next
<1>6. CASE PowerLoss
  BY <1>6, PowerRefines DEF Durable!Next
<1>7. CASE UNCHANGED vars
  <2>1. FrameInv /\ FrameInv'
    BY DEF DurableInvariant, LogInv
  <2>2. UNCHANGED <<log, synced, base, phase, pc, task, sel, answered, nextId>>
    BY <1>7 DEF vars
  <2>3. Call' = Call
    BY <2>2, CallSame
  <2> QED
    BY <2>1, <2>2, <2>3, FileSame, StutterStep
<1> QED
  BY <1>1, <1>2, <1>3, <1>4, <1>5, <1>6, <1>7 DEF Next, Done

(* To clients who keep apart, and without a failing disk, the server is    *)
(* the durable store: every handler with all its steps, the protocol of    *)
(* the append-only file, the loss of its end and its replay take effect as *)
(* one step of the abstract specification, or as none.                     *)
THEOREM ServerIsDurable ==
  ~IOErrors /\ OneContext /\ Apart => (Spec => ImplementsDurableStore)
<1> SUFFICES ASSUME ~IOErrors, OneContext, Apart PROVE Spec => ImplementsDurableStore
  OBVIOUS
<1>1. Init => DurableInvariant
  BY ReplayInit, FrameInit, IdInit DEF DurableInvariant, LogInv, Sound, Init
<1>2. DurableInvariant /\ [Next]_vars => DurableInvariant'
  BY ReplayNext, LogInvNext, SoundNext DEF DurableInvariant, LogInv, ReplayInv
<1>3. DurableInvariant /\ DurableInvariant' /\ [Next]_vars => [Durable!Next]_Durable!vars
  BY DurableSteps
<1> QED
  BY <1>1, <1>2, <1>3, DurableStarts, PTL DEF Spec, ImplementsDurableStore, Durable!Spec

-----------------------------------------------------------------------------
(* SETNX as a lock.  A command is harmless when its client was or will be  *)
(* answered and it removes nothing; once a command that is not was sent,   *)
(* RemovalSent holds for good.                                             *)
Removals == {"del", "rename", "renamenx", "flushdb"}

Harmless(n) ==
  \/ \E h \in answered : h.id = n /\ h.op \notin Removals
  \/ \E c \in Clients : Busy(c) /\ task[c].id = n /\ task[c].op \notin Removals

Calm == \A n \in 1 .. nextId - 1 : Harmless(n)

Winning(c) == Busy(c) /\ task[c].op = "setnx" /\ task[c].n = 1

(* While everything sent is harmless: nothing that removes a key was       *)
(* recorded; the key that somebody won, or is about to be told that he     *)
(* won, is set; and nobody else won it.                                    *)
RecordsKeep == \A i \in 1 .. Len(log) : log[i].op \notin Removals
WonKeys == \A h \in answered : Won(h) => h.db \in DBs /\ h.keys[1] \in Keys
WonSet == phase = "serving" => \A h \in answered : Won(h) => mem[h.db][h.keys[1]] # Nil
WinningSet == \A c \in Clients : Winning(c) => mem[sel[c]][task[c].keys[1]] # Nil
OneWinning == \A c, o \in Clients :
  Winning(c) /\ Winning(o) /\ sel[c] = sel[o] /\ task[c].keys = task[o].keys => c = o
WinningOrWon == \A c \in Clients : \A h \in answered :
  Winning(c) /\ Won(h) /\ h.db = sel[c] => h.keys # task[c].keys
OneWon == \A g, h \in answered :
  Won(g) /\ Won(h) /\ g.db = h.db /\ g.keys = h.keys => g = h

Lock == RecordsKeep /\ WonKeys /\ WonSet /\ WinningSet /\ OneWinning /\ WinningOrWon /\ OneWon

WinInv == ReplayInv /\ LogInv /\ DurableInv /\ (Calm => Lock)

LEMMA CalmBusy ==
  ASSUME LogInv, Calm, NEW c \in Clients, Busy(c)
  PROVE  task[c].op \notin Removals
<1>1. task[c].id \in 1 .. nextId - 1
  BY DEF LogInv, IdInv, TaskIds, Sent
<1>2. Harmless(task[c].id)
  BY <1>1 DEF Calm
<1>3. ~\E h \in answered : h.id = task[c].id
  BY DEF LogInv, IdInv, AnswerIds
<1>4. \A o \in Clients : Busy(o) /\ task[o].id = task[c].id => o = c
  BY DEF LogInv, IdInv, OwnIds
<1> QED
  BY <1>2, <1>3, <1>4 DEF Harmless

(* What a step does to the commands on their way.                          *)
Continues(c) ==
  /\ Busy(c) /\ pc'[c] # "idle"
  /\ task'[c].id = task[c].id /\ task'[c].op = task[c].op /\ task'[c].keys = task[c].keys
  /\ \A o \in Clients \ {c} : pc'[o] = pc[o] /\ task'[o] = task[o]
  /\ UNCHANGED <<sel, answered, nextId>>

Ends(c, r) ==
  /\ Busy(c) /\ Finish(c, r) /\ pc'[c] = "idle"
  /\ \A o \in Clients \ {c} : pc'[o] = pc[o] /\ task'[o] = task[o]
  /\ UNCHANGED <<sel, nextId>>

LEMMA DictShape ==
  ASSUME FrameInv, NEW c \in Clients, Dict(c)
  PROVE  Continues(c) \/ \E r : Ends(c, r) /\ ~Records(task[c].op, r)
<1>1. TypeInv /\ TaskCounted /\ TypeOK
  BY DEF FrameInv, TypeInv
<1>2. Frame(c) /\ UNCHANGED <<sel, nextId>> /\ Busy(c)
      /\ \A o \in Clients \ {c} : pc'[o] = pc[o] /\ task'[o] = task[o]
  BY <1>1, DictFrame, DictFacts DEF Busy
<1>3. CASE Moves(c)
  <2>1. PICK p \in Pcs \ (InAof \union {"idle"}), t \in Tasks :
          /\ Go(c, p, t) /\ t.id = task[c].id /\ t.op = task[c].op /\ t.keys = task[c].keys
    BY <1>3 DEF Moves
  <2>2. pc'[c] = p /\ task'[c] = t /\ p # "idle" /\ UNCHANGED answered
    BY <1>1, <1>3, <2>1, GoType DEF Moves
  <2> QED
    BY <1>2, <2>1, <2>2 DEF Continues
<1>4. CASE Refuses(c)
  <2>1. PICK r \in Replies : Finish(c, r) /\ ~Records(task[c].op, r)
    BY <1>4 DEF Refuses
  <2>2. pc'[c] = "idle"
    BY <1>1, <2>1, FinishType
  <2> QED
    BY <1>2, <2>1, <2>2 DEF Ends
<1> QED
  BY <1>2, <1>3, <1>4 DEF Frame

LEMMA AofShape ==
  ASSUME FrameInv, NEW c \in Clients, Aof(c)
  PROVE  \/ Continues(c) /\ task'[c] = task[c]
         \/ Ends(c, LoggedReply(task[c]))
<1>1. TypeInv /\ TypeOK
  BY DEF FrameInv, TypeInv
<1>2. UNCHANGED <<sel, nextId>> /\ Busy(c)
      /\ \A o \in Clients \ {c} : pc'[o] = pc[o] /\ task'[o] = task[o]
  BY AofFacts DEF Busy, InAof
<1>3. CASE AofLock(c) \/ AofSelect(c) \/ AofWrite(c)
  <2>1. UNCHANGED answered /\ \E p \in InAof : Go(c, p, task[c])
    BY <1>3 DEF AofLock, AofSelect, AofWrite, InAof
  <2>2. pc'[c] # "idle" /\ task'[c] = task[c]
    BY <1>1, <2>1 DEF Go, TypeOK, InAof
  <2> QED
    BY <1>2, <2>1, <2>2 DEF Continues
<1>4. CASE AofSync(c) \/ AofError(c)
  <2>1. Finish(c, LoggedReply(task[c]))
    BY <1>4 DEF AofSync, AofError
  <2>2. pc'[c] = "idle"
    BY <1>1, <2>1 DEF Finish, Go, TypeOK
  <2> QED
    BY <1>2, <2>1, <2>2 DEF Ends
<1> QED
  BY <1>3, <1>4 DEF Aof

(* A command that is not harmless is never taken back.                     *)
LEMMA CalmBefore ==
  ASSUME LogInv, [Next]_vars, Calm'
  PROVE  Calm
<1> SUFFICES ASSUME NEW n \in 1 .. nextId - 1 PROVE Harmless(n)
  BY DEF Calm
<1>1. /\ FrameInv /\ TypeOK /\ nextId \in Nat \ {0}
  BY DEF LogInv, FrameInv, TypeInv, TypeOK
<1>2. ASSUME UNCHANGED <<pc, task, answered, nextId>> PROVE Harmless(n)
  <2>1. Harmless(n)'
    BY <1>2 DEF Calm
  <2> QED
    BY <1>2, <2>1 DEF Harmless, Busy
<1>3. ASSUME NEW c \in Clients, Continues(c) PROVE Harmless(n)
  <2>1. Harmless(n)'
    BY <1>3 DEF Calm, Continues
  <2> QED
    BY <1>3, <2>1 DEF Harmless, Busy, Continues
<1>4. ASSUME NEW c \in Clients, NEW r, Ends(c, r) PROVE Harmless(n)
  <2>1. Harmless(n)'
    BY <1>4 DEF Calm, Ends
  <2>2. answered' = answered \union
          {[id |-> task[c].id, db |-> sel[c], op |-> task[c].op, keys |-> task[c].keys, reply |-> r]}
    BY <1>4 DEF Ends, Finish
  <2>3. \A h \in answered' : h \in answered \/ (h.id = task[c].id /\ h.op = task[c].op)
    BY <2>2
  <2> QED
    BY <1>4, <2>1, <2>3 DEF Harmless, Busy, Ends
<1>5. ASSUME NEW c \in Clients, Issue(c) PROVE Harmless(n)
  <2>1. PICK cmd \in Menu[c] :
          Go(c, "exec", [NoTask EXCEPT !.id = nextId, !.op = cmd.op, !.keys = cmd.keys])
    BY <1>5 DEF Issue
  <2>2. nextId' = nextId + 1 /\ answered' = answered /\ pc[c] = "idle"
    BY <1>5 DEF Issue
  <2>3. task'[c].id = nextId /\ \A o \in Clients \ {c} : pc'[o] = pc[o] /\ task'[o] = task[o]
    BY <1>1, <2>1 DEF Go, TypeOK, NoTask
  <2>4. n \in 1 .. nextId' - 1 /\ n # nextId
    BY <1>1, <2>2
  <2>5. Harmless(n)'
    BY <2>4 DEF Calm
  <2> QED
    BY <2>2, <2>3, <2>4, <2>5 DEF Harmless, Busy
<1>6. ASSUME Restart PROVE Harmless(n)
  <2>1. UNCHANGED <<answered, nextId>> /\ \A c \in Clients : pc'[c] = "idle"
    BY <1>6 DEF Restart
  <2>2. Harmless(n)'
    BY <2>1 DEF Calm
  <2> QED
    BY <2>1, <2>2 DEF Harmless, Busy
<1>7. ASSUME NEW c \in Clients, Dict(c) PROVE Harmless(n)
  BY <1>1, <1>3, <1>4, <1>7, DictShape
<1>8. ASSUME NEW c \in Clients, Aof(c) PROVE Harmless(n)
  BY <1>1, <1>3, <1>4, <1>8, AofShape
<1> QED
  BY <1>2, <1>5, <1>6, <1>7, <1>8
  DEF Next, Select, Load, LoadRecord, StartServing, ProcessCrash, PowerLoss, Done, conns, vars

(* Nobody was waiting when the process stopped.                            *)
LEMMA CalmIdle ==
  ASSUME LogInv, Restart, Calm', NEW c \in Clients
  PROVE  ~Busy(c)
<1> SUFFICES ASSUME Busy(c) PROVE FALSE
  OBVIOUS
<1>1. task[c].id \in 1 .. nextId - 1 /\ ~\E h \in answered : h.id = task[c].id
  BY DEF LogInv, IdInv, TaskIds, AnswerIds, Sent
<1>2. UNCHANGED <<answered, nextId>> /\ \A o \in Clients : pc'[o] = "idle"
  BY DEF Restart
<1>3. PICK i \in 1 .. nextId - 1 : i = task[c].id
  BY <1>1
<1>4. Harmless(i)'
  <2>1. \A n \in 1 .. nextId' - 1 : Harmless(n)'
    BY DEF Calm
  <2> QED
    BY <1>2, <2>1
<1> QED
  BY <1>1, <1>2, <1>3, <1>4 DEF Harmless, Busy

(* A key that some record of a prefix sets is set after the prefix, when   *)
(* no record of the file removes a key.                                    *)
Setters == {"set", "setnx", "getset"}

LEMMA SetInReplay ==
  ASSUME FrameInv, RestartFraming, RecordsKeep, LogInv,
         NEW i \in 1 .. Len(log), log[i].op \in Setters
  PROVE  Replay(Len(log))[log[i].db][log[i].keys[1]] # Nil
<1> DEFINE d == log[i].db
           k == log[i].keys[1]
<1>1. log \in Files /\ log \in Seq(LogRecords) /\ Len(log) \in Nat
  BY FileFacts
<1>2. d \in DBs /\ k \in Keys
  <2>1. log[i] \in LogRecords /\ WellFormed(log[i])
    BY <1>1 DEF Files
  <2>2. Len(log[i].keys) = 1 /\ log[i].keys \in Seq(Keys)
    BY <2>1 DEF WellFormed, Setters, LogRecords
  <2> QED
    BY <2>1, <2>2 DEF LogRecords
<1>3. ASSUME NEW n \in 1 .. Len(log)
      PROVE  /\ Replay(n - 1) \in [DBs -> Dicts]
             /\ Replay(n) = IF log[n].op = "select" THEN Replay(n - 1)
                            ELSE [Replay(n - 1) EXCEPT
                                    ![log[n].db] = After(log[n].op, log[n].keys, log[n].id, @)]
  BY <1>1, ReplayStep DEF RestartFraming, Replay
<1>4. ASSUME NEW n \in 1 .. Len(log)
      PROVE  /\ log[n].op \in Setters \union {"select"} /\ log[n].db \in DBs
             /\ log[n].op # "select" => log[n].id \in Nat \ {0}
  <2>1. log[n] \in LogRecords /\ log[n].op \notin Removals
    BY <1>1 DEF RecordsKeep
  <2>2. log[n].op # "select" => log[n].id \in Nat \ {0}
    BY DEF LogInv, IdInv, RecordIds, Sent
  <2> QED
    BY <2>1, <2>2 DEF LogRecords, Writers, Removals, Setters
<1> HIDE DEF d, k
<1>5. ASSUME NEW m \in Dicts, NEW op \in Setters, NEW ks, NEW v \in Nat \ {0}
      PROVE  /\ m[k] # Nil => After(op, ks, v, m)[k] # Nil
             /\ ks[1] = k => After(op, ks, v, m)[k] # Nil
  <2>1. \A a : Assign(m, a, v)[k] = IF k = a THEN v ELSE m[k]
    BY <1>2, AssignFacts
  <2>2. v # Nil
    BY DEF Nil
  <2>3. op \in {"set", "getset"} => After(op, ks, v, m) = Assign(m, ks[1], v)
    BY AfterTable
  <2>4. op = "setnx" => After(op, ks, v, m) = IF m[ks[1]] = Nil THEN Assign(m, ks[1], v) ELSE m
    BY AfterTable
  <2> QED
    BY <2>1, <2>2, <2>3, <2>4 DEF Setters
<1> DEFINE T == {n \in Nat : n \in i .. Len(log) => Replay(n)[d][k] # Nil}
<1>6. 0 \in T
  OBVIOUS
<1>7. ASSUME NEW n \in Nat, n \in T PROVE n + 1 \in T
  <2> SUFFICES ASSUME n + 1 \in i .. Len(log) PROVE Replay(n + 1)[d][k] # Nil
    OBVIOUS
  <2>1. n + 1 \in 1 .. Len(log) /\ (n + 1) - 1 = n
    BY <1>1
  <2>2. Replay(n) \in [DBs -> Dicts] /\ Replay(n)[d] \in Dicts
    BY <1>2, <1>3, <2>1
  <2>3. Replay(n + 1) = IF log[n + 1].op = "select" THEN Replay(n)
                        ELSE [Replay(n) EXCEPT ![log[n + 1].db] =
                                After(log[n + 1].op, log[n + 1].keys, log[n + 1].id, @)]
    BY <1>3, <2>1
  <2>4. CASE n + 1 = i
    <3>1. log[n + 1].op \in Setters /\ log[n + 1].db = d /\ log[n + 1].keys[1] = k
          /\ log[n + 1].id \in Nat \ {0} /\ log[n + 1].op # "select"
      BY <1>4, <2>4 DEF d, k, Setters
    <3>2. Replay(n + 1)[d] = After(log[n + 1].op, log[n + 1].keys, log[n + 1].id, Replay(n)[d])
      BY <1>2, <2>2, <2>3, <3>1
    <3> QED
      BY <1>5, <2>2, <3>1, <3>2
  <2>5. CASE n + 1 # i
    <3>1. Replay(n)[d][k] # Nil
      <4>1. n \in i .. Len(log)
        BY <1>1, <2>5
      <4> QED
        BY <1>7, <4>1
    <3>2. CASE log[n + 1].op = "select" \/ log[n + 1].db # d
      <4>1. Replay(n + 1)[d] = Replay(n)[d]
        BY <1>2, <2>2, <2>3, <3>2
      <4> QED
        BY <3>1, <4>1
    <3>3. CASE log[n + 1].op # "select" /\ log[n + 1].db = d
      <4>1. Replay(n + 1)[d] = After(log[n + 1].op, log[n + 1].keys, log[n + 1].id, Replay(n)[d])
        BY <1>2, <2>2, <2>3, <3>3
      <4>2. log[n + 1].op \in Setters /\ log[n + 1].id \in Nat \ {0}
        BY <1>4, <2>1, <3>3
      <4> QED
        BY <1>5, <2>2, <3>1, <4>1, <4>2
    <3> QED
      BY <3>2, <3>3
  <2> QED
    BY <2>4, <2>5
<1>8. T = Nat
  <2>1. T \in SUBSET Nat /\ \A n \in T : n + 1 \in T
    BY <1>7
  <2> HIDE DEF T
  <2> QED
    BY <1>6, <2>1, SetInduction
<1> QED
  BY <1>1, <1>8 DEF d, k

(* So the restarted server holds the keys that were won before.            *)
LEMMA WonLoaded ==
  ASSUME OneContext, ~IOErrors, ReplayInv, LogInv, AckedDurable, RecordsKeep,
         phase = "loading", pos = Len(log), NEW h \in answered, Won(h)
  PROVE  mem[h.db][h.keys[1]] # Nil
<1>1. FrameInv /\ RestartFraming /\ mem = Replay(Len(log)) /\ synced \in 0 .. Len(log)
      /\ Len(log) \in Nat
  BY WholeFraming, FileFacts DEF ReplayInv, Loaded
<1>2. Records(h.op, h.reply) /\ h.op = "setnx"
  BY DEF Won, Records, IntReply, Reply
<1>3. PICK i \in 1 .. synced : IsRecordOf(i, h)
  BY <1>2 DEF AckedDurable
<1>4. /\ i \in 1 .. Len(log) /\ log[i].op \in Setters
      /\ log[i].db = h.db /\ log[i].keys = h.keys
  BY <1>1, <1>2, <1>3 DEF IsRecordOf, Setters
<1>5. Replay(Len(log))[log[i].db][log[i].keys[1]] # Nil
  BY <1>1, <1>4, SetInReplay
<1> QED
  BY <1>1, <1>4, <1>5

(* What the handlers of commands that remove nothing do to memory.         *)
LEMMA KeepingWrites ==
  ASSUME FrameInv, NEW c \in Clients, Dict(c), task[c].op \notin Removals
  PROVE  mem' = mem \/ \E k : StoreTo(c, k, task[c].id)
<1>1. Counted(pc[c], task[c])
  BY DEF FrameInv, TaskCounted
<1>2. ~RemoveLoad(c) /\ ~RemoveDelete(c) /\ ~FlushEnd(c)
  BY <1>1 DEF RemoveLoad, RemoveDelete, FlushEnd, Runs, At, Counted, Removals
<1>3. Put(c) => StoreTo(c, Arg(c, 1), task[c].id)
  BY DEF Put, Removals
<1> QED
  BY <1>2, <1>3
  DEF Dict, ExecStateless, ExecGet, ExecExists, ExecKeys, ExecSet, ExecSetnx, ExecGetset,
      ExecRename, ExecRenamenx, RenamenxSource, FlushBegin, Panic, data

(* SETNX wins a key only where nobody has it.                              *)
LEMMA SetnxWins ==
  ASSUME FrameInv, NEW c \in Clients, Dict(c), task[c].op = "setnx", Winning(c)'
  PROVE  \/ /\ Stored(c, Arg(c, 1)) = Nil
            /\ StoreTo(c, Arg(c, 1), task[c].id) /\ task'[c].keys = task[c].keys
         \/ Winning(c) /\ task'[c] = task[c]
<1>1. TypeOK /\ Counted(pc[c], task[c])
  BY DEF FrameInv, TypeInv, TaskCounted
<1>2. CASE ExecSetnx(c)
  <2>1. CASE Stored(c, Arg(c, 1)) = Nil
    <3>1. StoreTo(c, Arg(c, 1), task[c].id) /\ task'[c] = [task[c] EXCEPT !.n = 1]
      BY <1>1, <1>2, <2>1 DEF ExecSetnx, Go, TypeOK
    <3>2. task'[c].keys = task[c].keys
      BY <1>1, <3>1 DEF TypeOK, Tasks
    <3> QED
      BY <2>1, <3>1, <3>2
  <2>2. CASE Stored(c, Arg(c, 1)) # Nil
    <3>1. task'[c] = task[c] /\ pc[c] = "exec"
      BY <1>1, <1>2, <2>2 DEF ExecSetnx, Go, TypeOK, Runs
    <3> QED
      BY <3>1 DEF Winning, Busy
  <2> QED
    BY <2>1, <2>2
<1>3. CASE Put(c)
  <2>1. task'[c] = task[c] /\ pc[c] = "put"
    BY <1>1, <1>3 DEF Put, Go, TypeOK, At
  <2> QED
    BY <2>1 DEF Winning, Busy
<1>4. CASE Panic(c)
  <2>1. pc'[c] = "idle"
    BY <1>1, <1>4 DEF Panic, Finish, Go, TypeOK
  <2> QED
    BY <2>1 DEF Winning, Busy
<1>5. pc[c] \notin {"source", "remove", "delete", "clear"}
  BY <1>1 DEF Counted, FrameInv, TypeInv, TaskFormed, Formed
<1>6. ExecSetnx(c) \/ Put(c) \/ Panic(c)
  BY <1>5
  DEF Dict, ExecStateless, ExecGet, ExecExists, ExecKeys, ExecSet, ExecGetset, ExecRename,
      ExecRenamenx, RenamenxSource, RemoveLoad, RemoveDelete, FlushBegin, FlushEnd, Runs, At,
      Stateless
<1> QED
  BY <1>2, <1>3, <1>4, <1>6

LEMMA WinningKey ==
  ASSUME FrameInv, NEW c \in Clients, Winning(c)
  PROVE  /\ sel[c] \in DBs /\ task[c].keys[1] \in Keys
         /\ Stored(c, Arg(c, 1)) = mem[sel[c]][task[c].keys[1]]
<1>1. 1 \in 1 .. Len(task[c].keys)
  BY FirstArg DEF Winning
<1> QED
  BY <1>1, ArgType DEF FrameInv, TypeInv, TypeOK, Stored, Arg

(* Lock in every step, as long as everything sent is harmless.             *)
LEMMA LockDict ==
  ASSUME FrameInv, FrameInv', LogInv, Calm, Lock, NEW c \in Clients, Dict(c)
  PROVE  Lock'
<1>1. /\ mem \in [DBs -> Dicts] /\ sel[c] \in DBs /\ phase = "serving" /\ Busy(c)
      /\ UNCHANGED <<log, phase, sel>>
      /\ \A o \in Clients \ {c} : pc'[o] = pc[o] /\ task'[o] = task[o]
  BY DictFacts DEF FrameInv, TypeInv, TypeOK, Busy
<1>2. task[c].op \notin Removals /\ task[c].id \in Nat \ {0}
  BY <1>1, CalmBusy DEF LogInv, IdInv, TaskIds, Sent
<1>3. ASSUME NEW d \in DBs, NEW k \in Keys, mem[d][k] # Nil PROVE mem'[d][k] # Nil
  <2>1. CASE mem' = mem
    BY <1>3, <2>1
  <2>2. ASSUME NEW j, StoreTo(c, j, task[c].id) PROVE mem'[d][k] # Nil
    <3>1. mem'[d] = IF d = sel[c] THEN Assign(mem[d], j, task[c].id) ELSE mem[d]
      BY <1>1, <2>2 DEF StoreTo
    <3>2. mem[d] \in Dicts
      BY <1>1
    <3> QED
      BY <1>2, <1>3, <3>1, <3>2, AssignFacts DEF Nil
  <2> QED
    BY <1>2, <2>1, <2>2, KeepingWrites
<1>4. \A h \in answered' : Won(h) => h \in answered
  <2>1. CASE Continues(c)
    BY <2>1 DEF Continues
  <2>2. ASSUME NEW r, Ends(c, r), ~Records(task[c].op, r), NEW h \in answered', Won(h)
        PROVE  h \in answered
    <3> SUFFICES ASSUME h \notin answered PROVE FALSE
      OBVIOUS
    <3>1. h.op = task[c].op /\ h.reply = r
      BY <2>2 DEF Ends, Finish
    <3>2. h.op = "setnx" /\ h.reply.kind = "int"
      BY <2>2 DEF Won, IntReply, Reply
    <3> QED
      BY <2>2, <3>1, <3>2 DEF Records
  <2> QED
    BY <2>1, <2>2, DictShape
<1>5. \A o \in Clients \ {c} : Winning(o)' => Winning(o) /\ task'[o] = task[o]
  BY <1>1 DEF Winning, Busy
<1>6. Winning(c)' =>
        \/ /\ mem[sel[c]][task[c].keys[1]] = Nil /\ task'[c].keys = task[c].keys
           /\ task[c].keys[1] \in Keys /\ mem'[sel[c]][task[c].keys[1]] # Nil
        \/ Winning(c) /\ task'[c] = task[c]
  <2> SUFFICES ASSUME Winning(c)', ~(Winning(c) /\ task'[c] = task[c])
               PROVE  /\ mem[sel[c]][task[c].keys[1]] = Nil /\ task'[c].keys = task[c].keys
                      /\ task[c].keys[1] \in Keys /\ mem'[sel[c]][task[c].keys[1]] # Nil
    OBVIOUS
  <2>1. task[c].op = "setnx"
    <3>1. pc'[c] # "idle" /\ task'[c].op = "setnx"
      BY DEF Winning, Busy
    <3> QED
      BY <3>1, DictShape DEF Continues, Ends
  <2>2. /\ Stored(c, Arg(c, 1)) = Nil
        /\ StoreTo(c, Arg(c, 1), task[c].id) /\ task'[c].keys = task[c].keys
    BY <2>1, SetnxWins
  <2>3. task[c].keys[1] \in Keys
    BY <2>1, FirstArg, ArgType DEF FrameInv, Arg
  <2>4. mem'[sel[c]] = Assign(mem[sel[c]], task[c].keys[1], task[c].id)
    BY <1>1, <2>2 DEF StoreTo, Arg
  <2>5. mem'[sel[c]][task[c].keys[1]] = task[c].id
    BY <1>1, <1>2, <2>3, <2>4, AssignFacts
  <2> QED
    BY <1>2, <2>2, <2>3, <2>5 DEF Stored, Arg, Nil
<1>7. RecordsKeep' /\ WonKeys' /\ WonSet' /\ OneWon'
  <2>1. RecordsKeep'
    BY <1>1 DEF Lock, RecordsKeep
  <2>2. WonKeys' /\ WonSet'
    BY <1>1, <1>3, <1>4 DEF Lock, WonKeys, WonSet
  <2>3. OneWon'
    BY <1>4 DEF Lock, OneWon
  <2> QED
    BY <2>1, <2>2, <2>3
<1>8. WinningSet'
  <2> SUFFICES ASSUME NEW o \in Clients, Winning(o)'
               PROVE  mem'[sel'[o]][task'[o].keys[1]] # Nil
    BY DEF WinningSet
  <2>1. CASE Winning(o) /\ task'[o] = task[o]
    BY <1>1, <1>3, <2>1, WinningKey DEF Lock, WinningSet
  <2> QED
    BY <1>1, <1>5, <1>6, <2>1
<1>9. OneWinning'
  <2> SUFFICES ASSUME NEW o \in Clients, NEW p \in Clients, Winning(o)', Winning(p)', o # p,
                      sel[o] = sel[p], task'[o].keys = task'[p].keys
               PROVE  FALSE
    BY <1>1 DEF OneWinning
  <2>1. CASE Winning(o) /\ task'[o] = task[o] /\ Winning(p) /\ task'[p] = task[p]
    BY <2>1 DEF Lock, OneWinning
  <2>2. \A q \in Clients \ {c} : Winning(q)' => mem[sel[q]][task'[q].keys[1]] # Nil
    BY <1>5 DEF Lock, WinningSet
  <2> QED
    BY <1>5, <1>6, <2>1, <2>2
<1>10. WinningOrWon'
  <2> SUFFICES ASSUME NEW o \in Clients, NEW h \in answered', Winning(o)', Won(h), h.db = sel[o],
                      h.keys = task'[o].keys
               PROVE  FALSE
    BY <1>1 DEF WinningOrWon
  <2>1. h \in answered /\ mem[h.db][h.keys[1]] # Nil
    BY <1>1, <1>4 DEF Lock, WonSet
  <2>2. CASE Winning(o) /\ task'[o] = task[o]
    BY <2>1, <2>2 DEF Lock, WinningOrWon
  <2> QED
    BY <1>5, <1>6, <2>1, <2>2
<1> QED
  BY <1>7, <1>8, <1>9, <1>10 DEF Lock

LEMMA LockAof ==
  ASSUME FrameInv, FrameInv', LogInv, Calm, Lock, NEW c \in Clients, Aof(c)
  PROVE  Lock'
<1>1. /\ UNCHANGED <<mem, phase, sel>> /\ phase = "serving" /\ Busy(c)
      /\ \A o \in Clients \ {c} : pc'[o] = pc[o] /\ task'[o] = task[o]
      /\ Len(log) \in Nat
  BY AofFacts, FileFacts DEF Busy, InAof
<1>2. task[c].op \notin Removals
  BY <1>1, CalmBusy
<1>3. RecordsKeep'
  <2>1. CASE AofSelect(c) \/ AofWrite(c)
    <3>1. /\ Len(log') = Len(log) + 1 /\ \A j \in 1 .. Len(log) : log'[j] = log[j]
          /\ log'[Len(log')] \in {SelectRecord(sel[c]), CommandRecord(task[c], sel[c])}
      BY <2>1, AppendFacts
    <3>2. log'[Len(log')].op \notin Removals
      BY <1>2, <3>1 DEF SelectRecord, CommandRecord, Removals
    <3>3. \A j \in 1 .. Len(log') : j \in 1 .. Len(log) \/ j = Len(log')
      BY <1>1, <3>1
    <3> QED
      BY <3>1, <3>2, <3>3 DEF Lock, RecordsKeep
  <2>2. CASE AofLock(c) \/ AofSync(c) \/ AofError(c)
    <3>1. log' = log
      BY <2>2 DEF AofLock, AofSync, AofError
    <3> QED
      BY <3>1 DEF Lock, RecordsKeep
  <2> QED
    BY <2>1, <2>2 DEF Aof
<1>4. CASE Continues(c) /\ task'[c] = task[c]
  <2>1. \A o \in Clients : (Winning(o)' <=> Winning(o)) /\ task'[o] = task[o]
    BY <1>1, <1>4 DEF Winning, Busy, Continues
  <2>2. answered' = answered
    BY <1>4 DEF Continues
  <2> QED
    BY <1>1, <1>3, <2>1, <2>2
    DEF Lock, WonKeys, WonSet, WinningSet, OneWinning, WinningOrWon, OneWon
<1>5. CASE Ends(c, LoggedReply(task[c]))
  <2>1. \A o \in Clients : Winning(o)' => Winning(o) /\ task'[o] = task[o] /\ o # c
    BY <1>1, <1>5 DEF Winning, Busy, Ends
  <2> DEFINE g == [id |-> task[c].id, db |-> sel[c], op |-> task[c].op,
                   keys |-> task[c].keys, reply |-> LoggedReply(task[c])]
  <2>2. answered' = answered \union {g}
    BY <1>5 DEF Ends, Finish
  <2>3. g.db = sel[c] /\ g.op = task[c].op /\ g.keys = task[c].keys
        /\ g.reply = LoggedReply(task[c])
    OBVIOUS
  <2> HIDE DEF g
  <2>4. Won(g) => Winning(c)
    <3> SUFFICES ASSUME Won(g) PROVE Winning(c)
      OBVIOUS
    <3>1. task[c].op = "setnx" /\ LoggedReply(task[c]) = IntReply(1)
      BY <2>3 DEF Won
    <3>2. LoggedReply(task[c]) = IntReply(task[c].n)
      BY <3>1 DEF LoggedReply
    <3>3. task[c].n = 1
      <4>1. IntReply(1).n = 1 /\ IntReply(task[c].n).n = task[c].n
        BY DEF IntReply, Reply
      <4> QED
        BY <3>1, <3>2, <4>1
    <3> QED
      BY <1>1, <3>1, <3>3 DEF Winning
  <2>5. \A h \in answered' : Won(h) => h \in answered \/ (h = g /\ Winning(c))
    BY <2>2, <2>4
  <2>6. WonKeys' /\ WonSet'
    BY <1>1, <2>3, <2>5, WinningKey DEF Lock, WonKeys, WonSet, WinningSet
  <2>7. WinningSet' /\ OneWinning'
    BY <1>1, <2>1 DEF Lock, WinningSet, OneWinning
  <2>8. WinningOrWon'
    BY <1>1, <2>1, <2>3, <2>5 DEF Lock, WinningOrWon, OneWinning
  <2>9. OneWon'
    <3> SUFFICES ASSUME NEW h \in answered', NEW i \in answered', Won(h), Won(i),
                        h.db = i.db, h.keys = i.keys
                 PROVE  h = i
      BY DEF OneWon
    <3>1. \A j \in answered : Winning(c) /\ Won(j) /\ j.db = g.db => j.keys # g.keys
      BY <2>3 DEF Lock, WinningOrWon
    <3>2. CASE h \in answered /\ i \in answered
      BY <3>2 DEF Lock, OneWon
    <3> QED
      BY <2>5, <3>1, <3>2
  <2> QED
    BY <1>3, <2>6, <2>7, <2>8, <2>9 DEF Lock
<1> QED
  BY <1>4, <1>5, AofShape

LEMMA LockRequest ==
  ASSUME FrameInv, FrameInv', Lock, NEW c \in Clients, Select(c) \/ Issue(c)
  PROVE  Lock'
<1>1. /\ UNCHANGED <<log, mem, phase, answered>> /\ pc[c] = "idle"
      /\ \A o \in Clients \ {c} : pc'[o] = pc[o] /\ task'[o] = task[o] /\ sel'[o] = sel[o]
  BY DEF Select, Issue, aof, boot, data, Go, FrameInv, TypeInv, TypeOK
<1>2. ~Winning(c)'
  <2>1. CASE Select(c)
    BY <1>1, <2>1 DEF Select, Winning, Busy
  <2>2. CASE Issue(c)
    <3>1. PICK cmd \in Menu[c] :
            Go(c, "exec", [NoTask EXCEPT !.id = nextId, !.op = cmd.op, !.keys = cmd.keys])
      BY <2>2 DEF Issue
    <3>2. task'[c].n = 0
      BY <3>1 DEF Go, NoTask, FrameInv, TypeInv, TypeOK
    <3> QED
      BY <3>2 DEF Winning
  <2> QED
    BY <2>1, <2>2
<1>3. \A o \in Clients : Winning(o)' => Winning(o) /\ task'[o] = task[o] /\ sel'[o] = sel[o]
  BY <1>1, <1>2 DEF Winning, Busy
<1> QED
  BY <1>1, <1>3
  DEF Lock, RecordsKeep, WonKeys, WonSet, WinningSet, OneWinning, WinningOrWon, OneWon

LEMMA LockBoot ==
  ASSUME FrameInv, Lock, UNCHANGED answered, \A c \in Clients : ~Winning(c)',
         Len(log') \in Nat, Len(log) \in Nat, Len(log') <= Len(log),
         \A j \in 1 .. Len(log') : log'[j] = log[j],
         phase' = "serving" => \A h \in answered : Won(h) => mem'[h.db][h.keys[1]] # Nil
  PROVE  Lock'
<1>1. RecordsKeep'
  BY DEF Lock, RecordsKeep
<1> QED
  BY <1>1 DEF Lock, WonKeys, WonSet, WinningSet, OneWinning, WinningOrWon, OneWon

LEMMA LockNext ==
  ASSUME OneContext, ~IOErrors, ReplayInv, ReplayInv', LogInv, DurableInv, Lock, Calm, Calm',
         [Next]_vars
  PROVE  Lock'
<1>1. FrameInv /\ FrameInv' /\ AckedDurable /\ Len(log) \in Nat
  BY FileFacts DEF ReplayInv, DurableInv
<1>2. ASSUME NEW c \in Clients, Select(c) \/ Issue(c) PROVE Lock'
  BY <1>1, <1>2, LockRequest
<1>3. ASSUME NEW c \in Clients, Dict(c) PROVE Lock'
  BY <1>1, <1>3, LockDict
<1>4. ASSUME NEW c \in Clients, Aof(c) PROVE Lock'
  BY <1>1, <1>4, LockAof
<1>5. CASE Load
  <2>1. UNCHANGED <<log, pc, task, answered>> /\ phase = "loading"
    BY <1>5 DEF Load, LoadRecord, StartServing, aof, conns
  <2>2. \A c \in Clients : ~Winning(c)'
    BY <1>1, <2>1 DEF FrameInv, Booting, Winning, Busy
  <2>3. CASE LoadRecord
    <3>1. phase' = "loading"
      BY <2>1, <2>3 DEF LoadRecord
    <3> QED
      BY <1>1, <2>1, <2>2, <3>1, LockBoot
  <2>4. CASE StartServing
    <3>1. pos = Len(log) /\ mem' = mem
      BY <2>4 DEF StartServing, data
    <3>2. \A h \in answered : Won(h) => mem'[h.db][h.keys[1]] # Nil
      BY <1>1, <2>1, <3>1, WonLoaded DEF Lock
    <3> QED
      BY <1>1, <2>1, <2>2, <3>2, LockBoot
  <2> QED
    BY <1>5, <2>3, <2>4 DEF Load
<1>6. CASE ProcessCrash \/ PowerLoss
  <2>1. /\ \A c \in Clients : pc'[c] = "idle"
        /\ phase' = "loading" /\ answered' = answered
    BY <1>6 DEF ProcessCrash, PowerLoss, Restart
  <2>2. \A c \in Clients : ~Winning(c)'
    BY <2>1 DEF Winning, Busy
  <2>3. Len(log') \in Nat /\ Len(log') <= Len(log) /\ \A j \in 1 .. Len(log') : log'[j] = log[j]
    <3>1. CASE ProcessCrash
      BY <1>1, <3>1 DEF ProcessCrash
    <3>2. CASE PowerLoss
      <4>1. PICK n \in synced .. Len(log) : log' = SubSeq(log, 1, n)
        BY <3>2 DEF PowerLoss
      <4>2. n \in 0 .. Len(log)
        BY <1>1, FileFacts
      <4>3. Len(log') = n /\ \A j \in 1 .. n : log'[j] = log[j]
        BY <1>1, <4>1, <4>2, PrefixFormed DEF FrameInv
      <4> QED
        BY <1>1, <4>2, <4>3
    <3> QED
      BY <1>6, <3>1, <3>2
  <2> QED
    BY <1>1, <2>1, <2>2, <2>3, LockBoot
<1>7. CASE UNCHANGED vars
  BY <1>7 DEF vars, Lock, RecordsKeep, WonKeys, WonSet, WinningSet, OneWinning, WinningOrWon,
              OneWon, Winning, Busy
<1> QED
  BY <1>2, <1>3, <1>4, <1>5, <1>6, <1>7 DEF Next, Done

LEMMA WinInit == Init => WinInv
<1> SUFFICES ASSUME Init PROVE WinInv
  OBVIOUS
<1>1. ReplayInv /\ FrameInv /\ IdInv
  BY ReplayInit, FrameInit, IdInit
<1>2. SyncWritten /\ AckedDurable
  BY DEF Init, SyncWritten, AckedDurable
<1>3. Lock
  BY DEF Init, Lock, RecordsKeep, WonKeys, WonSet, WinningSet, OneWinning, WinningOrWon, OneWon,
         Winning, Busy
<1> QED
  BY <1>1, <1>2, <1>3 DEF WinInv, LogInv, DurableInv

LEMMA WinNext == ~IOErrors /\ OneContext /\ WinInv /\ [Next]_vars => WinInv'
<1> SUFFICES ASSUME ~IOErrors, OneContext, WinInv, [Next]_vars PROVE WinInv'
  OBVIOUS
<1>1. ReplayInv' /\ LogInv' /\ DurableInv'
  BY ReplayNext, LogInvNext, DurableNext DEF WinInv
<1>2. ASSUME Calm' PROVE Lock'
  <2>1. Calm
    BY <1>2, CalmBefore DEF WinInv
  <2> QED
    BY <1>1, <1>2, <2>1, LockNext DEF WinInv
<1> QED
  BY <1>1, <1>2 DEF WinInv

(* While nobody sent a command that removes a key or was cut off, at most  *)
(* one client was told that its SETNX of a key won, over any number of     *)
(* restarts.  The disk must not fail: a winner whose record was lost is    *)
(* forgotten by the next run.                                              *)
THEOREM OneWinner ==
  ~IOErrors /\ OneContext => (Spec => []SetnxOneWinner)
<1> SUFFICES ASSUME ~IOErrors, OneContext PROVE Spec => []SetnxOneWinner
  OBVIOUS
<1>1. Init => WinInv
  BY WinInit
<1>2. WinInv /\ [Next]_vars => WinInv'
  BY WinNext
<1>3. WinInv => SetnxOneWinner
  <2> SUFFICES ASSUME WinInv, ~RemovalSent,
                      NEW g \in answered, NEW h \in answered, Won(g), Won(h),
                      g.db = h.db, g.keys = h.keys
               PROVE  g = h
    BY DEF SetnxOneWinner
  <2>1. ASSUME NEW n \in 1 .. nextId - 1 PROVE Harmless(n)
    BY DEF RemovalSent, Harmless, Removals
  <2>2. OneWon
    BY <2>1 DEF WinInv, Calm, Lock
  <2> QED
    BY <2>2 DEF OneWon
<1> QED
  BY <1>1, <1>2, <1>3, PTL DEF Spec
=============================================================================
