-------------------------- MODULE PeerClientProofs --------------------------
(***************************************************************************)
(* Proofs about PeerClient, for any callers, channels and connections: a   *)
(* request is in one place at a time, so its wait group is released once;  *)
(* it is written to one connection at most, so the peer runs it once at    *)
(* most; and Close leaves nothing behind but what callers gave up.         *)
(***************************************************************************)
EXTENDS PeerClient, TLAPS

Places == {"idle", "write", "dial", "queue", "panic"}

TypeInv ==
  /\ caller \in [Callers -> [st : {"idle", "offer", "wait"}, req : Nat]]
  /\ \A c \in Callers : caller[c].st # "idle" => caller[c].req \in Requests
  /\ pending \in Seq(Requests) /\ waiting \in Seq(Requests)
  /\ writer \in [st : Places, req : Nat, tries : Nat]
  /\ writer.st # "idle" => writer.req \in Requests
  /\ closing \in {"open", "stop", "conn", "closed"}
  /\ toPeer \in [Conns -> Seq(Requests)]
  /\ wg \in [Requests -> Int] /\ runs \in [Requests -> Nat]
  /\ result \in [Requests -> {"none", "reply", "failed", "timeout", "panic"}]
  /\ failed \subseteq Requests
  /\ nextReq \in Nat \ {0}

-----------------------------------------------------------------------------
(* Where a request is.                                                     *)

Has(s, q) == \E i \in 1 .. Len(s) : s[i] = q
Once(s)   == \A i, j \in 1 .. Len(s) : s[i] = s[j] => i = j

Offers(c, r) == caller[c].st = "offer" /\ caller[c].req = r
Holds(r)     == writer.st # "idle" /\ writer.req = r

Queued(r)    == Has(pending, r) \/ Holds(r) \/ Has(waiting, r)

(* Every caller has a request of its own, not answered yet. *)
OwnRequests ==
  /\ \A r \in Requests : r >= nextReq => result[r] = "none"
  /\ \A c \in Callers : caller[c].st # "idle" =>
       /\ caller[c].req < nextReq /\ result[caller[c].req] = "none"
       /\ \A d \in Callers : caller[d].st # "idle" /\ caller[d].req = caller[c].req => d = c

(* In one place only, and in that place only once. *)
OnePlace ==
  /\ \A i, j \in 1 .. Len(pending) : pending[i] = pending[j] => i = j
  /\ \A i, j \in 1 .. Len(waiting) : waiting[i] = waiting[j] => i = j
  /\ \A i \in 1 .. Len(pending), j \in 1 .. Len(waiting) : pending[i] # waiting[j]
  /\ \A i \in 1 .. Len(pending) : ~Holds(pending[i])
  /\ \A i \in 1 .. Len(waiting) : ~Holds(waiting[i])
  /\ \A c \in Callers, r \in Requests : Offers(c, r) => ~Queued(r)

(* A request that somebody will release has its wait group at 1. *)
Unreleased ==
  /\ \A r \in Requests : wg[r] \in {0, 1} /\ (r >= nextReq => wg[r] = 0)
  /\ \A r \in Requests : Queued(r) => r < nextReq /\ wg[r] = 1 /\ r \notin failed
  /\ \A c \in Callers : caller[c].st = "offer" =>
       wg[caller[c].req] = 1 /\ caller[c].req \notin failed
  /\ \A r \in failed : r < nextReq

PlaceInv == TypeInv /\ OwnRequests /\ OnePlace /\ Unreleased

-----------------------------------------------------------------------------
(* Requests on the wire.                                                   *)

Unwritten(r) ==
  \/ r >= nextReq \/ r \in failed
  \/ \E c \in Callers : Offers(c, r)
  \/ \E i \in 1 .. Len(pending) : pending[i] = r
  \/ writer.st \in {"write", "dial"} /\ writer.req = r

WireInv ==
  /\ \A k, l \in Conns : \A i \in 1 .. Len(toPeer[k]), j \in 1 .. Len(toPeer[l]) :
       toPeer[k][i] = toPeer[l][j] => k = l /\ i = j
  /\ \A k \in Conns : \A i \in 1 .. Len(toPeer[k]) : runs[toPeer[k][i]] = 0
  /\ \A r \in Requests : runs[r] \in {0, 1}
  /\ \A r \in Requests : Unwritten(r) =>
       runs[r] = 0 /\ \A k \in Conns : \A i \in 1 .. Len(toPeer[k]) : toPeer[k][i] # r

(* What is queued is waited for, or was given up; after Close has waited   *)
(* nobody waits.                                                           *)
Covered(r) ==
  result[r] = "timeout" \/ \E c \in Callers : caller[c].st = "wait" /\ caller[c].req = r

CloseInv ==
  /\ closing \in {"conn", "closed"} => \A c \in Callers : caller[c].st = "idle"
  /\ writer.st = "panic" => closing = "closed"
  /\ \A r \in Requests : Queued(r) => Covered(r)

-----------------------------------------------------------------------------
(* What the ends of a channel do.                                          *)

LEMMA AppendFacts ==
  ASSUME NEW S, NEW s \in Seq(S), NEW x \in S
  PROVE  /\ Append(s, x) \in Seq(S) /\ Len(s) \in Nat
         /\ Len(Append(s, x)) = Len(s) + 1 /\ Append(s, x)[Len(s) + 1] = x
         /\ \A i \in 1 .. Len(s) : Append(s, x)[i] = s[i]
OBVIOUS

(* What is appended comes once, when it was not there. *)
LEMMA AppendHas ==
  ASSUME NEW S, NEW s \in Seq(S), NEW x \in S
  PROVE  /\ \A q : Has(Append(s, x), q) <=> Has(s, q) \/ q = x
         /\ Once(s) /\ ~Has(s, x) => Once(Append(s, x))
<1> DEFINE t == Append(s, x)
           n == Len(s) + 1
<1>1. /\ Len(s) \in Nat /\ Len(t) = n /\ t[n] = x
      /\ \A i \in 1 .. Len(s) : t[i] = s[i]
  BY AppendFacts
<1>2. 1 .. n = 1 .. Len(s) \union {n} /\ n \in 1 .. n
  BY <1>1
<1> HIDE DEF t, n
<1>3. \A q : Has(t, q) <=> Has(s, q) \/ q = x
  <2> TAKE q
  <2>1. ASSUME NEW i \in 1 .. Len(t), t[i] = q PROVE Has(s, q) \/ q = x
    BY <1>1, <1>2, <2>1 DEF Has
  <2>2. ASSUME NEW i \in 1 .. Len(s), s[i] = q PROVE Has(t, q)
    BY <1>1, <1>2, <2>2 DEF Has
  <2>3. ASSUME q = x PROVE Has(t, q)
    BY <1>1, <1>2, <2>3 DEF Has
  <2> QED
    BY <2>1, <2>2, <2>3 DEF Has
<1>4. Once(s) /\ ~Has(s, x) => Once(t)
  BY <1>1, <1>2 DEF Once, Has
<1> QED
  BY <1>3, <1>4 DEF t

LEMMA TailFacts ==
  ASSUME NEW S, NEW s \in Seq(S), s # <<>>
  PROVE  /\ Tail(s) \in Seq(S) /\ Head(s) = s[1] /\ s[1] \in S
         /\ Len(s) \in Nat \ {0} /\ Len(Tail(s)) = Len(s) - 1
         /\ \A i \in 1 .. Len(Tail(s)) : Tail(s)[i] = s[i + 1]
OBVIOUS

-----------------------------------------------------------------------------
(* PlaceInv, action by action.                                             *)

LEMMA PlaceInit == Init => PlaceInv
<1> SUFFICES ASSUME Init PROVE PlaceInv
  OBVIOUS
<1> USE BoundsAssumption DEF Init, Free
<1>1. TypeInv
  BY DEF TypeInv, Places, Requests, Conns
<1>2. OwnRequests /\ OnePlace /\ Unreleased
  BY DEF OwnRequests, OnePlace, Unreleased, Queued, Has, Holds, Offers, Requests
<1> QED
  BY <1>1, <1>2 DEF PlaceInv

(* Whatever leaves the callers and the queues alone. *)
LEMMA PlaceKept ==
  ASSUME PlaceInv,
         UNCHANGED <<caller, pending, waiting, wg, failed, result, nextReq>>,
         writer' = writer \/ (writer' \in [st : Places, req : {writer.req}, tries : Nat]
                              /\ writer.st # "idle" /\ writer'.st # "idle"),
         closing' \in {"open", "stop", "conn", "closed"},
         toPeer' \in [Conns -> Seq(Requests)], runs' \in [Requests -> Nat]
  PROVE  PlaceInv'
<1> USE DEF PlaceInv
<1>1. TypeInv'
  BY DEF TypeInv, Places
<1>2. \A r : Holds(r)' <=> Holds(r)
  BY DEF Holds, TypeInv
<1>3. \A r : Queued(r)' <=> Queued(r)
  BY <1>2 DEF Queued, Has
<1>4. OwnRequests'
  BY DEF OwnRequests
<1>5. OnePlace'
  BY <1>2, <1>3 DEF OnePlace, Offers
<1>6. Unreleased'
  BY <1>3 DEF Unreleased
<1> QED
  BY <1>1, <1>4, <1>5, <1>6

LEMMA PlaceSend ==
  ASSUME PlaceInv, NEW c \in Callers, Send(c)
  PROVE  PlaceInv'
<1> USE DEF PlaceInv
<1>1. /\ caller[c].st = "idle" /\ nextReq <= MaxReqs /\ nextReq \in Requests
      /\ caller' = [caller EXCEPT ![c] = [st |-> "offer", req |-> nextReq]]
      /\ wg' = [wg EXCEPT ![nextReq] = 1] /\ nextReq' = nextReq + 1
      /\ UNCHANGED <<pending, waiting, writer, closing, toPeer, runs, result, failed>>
  BY BoundsAssumption DEF Send, TypeInv, Requests, queues, wire
<1>2. TypeInv'
  BY <1>1 DEF TypeInv
<1>3. \A r : Queued(r)' <=> Queued(r)
  BY <1>1 DEF Queued, Has, Holds
<1>4. ~Queued(nextReq) /\ nextReq \notin failed
  BY <1>1 DEF Unreleased, TypeInv
<1>5. OwnRequests'
  BY <1>1 DEF OwnRequests, TypeInv, Requests
<1>6. OnePlace'
  <2>1. \A r : Holds(r)' <=> Holds(r)
    BY <1>1 DEF Holds
  <2>2. \A d \in Callers, r \in Requests : Offers(d, r)' => Offers(d, r) \/ r = nextReq
    BY <1>1 DEF Offers, TypeInv
  <2> QED
    BY <1>1, <1>3, <1>4, <2>1, <2>2 DEF OnePlace
<1>7. Unreleased'
  BY <1>1, <1>3, <1>4 DEF Unreleased, TypeInv, OwnRequests, Requests
<1> QED
  BY <1>2, <1>5, <1>6, <1>7

(* A caller is answered, or panics, and its request stays where it is. *)
LEMMA PlaceAnswered ==
  ASSUME PlaceInv, NEW c \in Callers, caller[c].st # "idle",
         NEW what \in {"reply", "failed", "timeout", "panic"}, Answered(c, what)
  PROVE  PlaceInv'
<1> USE DEF PlaceInv
<1>1. /\ result' = [result EXCEPT ![caller[c].req] = what]
      /\ caller' = [caller EXCEPT ![c] = [st |-> "idle", req |-> 0]]
      /\ UNCHANGED <<pending, waiting, writer, closing, toPeer, runs, wg, failed, nextReq>>
  BY DEF Answered, queues, wire, request
<1>2. TypeInv'
  BY <1>1 DEF TypeInv
<1>3. \A r : (Queued(r)' <=> Queued(r)) /\ (Holds(r)' <=> Holds(r))
  BY <1>1 DEF Queued, Has, Holds
<1>4. \A d \in Callers : caller'[d].st # "idle" => d # c /\ caller'[d] = caller[d]
  BY <1>1 DEF TypeInv
<1>5. OwnRequests'
  BY <1>1, <1>4 DEF OwnRequests, TypeInv
<1>6. OnePlace'
  BY <1>1, <1>3, <1>4 DEF OnePlace, Offers
<1>7. Unreleased'
  BY <1>1, <1>3, <1>4 DEF Unreleased
<1> QED
  BY <1>2, <1>5, <1>6, <1>7

LEMMA PlaceOffer ==
  ASSUME PlaceInv, NEW c \in Callers, Offer(c)
  PROVE  PlaceInv'
<1> USE DEF PlaceInv
<1>1. CASE closing # "open"
  BY <1>1, PlaceAnswered DEF Offer
<1>2. CASE closing = "open"
  <2> DEFINE r == caller[c].req
             n == Len(pending) + 1
  <2>1. /\ caller[c].st = "offer" /\ r \in Requests
        /\ pending' = Append(pending, r) /\ caller' = [caller EXCEPT ![c].st = "wait"]
        /\ UNCHANGED <<waiting, writer, closing, toPeer, runs, wg, failed, result, nextReq>>
    BY <1>2 DEF Offer, wire, request, TypeInv
  <2>2. TypeInv'
    <3>1. pending' \in Seq(Requests)
      BY <2>1, AppendFacts DEF TypeInv
    <3>2. /\ caller' \in [Callers -> [st : {"idle", "offer", "wait"}, req : Nat]]
          /\ \A d \in Callers : caller'[d].st # "idle" => caller'[d].req \in Requests
      BY <2>1 DEF TypeInv
    <3> QED
      BY <2>1, <3>1, <3>2 DEF TypeInv
  <2>3. /\ Len(pending) \in Nat /\ Len(pending') = n /\ pending'[n] = r
        /\ \A i \in 1 .. Len(pending) : pending'[i] = pending[i]
    BY <2>1, AppendFacts DEF TypeInv
  <2>4. \A q : (Queued(q)' <=> Queued(q) \/ q = r) /\ (Holds(q)' <=> Holds(q))
    <3>1. \A q : Has(pending, q)' <=> Has(pending, q) \/ q = r
      BY <2>1, AppendHas DEF TypeInv
    <3> QED
      BY <2>1, <3>1 DEF Queued, Holds, Has
  <2>5. ~Queued(r)
    BY <2>1 DEF OnePlace, Offers
  <2>6. \A d \in Callers : /\ caller'[d].req = caller[d].req
                           /\ caller'[d].st = IF d = c THEN "wait" ELSE caller[d].st
    BY <2>1 DEF TypeInv
  <2>7. OwnRequests'
    BY <2>1, <2>6 DEF OwnRequests
  <2>8. OnePlace'
    <3>1. \A i, j \in 1 .. Len(pending') : pending'[i] = pending'[j] => i = j
      <4>1. Once(pending) /\ ~Has(pending, r)
        BY <2>5 DEF OnePlace, Queued, Once, Has
      <4>2. Once(pending')
        BY <2>1, <4>1, AppendHas DEF TypeInv
      <4> QED
        BY <4>2 DEF Once
    <3>2. \A i \in 1 .. Len(pending') : ~Holds(pending[i])'
      BY <2>1, <2>3, <2>4, <2>5 DEF OnePlace, Queued, Has, TypeInv
    <3>3. \A i \in 1 .. Len(pending'), j \in 1 .. Len(waiting) : pending'[i] # waiting[j]
      BY <2>1, <2>3, <2>5 DEF OnePlace, Queued, Has, TypeInv
    <3>4. \A d \in Callers, q \in Requests : Offers(d, q)' => Offers(d, q) /\ q # r
      BY <2>1, <2>6 DEF Offers, OwnRequests
    <3> QED
      BY <2>1, <2>4, <3>1, <3>2, <3>3, <3>4 DEF OnePlace
  <2>9. Unreleased'
    BY <2>1, <2>4, <2>6 DEF Unreleased, OwnRequests, TypeInv
  <2> QED
    BY <2>2, <2>7, <2>8, <2>9
<1> QED
  BY <1>1, <1>2

LEMMA PlaceTake ==
  ASSUME PlaceInv, Take
  PROVE  PlaceInv'
<1> USE DEF PlaceInv
<1> DEFINE r == Head(pending)
<1>1. /\ writer.st = "idle" /\ pending # <<>> /\ r \in Requests /\ r = pending[1]
      /\ writer' = [st |-> "write", req |-> r, tries |-> 0] /\ pending' = Tail(pending)
      /\ UNCHANGED <<caller, waiting, closing, toPeer, runs, wg, failed, result, nextReq>>
  BY DEF Take, TypeInv, calls, wire, request
<1>2. TypeInv'
  <2>1. pending' \in Seq(Requests)
    BY <1>1, TailFacts DEF TypeInv
  <2>2. writer' \in [st : Places, req : Nat, tries : Nat]
    BY <1>1 DEF TypeInv, Places, Requests
  <2> QED
    BY <1>1, <2>1, <2>2 DEF TypeInv
<1>3. /\ Len(pending) \in Nat \ {0} /\ Len(pending') = Len(pending) - 1
      /\ \A i \in 1 .. Len(pending') : pending'[i] = pending[i + 1]
  BY <1>1, TailFacts DEF TypeInv
<1>4. \A q : Holds(q)' <=> q = r
  BY <1>1 DEF Holds
<1>5. \A q : Queued(q)' => Queued(q)
  BY <1>1, <1>3, <1>4 DEF Queued, Has
<1>6. OwnRequests'
  BY <1>1 DEF OwnRequests
<1>7. OnePlace'
  <2>1. \A i, j \in 1 .. Len(pending') : pending'[i] = pending'[j] => i = j
    BY <1>3 DEF OnePlace
  <2>2. \A i \in 1 .. Len(pending') : ~Holds(pending[i])'
    BY <1>1, <1>3, <1>4 DEF OnePlace
  <2>3. \A i \in 1 .. Len(waiting) : ~Holds(waiting[i])'
    BY <1>1, <1>3, <1>4 DEF OnePlace
  <2>4. \A i \in 1 .. Len(pending'), j \in 1 .. Len(waiting) : pending'[i] # waiting[j]
    BY <1>1, <1>3 DEF OnePlace
  <2> QED
    BY <1>1, <1>5, <2>1, <2>2, <2>3, <2>4 DEF OnePlace, Offers
<1>8. Unreleased'
  BY <1>1, <1>5 DEF Unreleased
<1> QED
  BY <1>2, <1>6, <1>7, <1>8

LEMMA PlaceFail ==
  ASSUME PlaceInv, writer.st # "idle", Fail, closing' = closing,
         UNCHANGED <<caller, pending, waiting, toPeer, runs, result, nextReq>>
  PROVE  PlaceInv'
<1> USE DEF PlaceInv
<1> DEFINE r == writer.req
<1>1. /\ r \in Requests /\ failed' = failed \union {r} /\ wg' = [wg EXCEPT ![r] = @ - 1]
      /\ writer' = [st |-> "idle", req |-> 0, tries |-> 0]
  BY DEF Fail, Free, TypeInv
<1>2. TypeInv'
  BY <1>1 DEF TypeInv, Places
<1>3. \A q : ~Holds(q)'
  BY <1>1 DEF Holds
<1>4. \A q : Queued(q)' => Queued(q) /\ q # r
  BY <1>1, <1>3 DEF Queued, Has, OnePlace, Holds
<1>5. Queued(r) /\ \A c \in Callers : caller[c].st = "offer" => caller[c].req # r
  BY <1>1 DEF Queued, Has, Holds, OnePlace, Offers, TypeInv
<1>6. OwnRequests'
  BY DEF OwnRequests
<1>7. OnePlace'
  BY <1>3, <1>4 DEF OnePlace, Offers
<1>8. Unreleased'
  BY <1>1, <1>4, <1>5 DEF Unreleased, TypeInv
<1> QED
  BY <1>2, <1>6, <1>7, <1>8

LEMMA PlaceQueue ==
  ASSUME PlaceInv, Queue
  PROVE  PlaceInv'
<1> USE DEF PlaceInv
<1>0. UNCHANGED <<caller, pending, closing, toPeer, runs, wg, failed, result, nextReq>>
  BY DEF Queue, calls, wire, request
<1>1. CASE closing = "closed"
  <2>1. /\ waiting' = waiting /\ writer' = [writer EXCEPT !.st = "panic"]
        /\ writer.st = "queue"
    BY <1>1 DEF Queue
  <2> QED
    BY <1>0, <2>1, PlaceKept DEF TypeInv, Places
<1>2. CASE closing # "closed"
  <2> DEFINE r == writer.req
             n == Len(waiting) + 1
  <2>1. /\ writer.st = "queue" /\ r \in Requests /\ waiting' = Append(waiting, r)
        /\ writer' = [st |-> "idle", req |-> 0, tries |-> 0]
    BY <1>2 DEF Queue, Free, TypeInv
  <2>2. TypeInv'
    BY <1>0, <2>1 DEF TypeInv, Places
  <2>3. /\ Len(waiting) \in Nat /\ Len(waiting') = n /\ waiting'[n] = r
        /\ \A i \in 1 .. Len(waiting) : waiting'[i] = waiting[i]
    BY <2>1, AppendFacts DEF TypeInv
  <2>4. Holds(r) /\ \A q : ~Holds(q)'
    BY <2>1 DEF Holds
  <2>5. \A q : Queued(q)' => Queued(q)
    <3>1. \A q : Has(waiting, q)' <=> Has(waiting, q) \/ q = r
      BY <2>1, AppendHas DEF TypeInv
    <3> QED
      BY <1>0, <2>4, <3>1 DEF Queued, Has
  <2>6. OwnRequests'
    BY <1>0 DEF OwnRequests
  <2>7. OnePlace'
    <3>1. \A i, j \in 1 .. Len(waiting') : waiting'[i] = waiting'[j] => i = j
      <4>1. Once(waiting) /\ ~Has(waiting, r)
        BY <2>4 DEF OnePlace, Once, Has
      <4>2. Once(waiting')
        BY <2>1, <4>1, AppendHas DEF TypeInv
      <4> QED
        BY <4>2 DEF Once
    <3>2. \A i \in 1 .. Len(pending) : pending[i] # r
      BY <2>4 DEF OnePlace
    <3>3. \A i \in 1 .. Len(pending), j \in 1 .. Len(waiting') : pending[i] # waiting'[j]
      <4>1. \A q : Has(waiting, q)' <=> Has(waiting, q) \/ q = r
        BY <2>1, AppendHas DEF TypeInv
      <4>2. \A i \in 1 .. Len(pending) : ~Has(waiting, pending[i])
        BY DEF OnePlace, Has
      <4>3. \A i \in 1 .. Len(pending) : ~Has(waiting', pending[i])
        BY <3>2, <4>1, <4>2
      <4> QED
        BY <4>3 DEF Has
    <3> QED
      BY <1>0, <2>4, <2>5, <3>1, <3>3 DEF OnePlace, Offers
  <2>8. Unreleased'
    BY <1>0, <2>5 DEF Unreleased
  <2> QED
    BY <2>2, <2>6, <2>7, <2>8
<1> QED
  BY <1>1, <1>2

LEMMA PlaceHand ==
  ASSUME PlaceInv, NEW k \in Conns, Hand(k)
  PROVE  PlaceInv'
<1> USE DEF PlaceInv
<1>0. UNCHANGED <<caller, pending, writer, closing, toPeer, runs, failed, result, nextReq>>
  BY DEF Hand, calls, wire
<1>1. CASE UNCHANGED <<wg, waiting>>
  BY <1>0, <1>1, PlaceKept DEF TypeInv
<1>2. CASE ~UNCHANGED <<wg, waiting>>
  <2> DEFINE r == Head(waiting)
  <2>1. /\ waiting # <<>> /\ r \in Requests /\ r = waiting[1]
        /\ wg' = [wg EXCEPT ![r] = @ - 1] /\ waiting' = Tail(waiting)
    BY <1>2, SMTT(60) DEF Hand, TypeInv
  <2>2. TypeInv'
    BY <1>0, <2>1 DEF TypeInv
  <2>3. /\ Len(waiting) \in Nat \ {0} /\ Len(waiting') = Len(waiting) - 1
        /\ \A i \in 1 .. Len(waiting') : waiting'[i] = waiting[i + 1]
    BY <2>1, TailFacts DEF TypeInv
  <2>4. \A q : Holds(q)' <=> Holds(q)
    BY <1>0 DEF Holds
  <2>5. \A i \in 1 .. Len(waiting') : waiting'[i] # r
    BY <2>1, <2>3 DEF OnePlace
  <2>6. Queued(r) /\ \A q : Queued(q)' => Queued(q) /\ q # r
    BY <1>0, <2>1, <2>3, <2>4, <2>5 DEF Queued, Has, OnePlace
  <2>7. \A c \in Callers : caller[c].st = "offer" => caller[c].req # r
    BY <2>1, <2>6 DEF OnePlace, Offers
  <2>8. OwnRequests'
    BY <1>0 DEF OwnRequests
  <2>9. OnePlace'
    <3>1. \A i, j \in 1 .. Len(waiting') : waiting'[i] = waiting'[j] => i = j
      BY <2>3 DEF OnePlace
    <3>2. \A i \in 1 .. Len(waiting') : ~Holds(waiting[i])'
      BY <2>3, <2>4 DEF OnePlace
    <3>3. \A i \in 1 .. Len(pending), j \in 1 .. Len(waiting') : pending[i] # waiting'[j]
      BY <2>3 DEF OnePlace
    <3> QED
      BY <1>0, <2>4, <2>6, <3>1, <3>2, <3>3 DEF OnePlace, Offers
  <2>10. Unreleased'
    BY <1>0, <2>1, <2>6, <2>7 DEF Unreleased, TypeInv
  <2> QED
    BY <2>2, <2>8, <2>9, <2>10
<1> QED
  BY <1>1, <1>2

LEMMA PlaceStep == PlaceInv /\ [Next]_vars => PlaceInv'
<1> SUFFICES ASSUME PlaceInv, [Next]_vars PROVE PlaceInv'
  OBVIOUS
<1>0. TypeInv
  BY DEF PlaceInv
<1>1. ASSUME NEW c \in Callers, Leave(c) PROVE PlaceInv'
  <2>1. caller[c].st # "idle" /\ \E what \in {"reply", "failed", "timeout", "panic"} : Answered(c, what)
    BY <1>1 DEF Leave, Return, TimeOut
  <2> QED
    BY <2>1, PlaceAnswered
<1>2. ASSUME writer.st # "idle", closing' = closing, toPeer' = toPeer, runs' = runs,
             UNCHANGED <<caller, pending, waiting, result, nextReq>>,
             NEW tries \in Nat, RepairOrFail(tries)
      PROVE  PlaceInv'
  <2>1. CASE tries < MaxTries
    <3>1. /\ writer' = [writer EXCEPT !.st = "dial", !.tries = tries]
          /\ UNCHANGED <<wg, failed>>
      BY <1>2, <2>1 DEF RepairOrFail
    <3>2. /\ writer' \in [st : Places, req : Nat, tries : Nat]
          /\ writer'.st = "dial" /\ writer'.req = writer.req
      BY <1>0, <1>2, <3>1 DEF TypeInv, Places
    <3> QED
      BY <1>0, <1>2, <3>1, <3>2, PlaceKept DEF TypeInv
  <2>2. CASE ~(tries < MaxTries)
    BY <1>2, <2>2, PlaceFail DEF RepairOrFail
  <2> QED
    BY <2>1, <2>2
<1>3. ASSUME Writing PROVE PlaceInv'
  <2>1. CASE WriteSucceeds
    <3>1. writer.req \in Requests /\ writer' = [writer EXCEPT !.st = "queue"]
      BY <1>0, <2>1 DEF WriteSucceeds, TypeInv
    <3>2. writer' \in [st : Places, req : {writer.req}, tries : Nat] /\ writer'.st # "idle"
      BY <1>0, <3>1 DEF TypeInv, Places
    <3>3. \A k \in Conns : Append(toPeer[k], writer.req) \in Seq(Requests)
      BY <1>0, <3>1, AppendFacts DEF TypeInv
    <3>4. toPeer' \in [Conns -> Seq(Requests)]
      BY <1>0, <2>1, <3>3 DEF WriteSucceeds, TypeInv
    <3> QED
      BY <1>0, <2>1, <3>2, <3>4, PlaceKept DEF WriteSucceeds, TypeInv, calls, queues, request
  <2>2. CASE WriteFails
    BY <1>0, <1>2, <2>2 DEF WriteFails, TypeInv, calls, queues, wire
  <2>3. CASE Redial
    <3>1. writer' = [st |-> "write", req |-> writer.req, tries |-> writer.tries + 1]
      BY <1>0, <2>3 DEF Redial, TypeInv
    <3>2. writer' \in [st : Places, req : {writer.req}, tries : Nat] /\ writer'.st # "idle"
      BY <1>0, <3>1 DEF TypeInv, Places
    <3> QED
      BY <1>0, <2>3, <3>2, PlaceKept DEF Redial, TypeInv, calls, queues, request
  <2>4. CASE DialFails
    BY <1>0, <1>2, <2>4 DEF DialFails, TypeInv, calls, queues
  <2> QED
    BY <1>3, <2>1, <2>2, <2>3, <2>4, PlaceTake, PlaceQueue DEF Writing
<1>4. ASSUME Closing PROVE PlaceInv'
  <2>1. CloseStart => PlaceInv'
    BY <1>0, PlaceKept DEF CloseStart, TypeInv, calls, queues, wire, request
  <2>2. CloseWaited => PlaceInv'
    BY <1>0, PlaceKept DEF CloseWaited, CloseConnection, TypeInv, calls, queues, request
  <2>3. CloseEnd => PlaceInv'
    BY <1>0, PlaceKept DEF CloseEnd, TypeInv, calls, queues, wire, request
  <2> QED
    BY <1>4, <2>1, <2>2, <2>3 DEF Closing
<1>5. ASSUME NEW k \in Conns, Read(k) \/ Misread(k) \/ ReadFails(k) \/ Break(k) PROVE PlaceInv'
  BY <1>0, <1>5, PlaceKept DEF Read, Misread, ReadFails, Break, TypeInv, calls, queues, wire, request
<1>6. ASSUME NEW k \in Conns, Serve(k) PROVE PlaceInv'
  <2>1. toPeer[k] \in Seq(Requests) /\ toPeer[k] # <<>> /\ toPeer' = [toPeer EXCEPT ![k] = Tail(@)]
    BY <1>0, <1>6 DEF Serve, TypeInv
  <2>2. /\ toPeer' \in [Conns -> Seq(Requests)]
        /\ Head(toPeer[k]) \in Requests
    BY <1>0, <2>1, TailFacts DEF TypeInv
  <2>3. runs' \in [Requests -> Nat]
    BY <1>0, <1>6, <2>2 DEF Serve, TypeInv
  <2> QED
    BY <1>0, <1>6, <2>2, <2>3, PlaceKept DEF Serve, TypeInv, calls, queues, request
<1>7. CASE UNCHANGED vars
  BY <1>0, <1>7, PlaceKept DEF vars, TypeInv
<1> QED
  BY <1>1, <1>3, <1>4, <1>5, <1>6, <1>7, PlaceSend, PlaceOffer, PlaceHand DEF Next, Done, Reading

LEMMA PlaceAlways == Spec => []PlaceInv
<1> QED
  BY PlaceInit, PlaceStep, PTL DEF Spec

(* The wait group of a request is released once for each time it was       *)
(* raised, whoever gives up meanwhile and however often the writer dials   *)
(* (client.go:96-98, 169-187).                                             *)
THEOREM ReleasedOnce == Spec => []DoneOnce
<1>1. PlaceInv => DoneOnce
  BY DEF PlaceInv, Unreleased, DoneOnce
<1> QED
  BY <1>1, PlaceAlways, PTL

-----------------------------------------------------------------------------
(* WireInv: nothing returns to where it has not been written yet.          *)

LEMMA WireInit == Init => WireInv
BY DEF Init, WireInv, Requests, Conns

LEMMA WireKept ==
  ASSUME WireInv, UNCHANGED <<toPeer, runs>>,
         \A r \in Requests : Unwritten(r)' => Unwritten(r)
  PROVE  WireInv'
BY DEF WireInv

LEMMA UnwrittenStep ==
  ASSUME PlaceInv, Next
  PROVE  \A r \in Requests : Unwritten(r)' => Unwritten(r)
<1>0. TypeInv
  BY DEF PlaceInv
<1>1. ASSUME NEW c \in Callers, Send(c), NEW r \in Requests, Unwritten(r)' PROVE Unwritten(r)
  <2>1. \A d \in Callers : Offers(d, r)' => Offers(d, r) \/ r = nextReq
    BY <1>0, <1>1 DEF Send, Offers, TypeInv
  <2> QED
    BY <1>0, <1>1, <2>1 DEF Send, Unwritten, queues, TypeInv, Requests
<1>2. ASSUME NEW c \in Callers, caller[c].st # "idle", NEW what, Answered(c, what),
             NEW r \in Requests, Unwritten(r)'
      PROVE  Unwritten(r)
  <2>1. \A d \in Callers : Offers(d, r)' => Offers(d, r)
    BY <1>0, <1>2 DEF Answered, Offers, TypeInv
  <2> QED
    BY <1>2, <2>1 DEF Answered, Unwritten, queues, request
<1>3. ASSUME NEW c \in Callers, Offer(c), NEW r \in Requests, Unwritten(r)' PROVE Unwritten(r)
  <2>1. CASE closing # "open"
    BY <1>2, <1>3, <2>1 DEF Offer
  <2>2. CASE closing = "open"
    <3>1. /\ Offers(c, caller[c].req) /\ caller[c].req \in Requests
          /\ pending' = Append(pending, caller[c].req)
          /\ caller' = [caller EXCEPT ![c].st = "wait"] /\ UNCHANGED <<writer, failed, nextReq>>
      BY <1>0, <1>3, <2>2 DEF Offer, Offers, TypeInv, request
    <3>2. \A q : Has(pending, q)' <=> Has(pending, q) \/ q = caller[c].req
      BY <1>0, <3>1, AppendHas DEF TypeInv
    <3>3. \A d \in Callers : Offers(d, r)' => Offers(d, r)
      BY <1>0, <3>1 DEF Offers, TypeInv
    <3> QED
      BY <1>3, <3>1, <3>2, <3>3 DEF Unwritten, Has
  <2> QED
    BY <2>1, <2>2
<1>4. ASSUME Take, NEW r \in Requests, Unwritten(r)' PROVE Unwritten(r)
  <2>1. /\ pending # <<>> /\ Head(pending) = pending[1] /\ Len(pending) \in Nat \ {0}
        /\ Len(pending') = Len(pending) - 1
        /\ \A i \in 1 .. Len(pending') : pending'[i] = pending[i + 1]
    BY <1>0, <1>4, TailFacts DEF Take, TypeInv
  <2>2. Has(pending, r)' \/ r = Head(pending) => Has(pending, r)
    BY <2>1 DEF Has
  <2>3. writer'.req = Head(pending) /\ UNCHANGED <<caller, failed, nextReq>>
    BY <1>4 DEF Take, calls, request
  <2> QED
    BY <1>4, <2>2, <2>3 DEF Unwritten, Has, Offers
<1>5. ASSUME writer.st \in {"write", "dial"}, UNCHANGED <<caller, pending, nextReq>>,
             NEW tries, RepairOrFail(tries), NEW r \in Requests, Unwritten(r)'
      PROVE  Unwritten(r)
  <2>1. CASE tries < MaxTries
    <3>1. writer'.st = "dial" /\ writer'.req = writer.req /\ UNCHANGED failed
      BY <1>0, <1>5, <2>1 DEF RepairOrFail, TypeInv
    <3> QED
      BY <1>5, <3>1 DEF Unwritten, Offers
  <2>2. CASE ~(tries < MaxTries)
    <3>1. writer'.st = "idle" /\ failed' = failed \union {writer.req}
      BY <1>5, <2>2 DEF RepairOrFail, Fail, Free
    <3> QED
      BY <1>5, <3>1 DEF Unwritten, Offers
  <2> QED
    BY <2>1, <2>2
<1>6. ASSUME WriteSucceeds \/ Redial \/ Queue, NEW r \in Requests, Unwritten(r)' PROVE Unwritten(r)
  <2>1. UNCHANGED <<caller, pending, failed, nextReq>>
    BY <1>6 DEF WriteSucceeds, Redial, Queue, calls, queues, request
  <2>2. writer'.st \in {"write", "dial"} => writer.st = "dial" /\ writer'.req = writer.req
    <3>1. WriteSucceeds => writer'.st = "queue"
      BY <1>0 DEF WriteSucceeds, TypeInv
    <3>2. Redial => writer.st = "dial" /\ writer'.req = writer.req
      BY <1>0 DEF Redial, TypeInv
    <3>3. Queue => writer'.st \in {"idle", "panic"}
      BY <1>0 DEF Queue, Free, TypeInv
    <3> QED
      BY <1>6, <3>1, <3>2, <3>3
  <2> QED
    BY <1>6, <2>1, <2>2 DEF Unwritten, Offers
<1>7. ASSUME WriteFails \/ DialFails, NEW r \in Requests, Unwritten(r)' PROVE Unwritten(r)
  BY <1>5, <1>7 DEF WriteFails, DialFails, calls, queues
<1>8. ASSUME UNCHANGED <<caller, pending, writer, failed, nextReq>>, NEW r \in Requests, Unwritten(r)'
      PROVE  Unwritten(r)
  BY <1>8 DEF Unwritten, Offers
<1>9. ASSUME NEW k \in Conns, Reading(k) \/ Serve(k) \/ Break(k), NEW r \in Requests, Unwritten(r)'
      PROVE  Unwritten(r)
  BY <1>8, <1>9 DEF Reading, Read, Misread, ReadFails, Hand, Serve, Break, calls, queues, request
<1>10. ASSUME Closing \/ Done, NEW r \in Requests, Unwritten(r)' PROVE Unwritten(r)
  BY <1>8, <1>10 DEF Closing, CloseStart, CloseWaited, CloseConnection, CloseEnd, Done, vars,
                     calls, queues, request
<1>11. ASSUME NEW c \in Callers, Leave(c), NEW r \in Requests, Unwritten(r)' PROVE Unwritten(r)
  BY <1>2, <1>11 DEF Leave, Return, TimeOut
<1> QED
  BY <1>1, <1>3, <1>4, <1>6, <1>7, <1>9, <1>10, <1>11 DEF Next, Writing

LEMMA WireWrite ==
  ASSUME PlaceInv, WireInv, WriteSucceeds
  PROVE  WireInv'
<1>0. TypeInv
  BY DEF PlaceInv
<1>1. /\ \A r \in Requests : Unwritten(r)' => Unwritten(r)
      /\ runs' = runs
  BY UnwrittenStep DEF Next, Writing, WriteSucceeds
<1>2. CASE toPeer' = toPeer
  BY <1>1, <1>2, WireKept
<1>3. CASE toPeer' # toPeer
  <2> DEFINE r == writer.req
             n == Len(toPeer[conn]) + 1
  <2>1. /\ conn \in Conns /\ r \in Requests /\ writer.st = "write"
        /\ toPeer' = [toPeer EXCEPT ![conn] = Append(toPeer[conn], r)]
        /\ writer' = [writer EXCEPT !.st = "queue"]
        /\ UNCHANGED <<caller, pending, failed, nextReq>>
    BY <1>0, <1>3 DEF WriteSucceeds, TypeInv, calls, queues, request
  <2>2. Unwritten(r) /\ Holds(r)
    BY <2>1 DEF Unwritten, Holds
  <2>3. \A q : q = r => ~Unwritten(q)'
    <3>1. Queued(r)
      BY <2>2 DEF Queued, Has
    <3>2. r < nextReq /\ r \notin failed /\ \A c \in Callers : ~Offers(c, r)
      BY <2>1, <3>1 DEF PlaceInv, Unreleased, OnePlace
    <3>3. \A i \in 1 .. Len(pending) : pending[i] # r
      BY <2>2 DEF PlaceInv, OnePlace
    <3>4. r \in Nat /\ nextReq \in Nat
      BY <1>0, <2>1 DEF TypeInv, Requests
    <3>5. writer'.st = "queue"
      BY <1>0, <2>1 DEF TypeInv
    <3> QED
      BY <2>1, <3>2, <3>3, <3>4, <3>5 DEF Unwritten, Offers
  <2>4. /\ Len(toPeer[conn]) \in Nat /\ Len(toPeer'[conn]) = n /\ toPeer'[conn][n] = r
        /\ \A i \in 1 .. Len(toPeer[conn]) : toPeer'[conn][i] = toPeer[conn][i]
        /\ \A k \in Conns : k # conn => toPeer'[k] = toPeer[k]
    BY <1>0, <2>1, AppendFacts DEF TypeInv
  <2>5. \A k \in Conns : \A i \in 1 .. Len(toPeer'[k]) :
          \/ i \in 1 .. Len(toPeer[k]) /\ toPeer'[k][i] = toPeer[k][i]
          \/ k = conn /\ i = n /\ toPeer'[k][i] = r
    BY <2>4
  <2>6. runs[r] = 0 /\ \A k \in Conns : \A i \in 1 .. Len(toPeer[k]) : toPeer[k][i] # r
    BY <2>1, <2>2 DEF WireInv
  <2>7. \A k, l \in Conns : \A i \in 1 .. Len(toPeer'[k]), j \in 1 .. Len(toPeer'[l]) :
          toPeer'[k][i] = toPeer'[l][j] => k = l /\ i = j
    BY <2>5, <2>6 DEF WireInv
  <2>8. \A k \in Conns : \A i \in 1 .. Len(toPeer'[k]) : runs'[toPeer'[k][i]] = 0
    BY <1>1, <2>5, <2>6 DEF WireInv
  <2>9. \A q \in Requests : Unwritten(q)' =>
          runs'[q] = 0 /\ \A k \in Conns : \A i \in 1 .. Len(toPeer'[k]) : toPeer'[k][i] # q
    <3> SUFFICES ASSUME NEW q \in Requests, Unwritten(q)'
                 PROVE  /\ runs'[q] = 0
                        /\ \A k \in Conns : \A i \in 1 .. Len(toPeer'[k]) : toPeer'[k][i] # q
      OBVIOUS
    <3>1. Unwritten(q) /\ q # r
      BY <1>1, <2>3
    <3> QED
      BY <1>1, <2>5, <3>1 DEF WireInv
  <2> QED
    BY <1>1, <2>7, <2>8, <2>9 DEF WireInv
<1> QED
  BY <1>2, <1>3

LEMMA WireServe ==
  ASSUME PlaceInv, WireInv, NEW k \in Conns, Serve(k)
  PROVE  WireInv'
<1> DEFINE r == toPeer[k][1]
<1>0. TypeInv
  BY DEF PlaceInv
<1>1. \A q \in Requests : Unwritten(q)' => Unwritten(q)
  BY UnwrittenStep DEF Next
<1>2. /\ toPeer[k] # <<>> /\ toPeer[k] \in Seq(Requests) /\ Head(toPeer[k]) = r /\ r \in Requests
      /\ toPeer' = [toPeer EXCEPT ![k] = Tail(toPeer[k])] /\ runs' = [runs EXCEPT ![r] = @ + 1]
  BY <1>0, TailFacts DEF Serve, TypeInv
<1>3. /\ Len(toPeer[k]) \in Nat \ {0} /\ Len(toPeer'[k]) = Len(toPeer[k]) - 1
      /\ \A i \in 1 .. Len(toPeer'[k]) : toPeer'[k][i] = toPeer[k][i + 1]
      /\ \A l \in Conns : l # k => toPeer'[l] = toPeer[l]
  BY <1>0, <1>2, TailFacts DEF TypeInv
<1>4. runs[r] = 0 /\ ~Unwritten(r)
  BY <1>2, <1>3 DEF WireInv
<1>5. \A l \in Conns : \A i \in 1 .. Len(toPeer'[l]) :
        \E j \in 1 .. Len(toPeer[l]) :
          toPeer'[l][i] = toPeer[l][j] /\ j = IF l = k THEN i + 1 ELSE i
  BY <1>3
<1>6. \A l \in Conns : \A i \in 1 .. Len(toPeer'[l]) : toPeer'[l][i] # r
  <2> TAKE l \in Conns
  <2> TAKE i \in 1 .. Len(toPeer'[l])
  <2>1. PICK j \in 1 .. Len(toPeer[l]) :
          toPeer'[l][i] = toPeer[l][j] /\ j = IF l = k THEN i + 1 ELSE i
    BY <1>5
  <2>2. ~(l = k /\ j = 1) /\ 1 \in 1 .. Len(toPeer[k])
    BY <1>3, <2>1
  <2> QED
    BY <2>1, <2>2 DEF WireInv
<1>7. \A l, m \in Conns : \A i \in 1 .. Len(toPeer'[l]), j \in 1 .. Len(toPeer'[m]) :
        toPeer'[l][i] = toPeer'[m][j] => l = m /\ i = j
  BY <1>3, <1>5 DEF WireInv
<1>8. \A l \in Conns : \A i \in 1 .. Len(toPeer'[l]) : runs'[toPeer'[l][i]] = 0
  <2> TAKE l \in Conns
  <2> TAKE i \in 1 .. Len(toPeer'[l])
  <2>1. PICK j \in 1 .. Len(toPeer[l]) : toPeer'[l][i] = toPeer[l][j]
    BY <1>5
  <2>2. runs[toPeer[l][j]] = 0 /\ toPeer[l][j] # r
    BY <1>6, <2>1 DEF WireInv
  <2>3. toPeer[l][j] \in Requests
    BY <1>0 DEF TypeInv
  <2> QED
    BY <1>0, <1>2, <2>1, <2>2, <2>3 DEF TypeInv
<1>9. \A q \in Requests : runs'[q] \in {0, 1} /\ (q # r => runs'[q] = runs[q])
  BY <1>0, <1>2, <1>4 DEF WireInv, TypeInv
<1>10. \A q \in Requests : Unwritten(q)' =>
        runs'[q] = 0 /\ \A l \in Conns : \A i \in 1 .. Len(toPeer'[l]) : toPeer'[l][i] # q
  BY <1>1, <1>4, <1>5, <1>9 DEF WireInv
<1> QED
  BY <1>7, <1>8, <1>9, <1>10 DEF WireInv

LEMMA WireStep == PlaceInv /\ WireInv /\ [Next]_vars => WireInv'
<1> SUFFICES ASSUME PlaceInv, WireInv, [Next]_vars PROVE WireInv'
  OBVIOUS
<1>1. CASE UNCHANGED vars
  BY <1>1, WireKept DEF vars, Unwritten, Offers
<1>2. CASE Next /\ UNCHANGED <<toPeer, runs>>
  BY <1>2, UnwrittenStep, WireKept
<1>3. Next => \/ UNCHANGED <<toPeer, runs>> \/ WriteSucceeds \/ \E k \in Conns : Serve(k)
  <2>1. \A c \in Callers : Send(c) \/ Offer(c) \/ Leave(c) => UNCHANGED <<toPeer, runs>>
    BY DEF Send, Offer, Leave, Return, TimeOut, Answered, wire
  <2>2. Take \/ WriteFails \/ Redial \/ DialFails \/ Queue => UNCHANGED <<toPeer, runs>>
    BY DEF Take, WriteFails, Redial, DialFails, Queue, wire
  <2>3. Closing \/ Done => UNCHANGED <<toPeer, runs>>
    BY DEF Closing, CloseStart, CloseWaited, CloseConnection, CloseEnd, Done, vars, wire
  <2>4. \A k \in Conns : Reading(k) \/ Break(k) => UNCHANGED <<toPeer, runs>>
    BY DEF Reading, Read, Misread, ReadFails, Hand, Break, wire
  <2> QED
    BY <2>1, <2>2, <2>3, <2>4 DEF Next, Writing
<1> QED
  BY <1>1, <1>2, <1>3, WireWrite, WireServe

LEMMA WireAlways == Spec => [](PlaceInv /\ WireInv)
<1> QED
  BY PlaceInit, PlaceStep, WireInit, WireStep, PTL DEF Spec

(* The peer runs a request once at most: the writer writes it again only   *)
(* when the write before failed (client.go:158-166).                       *)
THEOREM PeerRunsOnce == Spec => []RunOnce
<1>1. WireInv => RunOnce
  BY DEF WireInv, RunOnce
<1> QED
  BY <1>1, WireAlways, PTL

(* A request reported as failed was never written to a connection that     *)
(* held, so that sending it again cannot make the peer run it twice.       *)
THEOREM FailuresAreClean == Spec => []FailedNotRun
<1>1. PlaceInv /\ WireInv => FailedNotRun
  BY DEF PlaceInv, TypeInv, WireInv, Unwritten, FailedNotRun
<1> QED
  BY <1>1, WireAlways, PTL

-----------------------------------------------------------------------------
(* CloseInv.                                                               *)

LEMMA CloseInit == Init => CloseInv
BY DEF Init, Free, CloseInv, Queued, Has, Holds

(* Whatever leaves the callers alone and queues nothing. *)
LEMMA CloseKept ==
  ASSUME CloseInv, UNCHANGED <<caller, result>>,
         \A r \in Requests : Queued(r)' => Queued(r),
         \/ closing' = closing
         \/ closing' = "conn" /\ closing = "stop" /\ \A c \in Callers : caller[c].st = "idle"
         \/ closing' = "stop" /\ closing = "open"
         \/ closing' = "closed" /\ closing = "conn",
         writer'.st = "panic" => writer.st = "panic" \/ closing = "closed"
  PROVE  CloseInv'
<1>1. \A r : Covered(r)' <=> Covered(r)
  BY DEF Covered
<1>2. closing \in {"conn", "closed"} \/ closing' = "conn" \/ closing' \notin {"conn", "closed"}
  OBVIOUS
<1>3. closing' \in {"conn", "closed"} => \A c \in Callers : caller[c].st = "idle"
  BY <1>2 DEF CloseInv
<1>4. writer'.st = "panic" => closing' = "closed"
  BY DEF CloseInv
<1> QED
  BY <1>1, <1>3, <1>4 DEF CloseInv

LEMMA TailHas ==
  ASSUME NEW S, NEW s \in Seq(S), s # <<>>
  PROVE  Has(s, Head(s)) /\ \A q : Has(Tail(s), q) => Has(s, q)
BY TailFacts DEF Has

(* Where the writer is after each of its steps. *)
LEMMA WriterStep ==
  ASSUME TypeInv, WriteSucceeds \/ WriteFails \/ Redial \/ DialFails
  PROVE  /\ writer.st # "idle" /\ writer'.st \in {"write", "dial", "queue", "idle"}
         /\ writer'.st # "idle" => writer'.req = writer.req
<1>1. CASE WriteSucceeds
  BY <1>1 DEF WriteSucceeds, TypeInv
<1>2. CASE Redial
  BY <1>2 DEF Redial, TypeInv
<1>3. ASSUME NEW tries, RepairOrFail(tries)
      PROVE  writer'.st \in {"dial", "idle"} /\ (writer'.st # "idle" => writer'.req = writer.req)
  <2>1. CASE tries < MaxTries
    <3>1. writer'.st = "dial" /\ writer'.req = writer.req
      BY <1>3, <2>1, ZenonT(60) DEF RepairOrFail, TypeInv
    <3> QED
      BY <3>1
  <2>2. CASE ~(tries < MaxTries)
    BY <1>3, <2>2 DEF RepairOrFail, Fail, Free
  <2> QED
    BY <2>1, <2>2
<1>4. CASE WriteFails \/ DialFails
  BY <1>3, <1>4 DEF WriteFails, DialFails
<1> QED
  BY <1>1, <1>2, <1>4

LEMMA QueuedStep ==
  ASSUME PlaceInv, Writing \/ \E k \in Conns : Hand(k)
  PROVE  \A r \in Requests : Queued(r)' => Queued(r)
<1> SUFFICES ASSUME NEW r \in Requests, Queued(r)' PROVE Queued(r)
  OBVIOUS
<1>0. TypeInv
  BY DEF PlaceInv
<1>1. CASE Take
  <2>1. pending \in Seq(Requests) /\ pending # <<>> /\ pending' = Tail(pending)
        /\ writer'.req = Head(pending) /\ waiting' = waiting
    BY <1>0, <1>1 DEF Take, TypeInv
  <2>2. Has(pending, Head(pending)) /\ (Has(pending, r)' => Has(pending, r))
    BY <2>1, TailHas
  <2> QED
    BY <2>1, <2>2 DEF Queued, Holds, Has
<1>2. CASE Queue
  <2>0. pending' = pending /\ writer.st = "queue"
    BY <1>2 DEF Queue
  <2>1. CASE closing = "closed"
    <3>1. waiting' = waiting /\ writer'.req = writer.req
      BY <1>0, <1>2, <2>1 DEF Queue, TypeInv
    <3> QED
      BY <2>0, <3>1 DEF Queued, Holds, Has
  <2>2. CASE closing # "closed"
    <3>1. /\ waiting \in Seq(Requests) /\ writer.req \in Requests
          /\ waiting' = Append(waiting, writer.req) /\ writer'.st = "idle"
      BY <1>0, <1>2, <2>0, <2>2 DEF Queue, Free, TypeInv
    <3>2. Has(waiting, r)' => Has(waiting, r) \/ r = writer.req
      BY <3>1, AppendHas
    <3> QED
      BY <2>0, <3>1, <3>2 DEF Queued, Holds, Has
  <2> QED
    BY <2>1, <2>2
<1>3. CASE WriteSucceeds \/ WriteFails \/ Redial \/ DialFails
  <2>1. UNCHANGED <<pending, waiting>> /\ writer.st # "idle"
    BY <1>3 DEF WriteSucceeds, WriteFails, Redial, DialFails, queues
  <2>2. writer'.st # "idle" => writer'.req = writer.req
    BY <1>0, <1>3, WriterStep
  <2> QED
    BY <2>1, <2>2 DEF Queued, Holds, Has
<1>4. ASSUME NEW k \in Conns, Hand(k) PROVE Queued(r)
  <2>1. UNCHANGED <<pending, writer>>
    BY <1>4 DEF Hand
  <2>2. CASE waiting' = waiting
    BY <2>1, <2>2 DEF Queued, Holds, Has
  <2>3. CASE waiting' # waiting
    <3>1. waiting \in Seq(Requests) /\ waiting # <<>> /\ waiting' = Tail(waiting)
      BY <1>0, <1>4, <2>3 DEF Hand, TypeInv
    <3>2. Has(waiting, r)' => Has(waiting, r)
      BY <3>1, TailHas
    <3> QED
      BY <2>1, <3>2 DEF Queued, Holds, Has
  <2> QED
    BY <2>2, <2>3
<1> QED
  BY <1>1, <1>2, <1>3, <1>4 DEF Writing

(* A caller is answered: its request is in no queue, or it gave up. *)
LEMMA CloseAnswered ==
  ASSUME PlaceInv, CloseInv, NEW c \in Callers, caller[c].st # "idle",
         NEW what, Answered(c, what), what = "timeout" \/ ~Queued(caller[c].req)
  PROVE  CloseInv'
<1> DEFINE r == caller[c].req
<1>0. TypeInv
  BY DEF PlaceInv
<1>1. /\ result' = [result EXCEPT ![r] = what] /\ r \in Requests
      /\ caller' = [caller EXCEPT ![c] = [st |-> "idle", req |-> 0]]
      /\ UNCHANGED <<pending, waiting, writer, closing>>
  BY <1>0 DEF Answered, queues, TypeInv
<1>2. \A q : Queued(q)' <=> Queued(q)
  BY <1>1 DEF Queued, Holds
<1>3. \A d \in Callers : /\ caller'[d].st = IF d = c THEN "idle" ELSE caller[d].st
                         /\ d # c => caller'[d] = caller[d]
  BY <1>0, <1>1 DEF TypeInv
<1>4. ASSUME NEW q \in Requests, Queued(q)' PROVE Covered(q)'
  <2>1. Covered(q)
    BY <1>2, <1>4 DEF CloseInv
  <2>2. CASE q = r
    BY <1>0, <1>1, <1>2, <1>4, <2>2 DEF Covered, TypeInv
  <2>3. CASE q # r
    BY <1>0, <1>1, <1>3, <2>1, <2>3 DEF Covered, TypeInv
  <2> QED
    BY <2>2, <2>3
<1> QED
  BY <1>1, <1>3, <1>4 DEF CloseInv

LEMMA CloseOffer ==
  ASSUME PlaceInv, CloseInv, NEW c \in Callers, Offer(c)
  PROVE  CloseInv'
<1> DEFINE r == caller[c].req
<1>0. /\ TypeInv /\ caller[c].st = "offer" /\ r \in Requests
  BY DEF PlaceInv, Offer, TypeInv
<1>1. CASE closing # "open"
  <2>1. ~Queued(r)
    BY <1>0 DEF PlaceInv, OnePlace, Offers
  <2> QED
    BY <1>0, <1>1, <2>1, CloseAnswered DEF Offer
<1>2. CASE closing = "open"
  <2>1. /\ pending' = Append(pending, r) /\ caller' = [caller EXCEPT ![c].st = "wait"]
        /\ UNCHANGED <<waiting, writer, closing, result>>
    BY <1>2 DEF Offer
  <2>2. \A q : Has(pending, q)' <=> Has(pending, q) \/ q = r
    BY <1>0, <2>1, AppendHas DEF TypeInv
  <2>3. \A q : Queued(q)' => Queued(q) \/ q = r
    BY <2>1, <2>2 DEF Queued, Holds
  <2>4. \A d \in Callers : /\ caller'[d].req = caller[d].req
                           /\ caller'[d].st = IF d = c THEN "wait" ELSE caller[d].st
    BY <1>0, <2>1 DEF TypeInv
  <2>5. \A q \in Requests : Queued(q)' => Covered(q)'
    BY <1>0, <2>1, <2>3, <2>4 DEF CloseInv, Covered
  <2> QED
    BY <1>2, <2>1, <2>5 DEF CloseInv
<1> QED
  BY <1>1, <1>2

LEMMA CloseStep == PlaceInv /\ CloseInv /\ [Next]_vars => CloseInv'
<1> SUFFICES ASSUME PlaceInv, CloseInv, [Next]_vars PROVE CloseInv'
  OBVIOUS
<1>0. TypeInv
  BY DEF PlaceInv
<1>1. ASSUME NEW c \in Callers, Send(c) PROVE CloseInv'
  <2>1. /\ caller[c].st = "idle" /\ closing = "open"
        /\ caller' = [caller EXCEPT ![c] = [st |-> "offer", req |-> nextReq]]
        /\ UNCHANGED <<pending, waiting, writer, closing, result>>
    BY <1>1 DEF Send, queues
  <2>2. \A d \in Callers : caller[d].st = "wait" => caller'[d] = caller[d]
    BY <1>0, <2>1 DEF TypeInv
  <2> QED
    BY <2>1, <2>2 DEF CloseInv, Covered, Queued, Holds
<1>2. ASSUME NEW c \in Callers, Leave(c) PROVE CloseInv'
  <2>1. CASE TimeOut(c)
    BY <2>1, CloseAnswered DEF TimeOut
  <2>2. CASE Return(c)
    <3>1. ~Queued(caller[c].req)
      BY <1>0, <2>2 DEF Return, PlaceInv, Unreleased, TypeInv
    <3> QED
      BY <2>2, <3>1, CloseAnswered DEF Return
  <2> QED
    BY <1>2, <2>1, <2>2 DEF Leave
<1>3. CASE Writing
  <2>1. UNCHANGED <<caller, result, closing>>
    BY <1>3 DEF Writing, Take, WriteSucceeds, WriteFails, Redial, DialFails, Queue, calls
  <2>2. writer'.st = "panic" => writer.st = "panic" \/ closing = "closed"
    <3>1. CASE Take \/ Queue
      BY <3>1 DEF Take, Queue, Free
    <3>2. CASE WriteSucceeds \/ WriteFails \/ Redial \/ DialFails
      BY <1>0, <3>2, WriterStep
    <3> QED
      BY <1>3, <3>1, <3>2 DEF Writing
  <2> QED
    BY <1>3, <2>1, <2>2, QueuedStep, CloseKept
<1>4. ASSUME NEW k \in Conns, Hand(k) PROVE CloseInv'
  <2>1. UNCHANGED <<caller, result, closing, writer>>
    BY <1>4 DEF Hand, calls
  <2> QED
    BY <1>4, <2>1, QueuedStep, CloseKept
<1>5. ASSUME UNCHANGED <<caller, result, pending, waiting, writer>>,
             \/ closing' = closing
             \/ closing' = "conn" /\ closing = "stop" /\ \A c \in Callers : caller[c].st = "idle"
             \/ closing' = "stop" /\ closing = "open"
             \/ closing' = "closed" /\ closing = "conn"
      PROVE  CloseInv'
  <2>1. \A r \in Requests : Queued(r)' => Queued(r)
    BY <1>5 DEF Queued, Holds
  <2> QED
    BY <1>5, <2>1, CloseKept DEF CloseInv
<1>6. CASE Closing
  BY <1>5, <1>6 DEF Closing, CloseStart, CloseWaited, CloseConnection, CloseEnd, calls, queues
<1>7. ASSUME NEW k \in Conns,
             Read(k) \/ Misread(k) \/ ReadFails(k) \/ Serve(k) \/ Break(k)
      PROVE  CloseInv'
  BY <1>5, <1>7 DEF Read, Misread, ReadFails, Serve, Break, calls, queues
<1>8. CASE UNCHANGED vars
  BY <1>5, <1>8 DEF vars
<1> QED
  BY <1>1, <1>2, <1>3, <1>4, <1>6, <1>7, <1>8, CloseOffer DEF Next, Reading, Done

(* The writer meets a closed waitingReqs only with a request whose caller  *)
(* gave up, because Close waits for all others (client.go:70-81, 167-168). *)
THEOREM CloseIsClean == Spec => []ClosesCleanly
<1>1. PlaceInv /\ CloseInv => ClosesCleanly
  <2> SUFFICES ASSUME PlaceInv, CloseInv, writer.st = "panic"
               PROVE  result[writer.req] = "timeout"
    BY DEF ClosesCleanly
  <2>1. writer.req \in Requests /\ Queued(writer.req)
    BY DEF PlaceInv, TypeInv, Queued, Holds
  <2>2. \A c \in Callers : caller[c].st # "wait"
    BY DEF CloseInv
  <2> QED
    BY <2>1, <2>2 DEF CloseInv, Covered
<1> QED
  BY <1>1, PlaceInit, PlaceStep, CloseInit, CloseStep, PTL DEF Spec

-----------------------------------------------------------------------------
(* Replies are given to requests by their order alone.  As long as the one *)
(* connection holds this is right: the requests that wait for a reply are, *)
(* in their order, those whose reply the reader has, those whose reply is  *)
(* on its way and those that are on their way to the peer.                 *)

(* What is between a queue and the next. *)
Written(w) == IF w.st = "queue" THEN <<w.req>> ELSE <<>>
Got(h)     == IF h.st = "hand" THEN <<h.got>> ELSE <<>>

(* The queue, with what the writer holds, against the way of a request.    *)
SameOrder(w, i, g, u, p) == w \o i = g \o (u \o p)

InOrder == SameOrder(waiting, Written(writer), Got(reader[0]), toUs[0], toPeer[0])

(* One connection, never repaired. *)
OneLine ==
  /\ conn = 0 /\ link[0] = "up" /\ \A k \in Conns : k # 0 => link[k] = "new"
  /\ writer.st \in {"idle", "write", "queue"} /\ failed = {}
  /\ toUs \in [Conns -> Seq(Requests)]
  /\ reader \in [Conns -> [st : {"off", "read", "hand"}, got : Nat]]
  /\ \A k \in Conns : k # 0 => reader[k].st = "off"
  /\ reader[0].st # "off" /\ (reader[0].st = "hand" => reader[0].got \in Requests)

Paired ==
  \A c \in Callers : LET r == caller[c].req
                     IN  caller[c].st = "wait" /\ wg[r] = 0 => reply[r] = r

Connected == breaks = 0 /\ misread = 0 /\ closing \in {"open", "stop"}
Tied      == OneLine /\ InOrder /\ Paired

PairInv ==
  /\ breaks \in Nat /\ misread \in Nat /\ DOMAIN reply = Requests
  /\ OwnReply
  /\ Connected => Tied

-----------------------------------------------------------------------------
(* Sequences put together.                                                 *)

LEMMA MoveToPeer ==
  ASSUME NEW w \in Seq(Requests), NEW g \in Seq(Requests), NEW u \in Seq(Requests),
         NEW p \in Seq(Requests), NEW x \in Requests, SameOrder(w, <<>>, g, u, p)
  PROVE  SameOrder(w, <<x>>, g, u, Append(p, x))
<1>1. w \o <<>> = w /\ w \o <<x>> = Append(w, x)
  OBVIOUS
<1>2. u \o Append(p, x) = Append(u \o p, x) /\ u \o p \in Seq(Requests)
  OBVIOUS
<1>3. \A v \in Seq(Requests) : g \o Append(v, x) = Append(g \o v, x)
  OBVIOUS
<1> QED
  BY <1>1, <1>2, <1>3 DEF SameOrder

LEMMA MoveToWaiting ==
  ASSUME NEW w \in Seq(Requests), NEW x \in Requests, NEW g, NEW u, NEW p,
         SameOrder(w, <<x>>, g, u, p)
  PROVE  SameOrder(Append(w, x), <<>>, g, u, p)
<1>1. Append(w, x) \o <<>> = w \o <<x>>
  OBVIOUS
<1> QED
  BY <1>1 DEF SameOrder

LEMMA MoveToUs ==
  ASSUME NEW w, NEW i, NEW g, NEW u \in Seq(Requests), NEW p \in Seq(Requests), p # <<>>,
         SameOrder(w, i, g, u, p)
  PROVE  SameOrder(w, i, g, Append(u, Head(p)), Tail(p))
<1>1. Append(u, Head(p)) \o Tail(p) = u \o p
  OBVIOUS
<1> QED
  BY <1>1 DEF SameOrder

LEMMA MoveToReader ==
  ASSUME NEW w, NEW i, NEW u \in Seq(Requests), NEW p \in Seq(Requests), u # <<>>,
         SameOrder(w, i, <<>>, u, p)
  PROVE  SameOrder(w, i, <<Head(u)>>, Tail(u), p)
<1>1. <<Head(u)>> \o Tail(u) = u /\ Tail(u) \in Seq(Requests) /\ Head(u) \in Requests
  OBVIOUS
<1>2. \A x \in Requests : \A t \in Seq(Requests) : <<x>> \o (t \o p) = (<<x>> \o t) \o p
  OBVIOUS
<1>3. <<>> \o (u \o p) = u \o p
  OBVIOUS
<1> QED
  BY <1>1, <1>2, <1>3 DEF SameOrder

LEMMA HeadAndTail ==
  ASSUME NEW w \in Seq(Requests), w # <<>>, NEW i \in Seq(Requests)
  PROVE  Head(w \o i) = Head(w) /\ Tail(w \o i) = Tail(w) \o i
<1>1. Head(w \o i) = Head(w)
  OBVIOUS
<1>2. Tail(w \o i) = Tail(w) \o i
  OBVIOUS
<1> QED
  BY <1>1, <1>2

LEMMA MoveOut ==
  ASSUME NEW w \in Seq(Requests), w # <<>>, NEW i \in Seq(Requests), NEW x \in Requests,
         NEW u \in Seq(Requests), NEW p \in Seq(Requests), SameOrder(w, i, <<x>>, u, p)
  PROVE  Head(w) = x /\ SameOrder(Tail(w), i, <<>>, u, p)
<1> DEFINE v == u \o p
<1>1. Head(w \o i) = Head(w) /\ Tail(w \o i) = Tail(w) \o i
  BY HeadAndTail
<1>2. v \in Seq(Requests)
  OBVIOUS
<1> HIDE DEF v
<1>3. Head(<<x>> \o v) = x /\ Tail(<<x>> \o v) = v /\ <<>> \o v = v
  BY <1>2
<1> QED
  BY <1>1, <1>3 DEF SameOrder, v

-----------------------------------------------------------------------------
(* What a step leaves alone.                                               *)

LEMMA PairInit == Init => PairInv
<1> SUFFICES ASSUME Init PROVE PairInv
  OBVIOUS
<1>1. /\ breaks = 0 /\ misread = 0 /\ DOMAIN reply = Requests /\ \A r \in Requests : result[r] = "none"
      /\ 0 \in Conns
  BY BoundsAssumption DEF Init, Conns
<1>2. OneLine
  BY <1>1 DEF Init, OneLine, Free, Conns
<1>3. InOrder
  BY <1>1 DEF Init, InOrder, SameOrder, Written, Got, Free
<1>4. Paired
  BY DEF Init, Paired
<1> QED
  BY <1>1, <1>2, <1>3, <1>4 DEF PairInv, Tied, OwnReply

LEMMA LineKept ==
  ASSUME OneLine, UNCHANGED <<conn, link, failed, toUs, reader>>,
         writer'.st \in {"idle", "write", "queue"}
  PROVE  OneLine'
BY DEF OneLine

LEMMA PairedKept ==
  ASSUME Paired, UNCHANGED reply,
         \A c \in Callers : LET r == caller'[c].req
                            IN  caller'[c].st = "wait" /\ wg'[r] = 0 =>
                                  caller[c].st = "wait" /\ caller[c].req = r /\ wg[r] = 0
  PROVE  Paired'
BY DEF Paired

LEMMA PairKept ==
  ASSUME PairInv, UNCHANGED <<breaks, misread>>, DOMAIN reply' = Requests,
         \A r \in Requests : result'[r] = "reply" =>
            \/ result[r] = "reply" /\ reply'[r] = reply[r]
            \/ breaks = 0 /\ misread = 0 => reply'[r] = r,
         Connected' => Connected, Connected /\ Tied /\ Connected' => Tied'
  PROVE  PairInv'
BY DEF PairInv, OwnReply

-----------------------------------------------------------------------------
(* Callers.                                                                *)

LEMMA PairSend ==
  ASSUME PlaceInv, PairInv, NEW c \in Callers, Send(c)
  PROVE  PairInv'
<1>0. TypeInv /\ OwnRequests /\ nextReq \in Requests
  <2>1. TypeInv /\ OwnRequests
    BY DEF PlaceInv
  <2>2. nextReq \in Nat \ {0} /\ nextReq <= MaxReqs
    BY <2>1 DEF TypeInv, Send
  <2> QED
    BY <2>1, <2>2, BoundsAssumption DEF Requests
<1>1. /\ caller' = [caller EXCEPT ![c] = [st |-> "offer", req |-> nextReq]]
      /\ wg' = [wg EXCEPT ![nextReq] = 1]
      /\ UNCHANGED <<pending, waiting, writer, closing, conn, link, toPeer, toUs, breaks, misread,
                     reader, reply, failed, result>>
  BY DEF Send, queues, wire
<1>2. ASSUME Tied PROVE Tied'
  <2>1. OneLine'
    BY <1>1, <1>2, LineKept DEF Tied, OneLine
  <2>2. InOrder'
    BY <1>1, <1>2 DEF Tied, InOrder
  <2>3. ASSUME NEW d \in Callers, caller'[d].st = "wait" PROVE d # c /\ caller'[d] = caller[d]
    BY <1>0, <1>1, <2>3 DEF TypeInv
  <2>4. ASSUME NEW d \in Callers, caller[d].st = "wait"
        PROVE  wg'[caller[d].req] = wg[caller[d].req]
    <3>1. caller[d].req < nextReq /\ caller[d].req \in Requests
      BY <1>0, <2>4 DEF OwnRequests, TypeInv
    <3>2. caller[d].req # nextReq
      BY <1>0, <3>1 DEF Requests
    <3> QED
      BY <1>0, <1>1, <3>1, <3>2 DEF TypeInv
  <2>5. Paired'
    BY <1>1, <1>2, <2>3, <2>4, PairedKept DEF Tied
  <2> QED
    BY <2>1, <2>2, <2>5 DEF Tied
<1> QED
  BY <1>1, <1>2, PairKept DEF PairInv, Connected

LEMMA PairAnswered ==
  ASSUME PlaceInv, PairInv, NEW c \in Callers, caller[c].st # "idle", NEW what,
         Answered(c, what),
         what = "reply" /\ breaks = 0 /\ misread = 0 => reply[caller[c].req] = caller[c].req
  PROVE  PairInv'
<1>0. TypeInv
  BY DEF PlaceInv
<1>1. /\ caller' = [caller EXCEPT ![c] = [st |-> "idle", req |-> 0]]
      /\ result' = [result EXCEPT ![caller[c].req] = what]
      /\ UNCHANGED <<waiting, writer, closing, conn, link, toPeer, toUs, breaks, misread, reader,
                     wg, reply, failed>>
  BY DEF Answered, queues, wire, request
<1>2. ASSUME Tied PROVE Tied'
  <2>1. OneLine'
    BY <1>1, <1>2, LineKept DEF Tied, OneLine
  <2>2. InOrder'
    BY <1>1, <1>2 DEF Tied, InOrder
  <2>3. ASSUME NEW d \in Callers, caller'[d].st = "wait" PROVE caller'[d] = caller[d]
    BY <1>0, <1>1, <2>3 DEF TypeInv
  <2>4. Paired'
    BY <1>1, <1>2, <2>3, PairedKept DEF Tied
  <2> QED
    BY <2>1, <2>2, <2>4 DEF Tied
<1>3. ASSUME NEW r \in Requests, result'[r] = "reply"
      PROVE  result[r] = "reply" \/ (breaks = 0 /\ misread = 0 => reply[r] = r)
  BY <1>0, <1>1, <1>3 DEF TypeInv
<1> QED
  BY <1>1, <1>2, <1>3, PairKept DEF PairInv, Connected

LEMMA PairOffer ==
  ASSUME PlaceInv, PairInv, NEW c \in Callers, Offer(c)
  PROVE  PairInv'
<1>0. TypeInv /\ caller[c].st = "offer" /\ wg[caller[c].req] = 1
  BY DEF PlaceInv, Unreleased, Offer
<1>1. CASE closing # "open"
  BY <1>0, <1>1, PairAnswered DEF Offer
<1>2. CASE closing = "open"
  <2>1. /\ caller' = [caller EXCEPT ![c].st = "wait"]
        /\ UNCHANGED <<waiting, writer, closing, conn, link, toPeer, toUs, breaks, misread, reader,
                       wg, reply, failed, result>>
    BY <1>2 DEF Offer, wire, request
  <2>2. ASSUME Tied PROVE Tied'
    <3>1. OneLine'
      BY <2>1, <2>2, LineKept DEF Tied, OneLine
    <3>2. InOrder'
      BY <2>1, <2>2 DEF Tied, InOrder
    <3>3. \A d \in Callers : caller'[d].req = caller[d].req /\ (d # c => caller'[d] = caller[d])
      BY <1>0, <2>1 DEF TypeInv
    <3>4. Paired'
      BY <1>0, <2>1, <2>2, <3>3, PairedKept DEF Tied
    <3> QED
      BY <3>1, <3>2, <3>4 DEF Tied
  <2> QED
    BY <2>1, <2>2, PairKept DEF PairInv, Connected
<1> QED
  BY <1>1, <1>2

LEMMA PairLeave ==
  ASSUME PlaceInv, CloseInv, PairInv, NEW c \in Callers, Leave(c)
  PROVE  PairInv'
<1>1. CASE TimeOut(c)
  BY <1>1, PairAnswered DEF TimeOut
<1>2. CASE Return(c)
  <2>1. caller[c].st = "wait" /\ wg[caller[c].req] = 0
    BY <1>2 DEF Return
  <2>2. closing \in {"open", "stop"}
    BY <2>1 DEF CloseInv, PlaceInv, TypeInv
  <2>3. breaks = 0 /\ misread = 0 => reply[caller[c].req] = caller[c].req
    BY <2>1, <2>2 DEF PairInv, Connected, Tied, Paired
  <2> QED
    BY <1>2, <2>1, <2>3, PairAnswered DEF Return
<1> QED
  BY <1>1, <1>2 DEF Leave

-----------------------------------------------------------------------------
(* The writer.                                                             *)

(* Its steps but the last, which go on only as long as the line holds.     *)
LEMMA PairWriter ==
  ASSUME PlaceInv, PairInv, Take \/ WriteSucceeds \/ WriteFails \/ Redial \/ DialFails
  PROVE  PairInv'
<1>0. TypeInv
  BY DEF PlaceInv
<1>1. UNCHANGED <<caller, result, closing, waiting, breaks, misread, reply>>
  BY DEF Take, WriteSucceeds, WriteFails, Redial, DialFails, calls, queues, wire, request
<1>2. ASSUME OneLine PROVE ~WriteFails /\ ~Redial /\ ~DialFails
  BY <1>2 DEF OneLine, WriteFails, Redial, DialFails
<1>3. ASSUME Tied, Take PROVE Tied'
  <2>1. /\ writer.st = "idle" /\ writer'.st = "write"
        /\ UNCHANGED <<conn, link, failed, toUs, toPeer, reader, wg>>
    BY <1>3 DEF Take, wire, request
  <2>2. OneLine'
    BY <1>3, <2>1, LineKept DEF Tied
  <2>3. Written(writer)' = Written(writer)
    BY <2>1 DEF Written
  <2>4. InOrder'
    BY <1>1, <1>3, <2>1, <2>3 DEF Tied, InOrder
  <2> QED
    BY <1>1, <1>3, <2>1, <2>2, <2>4 DEF Tied, Paired
<1>4. ASSUME Tied, WriteSucceeds PROVE Tied'
  <2>1. /\ writer.st = "write" /\ writer.req \in Requests /\ conn = 0 /\ link[0] = "up" /\ 0 \in Conns
        /\ toPeer' = [toPeer EXCEPT ![0] = Append(@, writer.req)]
        /\ UNCHANGED <<conn, link, failed, toUs, reader, wg>>
    BY <1>0, <1>4, BoundsAssumption DEF Tied, OneLine, WriteSucceeds, request, TypeInv, Conns
  <2>2. writer'.st = "queue" /\ writer'.req = writer.req
    BY <1>0, <1>4 DEF WriteSucceeds, TypeInv
  <2>3. OneLine'
    BY <1>4, <2>1, <2>2, LineKept DEF Tied
  <2>4. /\ waiting \in Seq(Requests) /\ Got(reader[0]) \in Seq(Requests)
        /\ toUs[0] \in Seq(Requests) /\ toPeer[0] \in Seq(Requests)
        /\ toPeer'[0] = Append(toPeer[0], writer.req)
    BY <1>0, <1>4, <2>1 DEF Tied, OneLine, TypeInv, Got
  <2>5. Written(writer) = <<>> /\ Written(writer)' = <<writer.req>>
    BY <2>1, <2>2 DEF Written
  <2>6. SameOrder(waiting, <<>>, Got(reader[0]), toUs[0], toPeer[0])
    BY <1>4, <2>5 DEF Tied, InOrder
  <2>7. SameOrder(waiting, <<writer.req>>, Got(reader[0]), toUs[0], Append(toPeer[0], writer.req))
    BY <2>1, <2>4, <2>6, MoveToPeer
  <2>8. InOrder'
    BY <1>1, <2>1, <2>4, <2>5, <2>7 DEF InOrder
  <2> QED
    BY <1>1, <1>4, <2>1, <2>3, <2>8 DEF Tied, Paired
<1> QED
  BY <1>1, <1>2, <1>3, <1>4, PairKept DEF PairInv, Connected, Tied

LEMMA PairQueue ==
  ASSUME PlaceInv, PairInv, Queue
  PROVE  PairInv'
<1>0. TypeInv
  BY DEF PlaceInv
<1>1. /\ writer.st = "queue"
      /\ UNCHANGED <<caller, result, closing, conn, link, toPeer, toUs, breaks, misread, reader, wg,
                     reply, failed>>
  BY DEF Queue, calls, wire, request
<1>2. ASSUME Tied, closing # "closed" PROVE Tied'
  <2>1. /\ waiting' = Append(waiting, writer.req) /\ writer'.st = "idle"
        /\ waiting \in Seq(Requests) /\ writer.req \in Requests
    BY <1>0, <1>1, <1>2 DEF Queue, Free, TypeInv
  <2>2. OneLine'
    BY <1>1, <1>2, <2>1, LineKept DEF Tied
  <2>3. Written(writer) = <<writer.req>> /\ Written(writer)' = <<>>
    BY <1>1, <2>1 DEF Written
  <2>4. SameOrder(Append(waiting, writer.req), <<>>, Got(reader[0]), toUs[0], toPeer[0])
    BY <1>2, <2>1, <2>3, MoveToWaiting DEF Tied, InOrder
  <2>5. InOrder'
    BY <1>1, <2>1, <2>3, <2>4 DEF InOrder
  <2> QED
    BY <1>1, <1>2, <2>2, <2>5 DEF Tied, Paired
<1> QED
  BY <1>1, <1>2, PairKept DEF PairInv, Connected

-----------------------------------------------------------------------------
(* The reader and the peer.                                                *)

LEMMA PairRead ==
  ASSUME PlaceInv, PairInv, NEW k \in Conns, Read(k)
  PROVE  PairInv'
<1>0. TypeInv
  BY DEF PlaceInv
<1>1. /\ reader[k].st = "read" /\ toUs[k] # <<>>
      /\ reader' = [reader EXCEPT ![k] = [st |-> "hand", got |-> Head(toUs[k])]]
      /\ toUs' = [toUs EXCEPT ![k] = Tail(@)]
      /\ UNCHANGED <<caller, result, closing, waiting, writer, conn, link, toPeer, breaks, misread, wg,
                     reply, failed>>
  BY DEF Read, calls, queues, request
<1>2. ASSUME Tied PROVE Tied'
  <2>1. k = 0 /\ 0 \in Conns /\ toUs[0] \in Seq(Requests) /\ toPeer[0] \in Seq(Requests)
    BY <1>0, <1>1, <1>2 DEF Tied, OneLine, TypeInv
  <2>2. Head(toUs[0]) \in Requests /\ Tail(toUs[0]) \in Seq(Requests)
    BY <1>1, <2>1
  <2>3. /\ toUs' \in [Conns -> Seq(Requests)] /\ toUs'[0] = Tail(toUs[0])
        /\ reader'[0] = [st |-> "hand", got |-> Head(toUs[0])]
        /\ \A l \in Conns : l # 0 => reader'[l] = reader[l]
    BY <1>1, <1>2, <2>1, <2>2 DEF Tied, OneLine
  <2>4. reader' \in [Conns -> [st : {"off", "read", "hand"}, got : Nat]]
    <3>1. Head(toUs[0]) \in Nat
      BY <2>2 DEF Requests
    <3> QED
      BY <1>1, <1>2, <2>1, <3>1 DEF Tied, OneLine
  <2>5. OneLine'
    BY <1>1, <1>2, <2>2, <2>3, <2>4 DEF Tied, OneLine
  <2>6. Got(reader[0]) = <<>> /\ Got(reader'[0]) = <<Head(toUs[0])>>
    BY <1>1, <2>1, <2>3 DEF Got
  <2>7. SameOrder(waiting, Written(writer), <<Head(toUs[0])>>, Tail(toUs[0]), toPeer[0])
    BY <1>1, <1>2, <2>1, <2>6, MoveToReader DEF Tied, InOrder
  <2>8. InOrder'
    BY <1>1, <2>3, <2>6, <2>7 DEF InOrder
  <2> QED
    BY <1>1, <1>2, <2>5, <2>8 DEF Tied, Paired
<1> QED
  BY <1>1, <1>2, PairKept DEF PairInv, Connected

LEMMA PairServe ==
  ASSUME PlaceInv, PairInv, NEW k \in Conns, Serve(k)
  PROVE  PairInv'
<1>0. TypeInv
  BY DEF PlaceInv
<1>1. /\ toPeer[k] # <<>> /\ toPeer' = [toPeer EXCEPT ![k] = Tail(@)]
      /\ toUs' = IF link[k] = "up" THEN [toUs EXCEPT ![k] = Append(@, Head(toPeer[k]))] ELSE toUs
      /\ UNCHANGED <<caller, result, closing, waiting, writer, conn, link, breaks, misread, reader, wg,
                     reply, failed>>
  BY DEF Serve, calls, queues, request
<1>2. ASSUME Tied PROVE Tied'
  <2>1. /\ toPeer \in [Conns -> Seq(Requests)] /\ toUs \in [Conns -> Seq(Requests)]
        /\ Head(toPeer[k]) \in Requests /\ Tail(toPeer[k]) \in Seq(Requests)
    <3>1. toPeer \in [Conns -> Seq(Requests)] /\ toUs \in [Conns -> Seq(Requests)]
      BY <1>0, <1>2 DEF Tied, OneLine, TypeInv
    <3> QED
      BY <1>1, <3>1
  <2>2. toUs' \in [Conns -> Seq(Requests)]
    <3>1. Append(toUs[k], Head(toPeer[k])) \in Seq(Requests)
      BY <2>1
    <3> QED
      BY <1>1, <2>1, <3>1
  <2>3. OneLine'
    BY <1>1, <1>2, <2>2 DEF Tied, OneLine
  <2>4. SameOrder(waiting, Written(writer), Got(reader[0]), toUs'[0], toPeer'[0])
    <3>1. InOrder
      BY <1>2 DEF Tied
    <3>2. CASE k # 0
      <4>1. toUs'[0] = toUs[0] /\ toPeer'[0] = toPeer[0]
        BY <1>1, <2>1, <3>2
      <4> QED
        BY <3>1, <4>1 DEF InOrder
    <3>3. CASE k = 0
      <4>1. toUs'[0] = Append(toUs[0], Head(toPeer[0])) /\ toPeer'[0] = Tail(toPeer[0])
        BY <1>1, <1>2, <2>1, <3>3 DEF Tied, OneLine
      <4>2. toUs[0] \in Seq(Requests) /\ toPeer[0] \in Seq(Requests) /\ toPeer[0] # <<>>
        BY <1>1, <2>1, <3>3
      <4> QED
        BY <3>1, <4>1, <4>2, MoveToUs DEF InOrder
    <3> QED
      BY <3>2, <3>3
  <2>5. InOrder'
    BY <1>1, <2>4 DEF InOrder
  <2> QED
    BY <1>1, <1>2, <2>3, <2>5 DEF Tied, Paired
<1> QED
  BY <1>1, <1>2, PairKept DEF PairInv, Connected

(* A reply goes to a request whose result nobody has been told.            *)
LEMMA PairHand ==
  ASSUME PlaceInv, CloseInv, PairInv, NEW k \in Conns, Hand(k)
  PROVE  PairInv'
<1> DEFINE r == Head(waiting)
<1>0. TypeInv
  BY DEF PlaceInv
<1>1. /\ reader[k].st \in {"hand", "last"}
      /\ reader' = [reader EXCEPT ![k].st = IF @ = "last" THEN "gone" ELSE "read"]
      /\ UNCHANGED <<caller, result, closing, writer, conn, link, toPeer, toUs, breaks, misread, failed>>
  BY DEF Hand, calls, wire
<1>2. CASE UNCHANGED <<reply, wg, waiting>> /\ closing = "closed"
  BY <1>1, <1>2, PairKept DEF PairInv, Connected
<1>3. CASE /\ waiting # <<>> /\ waiting' = Tail(waiting)
           /\ reply' = [reply EXCEPT ![r] = reader[k].got]
           /\ wg' = [wg EXCEPT ![r] = @ - 1]
  <2>1. waiting \in Seq(Requests) /\ r \in Requests
    BY <1>0, <1>3 DEF TypeInv
  <2>2. result[r] # "reply"
    <3>1. Has(waiting, r)
      BY <1>3, <2>1, TailHas
    <3>2. Covered(r)
      BY <2>1, <3>1 DEF CloseInv, Queued
    <3> QED
      BY <1>0, <2>1, <3>2 DEF Covered, PlaceInv, OwnRequests
  <2>3. \A q \in Requests : q # r => reply'[q] = reply[q] /\ wg'[q] = wg[q]
    BY <1>0, <1>3, <2>1 DEF PairInv, TypeInv
  <2>4. ASSUME Tied PROVE Tied'
    <3>1. /\ k = 0 /\ 0 \in Conns /\ reader[0].st = "hand" /\ reader[0].got \in Requests
          /\ toUs[0] \in Seq(Requests) /\ toPeer[0] \in Seq(Requests)
      BY <1>0, <1>1, <2>4 DEF Tied, OneLine, TypeInv
    <3>2. /\ reader' \in [Conns -> [st : {"off", "read", "hand"}, got : Nat]]
          /\ reader'[0].st = "read"
          /\ \A l \in Conns : l # 0 => reader'[l] = reader[l]
      BY <1>1, <2>4, <3>1 DEF Tied, OneLine
    <3>3. OneLine'
      BY <1>1, <2>4, <3>2 DEF Tied, OneLine
    <3>4. Got(reader[0]) = <<reader[0].got>> /\ Got(reader'[0]) = <<>>
      BY <3>1, <3>2 DEF Got
    <3>5. Written(writer) \in Seq(Requests)
      BY <1>0 DEF Written, TypeInv
    <3>6. SameOrder(waiting, Written(writer), <<reader[0].got>>, toUs[0], toPeer[0])
      BY <2>4, <3>4 DEF Tied, InOrder
    <3>7. /\ r = reader[0].got
          /\ SameOrder(Tail(waiting), Written(writer), <<>>, toUs[0], toPeer[0])
      BY <1>3, <2>1, <3>1, <3>5, <3>6, MoveOut
    <3>8. InOrder'
      BY <1>1, <1>3, <3>4, <3>7 DEF InOrder
    <3>9. reply'[r] = r
      BY <1>3, <2>1, <3>1, <3>7 DEF PairInv
    <3>10. Paired'
      <4>1. \A c \in Callers : caller[c].st = "wait" => caller[c].req \in Requests
        BY <1>0 DEF TypeInv
      <4> QED
        BY <1>1, <2>3, <2>4, <3>9, <4>1 DEF Tied, Paired
    <3> QED
      BY <3>3, <3>8, <3>10 DEF Tied
  <2>5. DOMAIN reply' = Requests
    BY <1>3 DEF PairInv
  <2> QED
    BY <1>1, <2>2, <2>3, <2>4, <2>5, PairKept DEF Connected
<1> QED
  BY <1>2, <1>3 DEF Hand

-----------------------------------------------------------------------------
LEMMA PairStep == PlaceInv /\ CloseInv /\ PairInv /\ [Next]_vars => PairInv'
<1> SUFFICES ASSUME PlaceInv, CloseInv, PairInv, [Next]_vars PROVE PairInv'
  OBVIOUS
<1>1. ASSUME NEW k \in Conns, ReadFails(k) PROVE PairInv'
  <2>1. /\ link[k] \notin {"new", "up"}
        /\ UNCHANGED <<result, closing, breaks, misread, reply>>
    BY <1>1 DEF ReadFails, calls, wire, request
  <2>2. ~OneLine
    BY <2>1 DEF OneLine
  <2> QED
    BY <2>1, <2>2, PairKept DEF PairInv, Connected, Tied
<1>2. ASSUME NEW k \in Conns, Break(k) PROVE PairInv'
  <2>1. breaks' = breaks + 1 /\ UNCHANGED <<reply, misread>>
    BY <1>2 DEF Break, request
  <2>2. breaks' \in Nat /\ breaks' # 0
    BY <2>1 DEF PairInv
  <2> QED
    BY <2>1, <2>2 DEF PairInv, OwnReply, Connected
<1>0. ASSUME NEW k \in Conns, Misread(k) PROVE PairInv'
  <2>1. misread' = misread + 1 /\ UNCHANGED <<reply, breaks>>
    BY <1>0 DEF Misread, request
  <2>2. misread' \in Nat /\ misread' # 0
    BY <2>1 DEF PairInv
  <2> QED
    BY <2>1, <2>2 DEF PairInv, OwnReply, Connected
<1>3. CASE CloseWaited \/ CloseEnd
  <2>1. UNCHANGED <<result, breaks, misread, reply>> /\ closing' \in {"conn", "closed"}
    BY <1>3 DEF CloseWaited, CloseConnection, CloseEnd, calls, wire, request
  <2> QED
    BY <2>1, PairKept DEF PairInv, Connected
<1>4. CASE CloseStart \/ UNCHANGED vars
  <2>1. /\ UNCHANGED <<caller, waiting, writer, conn, link, toPeer, toUs, reader, wg, reply,
                       failed, result, breaks, misread>>
        /\ closing' = closing \/ closing = "open"
    BY <1>4 DEF CloseStart, calls, queues, wire, request, vars
  <2>2. Tied => Tied'
    BY <2>1 DEF Tied, OneLine, InOrder, Paired
  <2> QED
    BY <2>1, <2>2, PairKept DEF PairInv, Connected
<1> QED
  BY <1>1, <1>2, <1>0, <1>3, <1>4, PairSend, PairOffer, PairLeave, PairWriter, PairQueue, PairRead,
     PairServe, PairHand DEF Next, Writing, Reading, Closing, Done

(* As long as the connection holds and its replies are read one by one,    *)
(* what Send returns is the reply to its own request, whatever was given   *)
(* up before (client.go:119-137, 175-190).                                 *)
THEOREM RepliesAreOwn == Spec => []OwnReply
<1>1. PairInv => OwnReply
  BY DEF PairInv
<1> QED
  BY <1>1, PlaceInit, PlaceStep, CloseInit, CloseStep, PairInit, PairStep, PTL DEF Spec
=============================================================================
