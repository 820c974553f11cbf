--------------------------- MODULE ConsistentHash ---------------------------
(***************************************************************************)
(* lib/consistenthash: where each node of the cluster looks for a key.     *)
(* The sorted nodeHashs are the domain of nodeHashMap, and a ring is that  *)
(* map: a hash that comes twice is twice in the slice, which sort.Search   *)
(* does not notice.                                                        *)
(***************************************************************************)
EXTENDS Integers, Sequences

CONSTANTS Hash,    \* hashFunc of the names of nodes and of keys
          NoName   \* the empty name

EmptyRing == [h \in {} |-> NoName]

(* Empty names are passed over; of two names with one hash the later stays. *)
AddNodes(ring, names) ==
  LET named == {i \in DOMAIN names : names[i] # NoName}
      at(h) == {i \in named : Hash[names[i]] = h}
  IN  [h \in DOMAIN ring \union {Hash[names[i]] : i \in named} |->
        IF at(h) = {} THEN ring[h]
        ELSE names[CHOOSE i \in at(h) : \A j \in at(h) : j <= i]]

Least(S) == CHOOSE h \in S : \A g \in S : h <= g

(* sort.Search finds the first hash that is not less than the key's; after *)
(* the last comes the first.                                               *)
PickNode(ring, key) ==
  LET above == {h \in DOMAIN ring : h >= Hash[key]}
  IN  IF DOMAIN ring = {} THEN NoName
      ELSE ring[Least(IF above = {} THEN DOMAIN ring ELSE above)]
=============================================================================
