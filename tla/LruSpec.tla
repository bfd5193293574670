------------------------------ MODULE LruSpec ------------------------------
(***************************************************************************)
(* What storage::LRUCache promises: a map of at most max keys, in the      *)
(* order in which they were used.  Inserting into a full cache takes the   *)
(* least recently used key away.                                           *)
(***************************************************************************)
EXTENDS Naturals, LruOrder

CONSTANTS Key, Value, max

VARIABLES
    map,               \* the values by key
    order              \* which key was used more recently

specVars == <<map, order>>

LruInit ==
    /\ map = [k \in {} |-> 0]
    /\ order = {}

\* An inserted key is the most recently used one; the tail has to go when
\* there are max others.
LruInsert(k, v) ==
    LET others == DOMAIN map \ {k}
        gone   == IF Cardinality(others) < max THEN {}
                  ELSE {t \in others : IsTail(EvictAll(order, {k}), others, t)}
        kept   == others \ gone
    IN  /\ map' = [j \in kept \cup {k} |-> IF j = k THEN v ELSE map[j]]
        /\ order' = PushLRUHead(EvictAll(order, gone), kept, k)

LruLookup(k) ==
    /\ k \in DOMAIN map
    /\ order' = PushLRUHead(order, DOMAIN map, k)
    /\ UNCHANGED map

LruErase(k) ==
    /\ map' = [j \in DOMAIN map \ {k} |-> map[j]]
    /\ order' = EvictAll(order, {k})

LruClear ==
    /\ map' = [k \in {} |-> 0]
    /\ order' = {}

LruNext ==
    \/ \E k \in Key, v \in Value : LruInsert(k, v)
    \/ \E k \in Key : LruLookup(k) \/ LruErase(k)
    \/ LruClear

LruSpecification == LruInit /\ [][LruNext]_specVars
=============================================================================
