------------------------------ MODULE LruOrder ------------------------------
(***************************************************************************)
(* What storage::LRUCache promises, as operators.  The content of a cache  *)
(* is a set of keys; its LRU list is a strict total order on them, kept as *)
(* a set of pairs: <<a, b>> is in the order when a is nearer to the head   *)
(* (used more recently) than b.  LruCache.tla shows that the linked lists  *)
(* of storage/lru_cache.h implement these operators.                       *)
(***************************************************************************)
EXTENDS FiniteSets

PushLRUHead_NotRemoved(order, keys, key) ==
    order \cup {<<key, k>> : k \in keys \ {key}}

\* PushLRUHead of a key: it comes before every other key.
PushLRUHead(order, keys, key) ==
    {p \in order : p[2] # key} \cup {<<key, k>> : k \in keys \ {key}}

\* Evict of the keys in gone: the others keep their places.
EvictAll(order, gone) ==
    {p \in order : p[1] \notin gone /\ p[2] \notin gone}

IsTail_Head(order, keys, key) ==
    key \in keys /\ \A k \in keys \ {key} : <<key, k>> \in order

\* lru_tail_: the key that every other key comes before.
IsTail(order, keys, key) ==
    key \in keys /\ \A k \in keys \ {key} : <<k, key>> \in order

\* order is a strict total order on keys.
IsLruOrder(order, keys) ==
    /\ order \subseteq (keys \X keys)
    /\ \A a \in keys : <<a, a>> \notin order
    /\ \A a, b \in keys : a # b => (<<a, b>> \in order \/ <<b, a>> \in order)
    /\ \A a, b, c \in keys :
          (<<a, b>> \in order /\ <<b, c>> \in order) => <<a, c>> \in order
=============================================================================
