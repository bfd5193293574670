------------------------------ MODULE LruCache ------------------------------
(***************************************************************************)
(* storage::LRUCache (storage/lru_cache.h): the table, the doubly linked   *)
(* LRU list and the singly linked free list, spliced pointer by pointer.   *)
(* An element is its number, a pointer is an element or NULL.  The three   *)
(* numbers that shape the blocks (10, 128 and 64 in the code) are          *)
(* constants.                                                              *)
(***************************************************************************)
EXTENDS Naturals, FiniteSets

CONSTANTS
    Key, Value,
    max_elements,
    max_blocks,        \* 10
    small_cache,       \* 128: up to this size there is one block
    first_block        \* 64

LruCacheAssumptions ==
    /\ {max_elements, max_blocks, first_block} \subseteq Nat \ {0}
    /\ small_cache \in Nat

VARIABLES
    table,             \* table_
    heap,              \* next, prev of the elements, free_list_, lru_head_, lru_tail_
    key, value,        \* of the elements
    block_count, block_capacity, next_block_size

vars == <<table, heap, key, value, block_count, block_capacity, next_block_size>>
blockVars == <<block_count, block_capacity, next_block_size>>

NULL == 0
Element == 1..max_elements

-----------------------------------------------------------------------------
(***************************************************************************)
(* The lists, as functions from heap to heap.                              *)
(***************************************************************************)
PushFreeList(h, e) ==
    [h EXCEPT !.prev[e] = NULL, !.next[e] = h.free, !.free = e]

\* The heap after PopFreeList; what it returns is h.free.
PopFreeList(h) ==
    [h EXCEPT !.free = h.next[h.free], !.next[h.free] = NULL]

RemoveFromLRU_KeepsTail(h, e) ==
    LET p == h.prev[e]
        n == h.next[e]
    IN  [h EXCEPT !.head = IF @ = e THEN n ELSE @,
                  !.next = [x \in Element |-> IF x = e THEN NULL
                                              ELSE IF x = p THEN n ELSE @[x]],
                  !.prev = [x \in Element |-> IF x = e THEN NULL
                                              ELSE IF x = n THEN p ELSE @[x]]]

RemoveFromLRU(h, e) ==
    LET p == h.prev[e]
        n == h.next[e]
    IN  [h EXCEPT !.head = IF @ = e THEN n ELSE @,
                  !.tail = IF @ = e THEN p ELSE @,
                  !.next = [x \in Element |-> IF x = e THEN NULL
                                              ELSE IF x = p THEN n ELSE @[x]],
                  !.prev = [x \in Element |-> IF x = e THEN NULL
                                              ELSE IF x = n THEN p ELSE @[x]]]

PushLRUHead(h, e) ==
    LET r == RemoveFromLRU(h, e)
    IN  IF h.head = e THEN h
        ELSE [r EXCEPT !.next[e] = r.head, !.head = e,
                       !.prev = [x \in Element |-> IF x = r.head THEN e ELSE @[x]],
                       !.tail = IF @ = NULL THEN e ELSE @]

\* Evict without the erasure from the table.
Evict(h, e) == PushFreeList(RemoveFromLRU(h, e), e)

-----------------------------------------------------------------------------
\* The constructor: the first block of a big cache is so large that blocks
\* that double are enough.
LRUCache ==
    LET size[n \in Nat] == IF (n * 2 ^ max_blocks) < max_elements
                           THEN size[2 * n] ELSE n
    IN  IF max_elements <= small_cache THEN max_elements ELSE size[first_block]

Init ==
    /\ table = [k \in {} |-> NULL]
    /\ heap = [next |-> [e \in Element |-> NULL], prev |-> [e \in Element |-> NULL],
               free |-> NULL, head |-> NULL, tail |-> NULL]
    /\ key = [e \in Element |-> NULL]
    /\ value = [e \in Element |-> NULL]
    /\ block_count = 0
    /\ block_capacity = 0
    /\ next_block_size = LRUCache

\* AddBlock may add: blocks are left, and elements.
CanAddBlock == block_count < max_blocks /\ block_capacity < max_elements

\* AddBlock: the elements of the new block go to the free list in turn.
AddBlock ==
    LET first == block_capacity + 1
        last  == block_capacity + next_block_size
        left  == max_blocks - (block_count + 1)
        rest  == max_elements - last
        twice == 2 * next_block_size
        share == IF left > 0 /\ twice > rest \div left THEN rest \div left ELSE twice
    IN  [heap  |-> [heap EXCEPT !.next = [e \in Element |->
                                    IF e = first THEN heap.free
                                    ELSE IF e \in first..last THEN e - 1 ELSE @[e]],
                                !.free = last],
         count |-> block_count + 1,
         capacity |-> last,
         size  |-> IF left = 0 THEN next_block_size
                   ELSE IF last + share > max_elements THEN max_elements - last
                   ELSE share]

\* The element a full cache gives up.
Victim_Head(h) == h.head
Victim(h) == h.tail

\* Insert.  An old element of the key is evicted first; then a free element,
\* a new block or the tail is taken.
Insert(k, v) ==
    LET old    == k \in DOMAIN table
        h1     == IF old THEN Evict(heap, table[k]) ELSE heap
        t1     == [j \in DOMAIN table \ {k} |-> table[j]]
        grow   == h1.free = NULL /\ CanAddBlock
        tail   == IF h1.free = NULL /\ ~CanAddBlock THEN {key[Victim(h1)]} ELSE {}
        h2     == IF grow THEN AddBlock.heap
                  ELSE IF tail # {} THEN Evict(h1, Victim(h1)) ELSE h1
        e      == h2.free
    IN  /\ table' = [j \in (DOMAIN t1 \ tail) \cup {k} |-> IF j = k THEN e ELSE t1[j]]
        /\ heap' = PushLRUHead(PopFreeList(h2), e)
        /\ key' = [key EXCEPT ![e] = k]
        /\ value' = [value EXCEPT ![e] = v]
        /\ block_count' = IF grow THEN AddBlock.count ELSE block_count
        /\ block_capacity' = IF grow THEN AddBlock.capacity ELSE block_capacity
        /\ next_block_size' = IF grow THEN AddBlock.size ELSE next_block_size

MutableLookup(k) ==
    /\ k \in DOMAIN table
    /\ heap' = PushLRUHead(heap, table[k])
    /\ UNCHANGED <<table, key, value, blockVars>>

Erase(k) ==
    /\ k \in DOMAIN table
    /\ table' = [j \in DOMAIN table \ {k} |-> table[j]]
    /\ heap' = Evict(heap, table[k])
    /\ UNCHANGED <<key, value, blockVars>>

\* The elements of a list from p on, in the order of their next pointers.
Walk(next, p) ==
    LET at[n \in 0..max_elements] ==
            IF n = 0 THEN p
            ELSE IF at[n - 1] = NULL THEN NULL ELSE next[at[n - 1]]
    IN  at

Clear ==
    LET lru == Walk(heap.next, heap.head)
        h[n \in 0..max_elements] ==
            IF n = 0 THEN heap
            ELSE IF lru[n - 1] = NULL THEN h[n - 1]
            ELSE PushFreeList(h[n - 1], lru[n - 1])
    IN  /\ table' = [k \in {} |-> NULL]
        /\ heap' = [h[max_elements] EXCEPT !.head = NULL, !.tail = NULL]
        /\ UNCHANGED <<key, value, blockVars>>

Next ==
    \/ \E k \in Key, v \in Value : Insert(k, v)
    \/ \E k \in Key : MutableLookup(k) \/ Erase(k)
    \/ Clear

Spec == Init /\ [][Next]_vars
-----------------------------------------------------------------------------
(***************************************************************************)
(* Properties                                                              *)
(***************************************************************************)
Nodes(p) == {Walk(heap.next, p)[n] : n \in 0..max_elements} \ {NULL}

\* "Every Element is either on the free list or the lru list": the allocated
\* elements are split between the two lists, the LRU list holds exactly the
\* elements of the table, is linked both ways, and ends at lru_tail_.
ListsPartitionElements ==
    /\ Nodes(heap.free) \cap Nodes(heap.head) = {}
    /\ Nodes(heap.free) \cup Nodes(heap.head) = 1..block_capacity
    /\ {table[k] : k \in DOMAIN table} = Nodes(heap.head)
    /\ \A k \in DOMAIN table : key[table[k]] = k
    /\ \A e \in Nodes(heap.head) :
          /\ heap.prev[e] = NULL <=> heap.head = e
          /\ heap.next[e] = NULL <=> heap.tail = e
          /\ heap.next[e] # NULL => heap.prev[heap.next[e]] = e
    /\ heap.head = NULL <=> heap.tail = NULL

\* The pointers implement the ordered map of LruSpec.
Abstract == INSTANCE LruSpec WITH
    max <- max_elements,
    map <- [k \in DOMAIN table |-> value[table[k]]],
    order <- LET at == Walk(heap.next, heap.head)
             IN  {<<key[at[p[1]]], key[at[p[2]]]>> :
                    p \in {q \in (0..max_elements) \X (0..max_elements) :
                             q[1] < q[2] /\ at[q[2]] # NULL}}

\* storage::LRUCache implements LruSpec.
ImplementsLruSpec == Abstract!LruSpecification
=============================================================================
