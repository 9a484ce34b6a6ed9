------------------------------ MODULE LRUCache ------------------------------
(* One shard of the cache of util/cache.cc: LRUHandle, HandleTable and     *)
(* LRUCache.  Each method runs under the mutex of the shard and is an      *)
(* operator here, from one state of the shard to the next.                 *)
(*                                                                         *)
(* A shard is a record: its handles by number, with their references; the  *)
(* two lists; the hash table, from keys to handles; usage_, capacity_.     *)
(* A handle that is no longer in DOMAIN handles has been freed, and its    *)
(* value deleted.                                                          *)
EXTENDS Naturals, Sequences, FiniteSets, FiniteSetsExt, SequencesExt

Shard(capacity) ==
    [handles |-> <<>>, lru |-> <<>>, in_use |-> {}, table |-> <<>>, usage |-> 0,
     capacity |-> capacity, last |-> 0]

\* HandleTable: which handle a key has
Holds(f, x)   == x \in DOMAIN f
Removed(f, x) == [y \in DOMAIN f \ {x} |-> f[y]]
Put(f, x, y)  == [z \in DOMAIN f \cup {x} |-> IF z = x THEN y ELSE f[z]]

\* e leaves the list that it is on, if it is this one.
LRU_Remove(q, e) ==
    IF e \in ToSet(q) THEN RemoveAt(q, CHOOSE i \in DOMAIN q : q[i] = e) ELSE q

\* A handle acquires a reference: if it was on lru_, it moves to in_use_.
Ref(c, e) ==
    LET unused == c.handles[e].refs = 1 /\ c.handles[e].in_cache
    IN  [c EXCEPT !.handles[e].refs = @ + 1,
                  !.lru    = IF unused THEN LRU_Remove(@, e) ELSE @,
                  !.in_use = IF unused THEN @ \cup {e} ELSE @]

\* The last reference frees it; the last one but that of the cache moves it to
\* lru_, as its newest.
Unref(c, e) ==
    LET h == c.handles[e]
    IN  IF h.refs = 1 THEN [c EXCEPT !.handles = Removed(@, e)]
        ELSE LET unused == h.in_cache /\ h.refs = 2
             IN  [c EXCEPT !.handles[e].refs = @ - 1,
                           !.lru    = IF unused THEN Append(@, e) ELSE @,
                           !.in_use = IF unused THEN @ \ {e} ELSE @]

\* Mutant of FinishErase: usage_ is not counted down.
FinishEraseUncounted(c, e) ==
    Unref([c EXCEPT !.lru = LRU_Remove(@, e), !.in_use = @ \ {e},
                    !.handles[e].in_cache = FALSE], e)

\* e has left the hash table
FinishErase(c, e) ==
    Unref([c EXCEPT !.lru = LRU_Remove(@, e), !.in_use = @ \ {e},
                    !.handles[e].in_cache = FALSE,
                    !.usage = @ - c.handles[e].charge], e)

\* table_.Remove() and FinishErase()
Erase(c, key) ==
    IF Holds(c.table, key)
    THEN FinishErase([c EXCEPT !.table = Removed(@, key)], c.table[key]) ELSE c

\* Mutant of Shed: nothing is taken from lru_.
ShedNothing(c) == c

\* Insert() ends by taking the oldest from lru_ until usage_ is within capacity_.
Shed(c) ==
    FoldLeft(LAMBDA d, e : IF d.usage > d.capacity THEN Erase(d, d.handles[e].key) ELSE d,
             c, c.lru)

Prune(c) == FoldLeft(LAMBDA d, e : Erase(d, d.handles[e].key), c, c.lru)

\* The new handle, in use by the caller and, if there is a capacity, in the
\* cache, where it takes the place of one of the same key
Placed(c, key, value, charge) ==
    LET new    == c.last + 1
        cached == c.capacity > 0
        h      == [key |-> key, value |-> value, charge |-> charge,
                   in_cache |-> cached, refs |-> IF cached THEN 2 ELSE 1]
    IN  [c EXCEPT !.handles = Put(@, new, h), !.last = new,
                  !.in_use  = IF cached THEN @ \cup {new} ELSE @,
                  !.usage   = IF cached THEN @ + charge ELSE @,
                  !.table   = IF cached THEN Put(@, key, new) ELSE @]

InsertEntry(c, key, value, charge) ==
    LET placed == Placed(c, key, value, charge)
    IN  Shed(IF c.capacity > 0 /\ Holds(c.table, key)
             THEN FinishErase(placed, c.table[key]) ELSE placed)

\* Lookup() of a key that is there, at e
Lookup(c, e) == Ref(c, e)

\* In-cache handles are those of the hash table, on lru_ if only the cache has
\* a reference and else on in_use_; usage_ is what they are charged; held(e) is
\* how many references clients have.
ShardOK(c, held(_)) ==
    LET inCache == {e \in DOMAIN c.handles : c.handles[e].in_cache}
    IN  /\ \A e \in DOMAIN c.handles :
              c.handles[e].refs = held(e) + IF e \in inCache THEN 1 ELSE 0
        /\ ToSet(c.lru) = {e \in inCache : c.handles[e].refs = 1}
        /\ Cardinality(ToSet(c.lru)) = Len(c.lru)
        /\ c.in_use = {e \in inCache : c.handles[e].refs > 1}
        /\ {c.table[k] : k \in DOMAIN c.table} = inCache
        /\ \A k \in DOMAIN c.table : c.handles[c.table[k]].key = k
        /\ c.usage = MapThenSumSet(LAMBDA e : c.handles[e].charge, inCache)
=============================================================================
