--------------------------------- MODULE Lru ---------------------------------
(***************************************************************************)
(* The LruCache of the `lru' crate as crates/ipfrs-storage/src/cache.rs    *)
(* uses it: the keys, most recently used first.  Keys are CIDs, and a      *)
(* cache has room for one at least (a NonZeroUsize in the code).           *)
(***************************************************************************)
EXTENDS Naturals, SequencesExt

CONSTANTS Cid,
          l1_capacity  \* the size of the cache that is looked at first

ASSUME LruAssumption == l1_capacity \in Nat \ {0}

Has(cache, c) == \E i \in DOMAIN cache : cache[i] = c

\* A key has one entry.
pop(cache, c) == IF Has(cache, c) THEN RemoveAt(cache, CHOOSE i \in DOMAIN cache : cache[i] = c) ELSE cache

\* get: a hit becomes the most recent entry.
touch(cache, c) == IF Has(cache, c) THEN <<c>> \o pop(cache, c) ELSE cache

\* push and put: the least recent entry makes room.
push(cache, c, capacity) ==
    LET all == <<c>> \o pop(cache, c)
    IN  IF Len(all) > capacity THEN SubSeq(all, 1, capacity) ELSE all

\* What push returns: the entry that made room, or the old entry of the key.
displaced(cache, c, capacity) ==
    IF Has(cache, c) THEN {c}
    ELSE IF Len(cache) = capacity THEN {cache[capacity]} ELSE {}
=============================================================================
