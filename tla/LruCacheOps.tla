----------------------------- MODULE LruCacheOps -----------------------------
(***************************************************************************)
(* ExpireLruCache of interfaces/innerkits/safwk/expire_lru_cache.h, as     *)
(* operators on a record of its three members: the map data_, the map      *)
(* timestamp_ and the list keys_, most recently used first.  Every method  *)
(* holds the lock_ of the cache from beginning to end.                     *)
(***************************************************************************)
EXTENDS Integers, Sequences, FiniteSets, Functions

EmptyCache == [data |-> <<>>, timestamp |-> <<>>, keys |-> <<>>]

\* The constructor corrects its arguments.
CacheSize(size) == IF size > 0 THEN size ELSE 1
ExpireTime(expire) == IF expire < 0 THEN 1000 ELSE expire

IsExpired(born, now, interval) == now - born > interval

\* keys_.remove, for each key of S: those that stay keep their order.
ListRemove(keys, S) ==
  LET kept[i \in 0..Len(keys)] ==
        IF i = 0 THEN <<>>
        ELSE IF keys[i] \in S THEN kept[i - 1] ELSE Append(kept[i - 1], keys[i])
  IN kept[Len(keys)]

\* splice to the front; the key is in the list once.
ToFront(keys, k) == <<k>> \o ListRemove(keys, {k})

RemoveKeys(c, S) ==
  [data |-> Restrict(c.data, DOMAIN c.data \ S),
   timestamp |-> Restrict(c.timestamp, DOMAIN c.timestamp \ S),
   keys |-> ListRemove(c.keys, S)]

DoRemove(c, k) == RemoveKeys(c, {k})

\* An expiry time of 0 means that nothing expires.
Expired(c, now, expire) ==
  {k \in DOMAIN c.timestamp : expire > 0 /\ IsExpired(c.timestamp[k], now, expire)}

\* Mutant: the keys of the entries dropped stay in the list.
ClearExpiredKeepsKeys(c, now, expire) ==
  [RemoveKeys(c, Expired(c, now, expire)) EXCEPT !.keys = c.keys]

DoClearExpiredCache(c, now, expire) == RemoveKeys(c, Expired(c, now, expire))

PopLru(c) ==
  LET lruKey == c.keys[Len(c.keys)]
  IN [data |-> Restrict(c.data, DOMAIN c.data \ {lruKey}),
      timestamp |-> Restrict(c.timestamp, DOMAIN c.timestamp \ {lruKey}),
      keys |-> SubSeq(c.keys, 1, Len(c.keys) - 1)]

\* A full cache drops what has expired or, if nothing has, the key not used for
\* longest.
MakeRoom(c, now, size, expire) ==
  CASE Cardinality(DOMAIN c.data) < size -> c
    [] Cardinality(DOMAIN c.data) >= size /\ Expired(c, now, expire) # {} ->
         DoClearExpiredCache(c, now, expire)
    [] OTHER -> PopLru(c)

\* f[k] = v, in a map.
Put(f, k, v) == [x \in DOMAIN f \cup {k} |-> IF x = k THEN v ELSE f[x]]

DoAdd(c, k, v, now, size, expire) ==
  LET known == k \in DOMAIN c.data
      room == IF known THEN c ELSE MakeRoom(c, now, size, expire)
  IN [data |-> Put(room.data, k, v),
      timestamp |-> Put(room.timestamp, k, now),
      keys |-> IF known THEN ToFront(c.keys, k) ELSE <<k>> \o room.keys]

\* Get finds the key and it has not expired.
Hit(c, k, now, expire) ==
  k \in DOMAIN c.data /\ k \notin Expired(c, now, expire)

\* Mutant: a Get does not count as a use.
DoGetUnused(c, k, now, expire) ==
  IF k \in Expired(c, now, expire) THEN DoRemove(c, k) ELSE c

\* Mutant: a use makes the entry young again.
DoGetRefreshes(c, k, now, expire) ==
  CASE k \notin DOMAIN c.data -> c
    [] k \in Expired(c, now, expire) -> DoRemove(c, k)
    [] OTHER -> [c EXCEPT !.keys = ToFront(c.keys, k), !.timestamp[k] = now]

\* What Get leaves behind: the key found is the most recently used one, the key
\* found expired is removed.
DoGet(c, k, now, expire) ==
  CASE k \notin DOMAIN c.data -> c
    [] k \in Expired(c, now, expire) -> DoRemove(c, k)
    [] OTHER -> [c EXCEPT !.keys = ToFront(c.keys, k)]
=============================================================================
