---------------------------- MODULE ExpireLruCache ----------------------------
(***************************************************************************)
(* One ExpireLruCache, used in any order, and the store it implements.     *)
(***************************************************************************)
EXTENDS LruCacheOps

CONSTANTS
  Key, Value,
  Nothing,     \* nullptr, the answer of a Get that finds nothing
  SizeGiven,   \* the constructor's arguments, one size and several times
  ExpiresGiven,
  MaxTime,     \* bound on the clock
  MaxUses      \* bound on the number of calls

ASSUME BoundAssumption == MaxTime \in Nat /\ MaxUses \in Nat
ASSUME ArgumentAssumption == SizeGiven \in Nat /\ ExpiresGiven \subseteq Int
ASSUME NothingAssumption == Nothing \notin Value

VARIABLES
  expire,   \* expireTimeMilliSec_, set by the constructor
  cache,    \* data_, timestamp_ and keys_
  now,      \* GetTickCount()
  answer,   \* the result of the last Get
  uses,     \* history: calls made so far
  lastUse   \* history: the last call that used each key

vars == <<expire, cache, now, answer, uses, lastUse>>

Size == CacheSize(SizeGiven)
Expires == {ExpireTime(e) : e \in ExpiresGiven}

Init ==
  /\ expire \in Expires
  /\ cache = EmptyCache
  /\ now = 0
  /\ answer = Nothing
  /\ uses = 0
  /\ lastUse = [k \in Key |-> 0]

Use(k) ==
  /\ uses < MaxUses
  /\ uses' = uses + 1
  /\ lastUse' = [lastUse EXCEPT ![k] = uses + 1]

Add(k, v) ==
  /\ Use(k)
  /\ cache' = DoAdd(cache, k, v, now, Size, expire)
  /\ UNCHANGED <<expire, now, answer>>

Get(k) ==
  /\ Use(k)
  /\ cache' = DoGet(cache, k, now, expire)
  /\ answer' = IF Hit(cache, k, now, expire) THEN cache.data[k] ELSE Nothing
  /\ UNCHANGED <<expire, now>>

Remove(k) ==
  /\ Use(k)
  /\ cache' = DoRemove(cache, k)
  /\ UNCHANGED <<expire, now, answer>>

Clear ==
  /\ uses < MaxUses
  /\ uses' = uses + 1
  /\ cache' = EmptyCache
  /\ UNCHANGED <<expire, now, answer, lastUse>>

Tick ==
  /\ now < MaxTime
  /\ now' = now + 1
  /\ UNCHANGED <<expire, cache, answer, uses, lastUse>>

Next ==
  \/ \E k \in Key : \/ \E v \in Value : Add(k, v)
                    \/ Get(k)
                    \/ Remove(k)
  \/ Clear
  \/ Tick

Spec == Init /\ [][Next]_vars

-----------------------------------------------------------------------------
\* data_, timestamp_ and keys_ are changed one after the other in every method:
\* they always hold the same keys, each once in the list, and never more than
\* the size allows.
StructuresAgree ==
  /\ DOMAIN cache.timestamp = DOMAIN cache.data
  /\ {cache.keys[i] : i \in 1..Len(cache.keys)} = DOMAIN cache.data
  /\ Len(cache.keys) = Cardinality(DOMAIN cache.data)
  /\ Len(cache.keys) <= Size

\* The store that the three structures stand for.
Store ==
  [k \in DOMAIN cache.data |->
     [value |-> cache.data[k], born |-> cache.timestamp[k], used |-> lastUse[k]]]

Promise == INSTANCE ExpiringStore WITH store <- Store

\* Whatever the order of calls, the list keys_ evicts exactly the least recently
\* used key, expiry drops exactly the keys that are too old, and a Get returns
\* what was added last under the key.
ImplementsStore == Promise!Spec
=============================================================================
