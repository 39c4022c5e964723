------------------------- MODULE ApiCacheManagerProofs -------------------------
(***************************************************************************)
(* Proofs about ApiCacheManager, for any APIs, requests, clients, sizes    *)
(* and expiry times.  The order of keys_ plays no part in them: whichever  *)
(* key is evicted, what stays is as it was.                                *)
(***************************************************************************)
EXTENDS ApiCacheManager, TLAPS

-----------------------------------------------------------------------------
(* What the methods of a cache do to its entries                           *)

\* Both maps have the same keys.
Even(c) == DOMAIN c.timestamp = DOMAIN c.data

\* Cache d holds entries of cache c, and no others.
Within(d, c) ==
  /\ Even(d)
  /\ \A k \in DOMAIN d.data : /\ k \in DOMAIN c.data
                              /\ d.data[k] = c.data[k]
                              /\ d.timestamp[k] = c.timestamp[k]

\* Removing keys leaves a part of the cache.
LEMMA RemoveKeysWithin ==
  ASSUME NEW c, NEW S, Even(c)
  PROVE  Within(RemoveKeys(c, S), c)
  BY DEF RemoveKeys, Restrict, Within, Even

\* So does dropping the least recently used.
LEMMA PopLruWithin ==
  ASSUME NEW c, Even(c)
  PROVE  Within(PopLru(c), c)
  BY DEF PopLru, Restrict, Within, Even

\* So does making room for an entry.
LEMMA MakeRoomWithin ==
  ASSUME NEW c, NEW time, NEW size, NEW expire, Even(c)
  PROVE  Within(MakeRoom(c, time, size, expire), c)
<1>1. Within(c, c)
  BY DEF Within
<1>2. \/ MakeRoom(c, time, size, expire) = c
      \/ MakeRoom(c, time, size, expire) = RemoveKeys(c, Expired(c, time, expire))
      \/ MakeRoom(c, time, size, expire) = PopLru(c)
  BY DEF MakeRoom, DoClearExpiredCache
<1>3. QED
  BY <1>1, <1>2, RemoveKeysWithin, PopLruWithin

\* Get adds nothing and changes no entry.
LEMMA DoGetWithin ==
  ASSUME NEW c, NEW k, NEW time, NEW expire, Even(c),
         c = [data |-> c.data, timestamp |-> c.timestamp, keys |-> c.keys]
  PROVE  Within(DoGet(c, k, time, expire), c)
<1>1. Within(c, c)
  BY DEF Within
<1>2. Within([c EXCEPT !.keys = ToFront(c.keys, k)], c)
  BY DEF Within, Even
<1>3. QED
  BY <1>1, <1>2, RemoveKeysWithin DEF DoGet, DoRemove

\* Add puts the new value, with its time, beside old entries.
LEMMA DoAddEntries ==
  ASSUME NEW c, NEW k, NEW v, NEW time, NEW size, NEW expire, Even(c)
  PROVE  LET d == DoAdd(c, k, v, time, size, expire)
         IN /\ Even(d)
            /\ \A x \in DOMAIN d.data :
                 \/ x = k /\ d.data[x] = v /\ d.timestamp[x] = time
                 \/ /\ x \in DOMAIN c.data
                    /\ d.data[x] = c.data[x]
                    /\ d.timestamp[x] = c.timestamp[x]
<1> DEFINE room == IF k \in DOMAIN c.data THEN c ELSE MakeRoom(c, time, size, expire)
<1>1. Within(room, c)
  BY MakeRoomWithin DEF Within
<1>2. /\ DoAdd(c, k, v, time, size, expire).data = Put(room.data, k, v)
      /\ DoAdd(c, k, v, time, size, expire).timestamp = Put(room.timestamp, k, time)
  BY DEF DoAdd
<1> HIDE DEF room
<1>3. QED
  BY <1>1, <1>2 DEF Put, Within, Even

-----------------------------------------------------------------------------
(* What is cached                                                          *)

\* The caches are records of the methods' shape; requests are under way, or not.
ApiTypes ==
  /\ now \in Nat
  /\ caches = [a \in Api |-> caches[a]]
  /\ cleared \in [Api -> Nat]
  /\ answer = [c \in Client |-> answer[c]]
  /\ request \in [Client -> {NoRequest} \cup [state : {"sent"}, api : Api, request : Request]
                              \cup [state : {"answered"}, api : Api, request : Request,
                                    kind : {"data", "empty", "object"}]]

\* Entry k of the cache of API a, added at a time, is a reply to that request,
\* without remote objects, made since the cache was last cleared.
GoodEntry(a, k, v, time) ==
  /\ v.api = a /\ v.request = k /\ v.kind \in {"data", "empty"}
  /\ v.cleared = cleared[a]
  /\ v.posted = time /\ time \in Nat

GoodCache(a, c) ==
  /\ c = [data |-> c.data, timestamp |-> c.timestamp, keys |-> c.keys]
  /\ Even(c)
  /\ \A k \in DOMAIN c.data : GoodEntry(a, k, c.data[k], c.timestamp[k])

CacheInv ==
  \A a \in Api : caches[a] # None =>
    /\ caches[a] = [cache |-> caches[a].cache, expire |-> caches[a].expire]
    /\ caches[a].expire \in Nat
    /\ GoodCache(a, caches[a].cache)

ApiInv == ApiTypes /\ CacheInv

\* An empty cache holds nothing that could be wrong.
LEMMA EmptyIsGood == \A a \in Api : GoodCache(a, EmptyCache)
  BY DEF GoodCache, EmptyCache, Even

\* Methods give records of the cache's shape.
LEMMA Shapes ==
  ASSUME NEW c, NEW k, NEW v, NEW time, NEW size, NEW expire,
         c = [data |-> c.data, timestamp |-> c.timestamp, keys |-> c.keys]
  PROVE  /\ LET d == DoGet(c, k, time, expire)
            IN d = [data |-> d.data, timestamp |-> d.timestamp, keys |-> d.keys]
         /\ LET d == DoAdd(c, k, v, time, size, expire)
            IN d = [data |-> d.data, timestamp |-> d.timestamp, keys |-> d.keys]
<1>1. \/ DoGet(c, k, time, expire) = c
      \/ DoGet(c, k, time, expire) = RemoveKeys(c, {k})
      \/ DoGet(c, k, time, expire) = [c EXCEPT !.keys = ToFront(c.keys, k)]
  BY DEF DoGet, DoRemove
<1>2. QED
  BY <1>1 DEF RemoveKeys, DoAdd

\* When caches change at one API and cleared does not, only that cache counts.
LEMMA OneCache ==
  ASSUME ApiInv, NEW a \in Api, caches[a] # None, NEW d, GoodCache(a, d), cleared' = cleared,
         caches' = [caches EXCEPT ![a].cache = d]
  PROVE  caches' = [b \in Api |-> caches'[b]] /\ CacheInv'
<1>1. caches = [b \in Api |-> caches[b]]
  BY DEF ApiInv, ApiTypes
<1>2. \A b \in Api : b # a => caches'[b] = caches[b]
  BY <1>1
<1>3. caches[a] = [cache |-> caches[a].cache, expire |-> caches[a].expire] /\ caches[a].expire \in Nat
  BY DEF ApiInv, CacheInv
<1>4. caches'[a] = [cache |-> d, expire |-> caches[a].expire]
  BY <1>1, <1>3
<1>5. ASSUME NEW b \in Api, caches'[b] # None
      PROVE  /\ caches'[b] = [cache |-> caches'[b].cache, expire |-> caches'[b].expire]
             /\ caches'[b].expire \in Nat
             /\ GoodCache(b, caches[b].cache)'
  <2>1. CASE b = a
    BY <1>3, <1>4, <2>1 DEF GoodCache, GoodEntry
  <2>2. CASE b # a
    BY <1>2, <1>5, <2>2 DEF ApiInv, CacheInv, GoodCache, GoodEntry
  <2>3. QED
    BY <2>1, <2>2
<1>6. QED
  BY <1>1, <1>5 DEF CacheInv

\* The manager starts with no caches.
LEMMA InitApiInv == Init => ApiInv
  BY DEF Init, ApiInv, ApiTypes, CacheInv

\* A look-up leaves a good cache behind.
LEMMA LookUpKeeps ==
  ASSUME ApiInv, NEW c \in Client, NEW a \in Api, NEW r \in Request, PreSendRequest(c, a, r)
  PROVE  caches' = [b \in Api |-> caches'[b]] /\ CacheInv'
<1>1. cleared' = cleared
  BY DEF PreSendRequest
<1>2. CASE caches[a] = None
  <2>1. caches' = caches
    BY <1>2 DEF PreSendRequest
  <2>2. QED
    BY <1>1, <2>1 DEF ApiInv, ApiTypes, CacheInv, GoodCache, GoodEntry
<1>3. CASE caches[a] # None
  <2> DEFINE d == DoGet(caches[a].cache, r, now, caches[a].expire)
  <2>1. caches' = [caches EXCEPT ![a].cache = d]
    BY <1>3 DEF PreSendRequest
  <2>2. GoodCache(a, caches[a].cache)
    BY <1>3 DEF ApiInv, CacheInv
  <2>3. Within(d, caches[a].cache)
    BY <2>2, DoGetWithin DEF GoodCache
  <2>4. d = [data |-> d.data, timestamp |-> d.timestamp, keys |-> d.keys]
    BY <2>2, Shapes DEF GoodCache
  <2> HIDE DEF d
  <2>5. GoodCache(a, d)
    BY <2>2, <2>3, <2>4 DEF GoodCache, Within
  <2>6. QED
    BY <1>1, <1>3, <2>1, <2>5, OneCache
<1>4. QED
  BY <1>2, <1>3

\* A reply that is cached makes a good entry.
LEMMA ReplyKeeps ==
  ASSUME ApiInv, NEW c \in Client, PostSendRequest(c)
  PROVE  caches' = [b \in Api |-> caches'[b]] /\ CacheInv'
<1>1. cleared' = cleared
  BY DEF PostSendRequest
<1>2. request[c] \in [state : {"answered"}, api : Api, request : Request,
                      kind : {"data", "empty", "object"}]
  BY DEF PostSendRequest, ApiInv, ApiTypes, NoRequest
<1>3. PICK a \in Api : a = request[c].api
  BY <1>2
<1>4. CASE caches' = caches
  BY <1>1, <1>4 DEF ApiInv, ApiTypes, CacheInv, GoodCache, GoodEntry
<1>5. CASE request[c].kind # "object" /\ caches[a] # None
  <2> DEFINE d == DoAdd(caches[a].cache, request[c].request, Reply(c), now, Size, caches[a].expire)
  <2>1. caches' = [caches EXCEPT ![a].cache = d]
    BY <1>3, <1>5 DEF PostSendRequest
  <2>2. GoodCache(a, caches[a].cache)
    BY <1>5 DEF ApiInv, CacheInv
  <2>3. GoodEntry(a, request[c].request, Reply(c), now)
    BY <1>2, <1>3, <1>5 DEF GoodEntry, Reply, ApiInv, ApiTypes
  <2>4. /\ Even(d)
        /\ \A x \in DOMAIN d.data :
             \/ x = request[c].request /\ d.data[x] = Reply(c) /\ d.timestamp[x] = now
             \/ /\ x \in DOMAIN caches[a].cache.data
                /\ d.data[x] = caches[a].cache.data[x]
                /\ d.timestamp[x] = caches[a].cache.timestamp[x]
    BY <2>2, DoAddEntries DEF GoodCache
  <2>5. d = [data |-> d.data, timestamp |-> d.timestamp, keys |-> d.keys]
    BY <2>2, Shapes DEF GoodCache
  <2> HIDE DEF d
  <2>6. GoodCache(a, d)
    BY <2>2, <2>3, <2>4, <2>5 DEF GoodCache, GoodEntry
  <2>7. QED
    BY <1>1, <1>5, <2>1, <2>6, OneCache
<1>6. QED
  BY <1>3, <1>4, <1>5 DEF PostSendRequest

\* A cache that is dropped or emptied holds nothing, so the count of clears may
\* go up.
LEMMA ClearKeeps ==
  ASSUME ApiInv,
         \/ \E a \in Api : DelCacheApi(a)
         \/ \E S \in Clears : ClearCache(S)
  PROVE  caches' = [b \in Api |-> caches'[b]] /\ CacheInv' /\ cleared' \in [Api -> Nat]
<1> USE DEF ApiInv, ApiTypes
<1>1. ASSUME NEW a \in Api, DelCacheApi(a)
      PROVE  caches' = [b \in Api |-> caches'[b]] /\ CacheInv' /\ cleared' \in [Api -> Nat]
  <2>1. \A b \in Api : caches'[b] = IF b = a THEN None ELSE caches[b]
    BY <1>1 DEF DelCacheApi
  <2>2. \A b \in Api : b # a => cleared'[b] = cleared[b]
    BY <1>1 DEF DelCacheApi
  <2>3. CacheInv'
    BY <2>1, <2>2 DEF CacheInv, GoodCache, GoodEntry
  <2>4. QED
    BY <1>1, <2>3 DEF DelCacheApi
<1>2. ASSUME NEW S \in Clears, ClearCache(S)
      PROVE  caches' = [b \in Api |-> caches'[b]] /\ CacheInv' /\ cleared' \in [Api -> Nat]
  <2>1. \A b \in Api : caches'[b] = IF b \in S /\ caches[b] # None
                                    THEN [caches[b] EXCEPT !.cache = EmptyCache] ELSE caches[b]
    BY <1>2 DEF ClearCache, ClearCaches
  <2>2. \A b \in Api \ S : cleared'[b] = cleared[b]
    BY <1>2 DEF ClearCache
  <2>3. ASSUME NEW b \in Api, caches'[b] # None
        PROVE  /\ caches'[b] = [cache |-> caches'[b].cache, expire |-> caches'[b].expire]
               /\ caches'[b].expire \in Nat
               /\ GoodCache(b, caches[b].cache)'
    <3>1. CASE b \in S /\ caches[b] # None
      <4>1. caches'[b] = [cache |-> EmptyCache, expire |-> caches[b].expire] /\ caches[b].expire \in Nat
        BY <2>1, <3>1 DEF CacheInv
      <4>2. QED
        BY <4>1 DEF GoodCache, EmptyCache, Even
    <3>2. CASE ~(b \in S /\ caches[b] # None)
      <4>1. b \notin S /\ caches'[b] = caches[b] /\ cleared'[b] = cleared[b]
        BY <2>1, <2>2, <2>3, <3>2
      <4>2. QED
        BY <2>3, <4>1 DEF CacheInv, GoodCache, GoodEntry
    <3>3. QED
      BY <3>1, <3>2
  <2>4. caches' = [b \in Api |-> caches'[b]] /\ cleared' \in [Api -> Nat]
    BY <1>2 DEF ClearCache, ClearCaches
  <2>5. QED
    BY <2>3, <2>4 DEF CacheInv
<1>3. QED
  BY <1>1, <1>2

\* Every action keeps the invariant.
LEMMA NextApiInv == ApiInv /\ [Next]_vars => ApiInv'
<1> SUFFICES ASSUME ApiInv, [Next]_vars PROVE ApiInv'
  OBVIOUS
<1>1. ASSUME NEW a \in Api, NEW e \in Expires, AddCacheApi(a, e) PROVE ApiInv'
  <2>1. ExpireTime(e) \in Nat
    BY ExpireAssumption DEF ExpireTime
  <2>2. \A b \in Api : caches'[b] = IF b = a /\ caches[b] = None
                                    THEN [cache |-> EmptyCache, expire |-> ExpireTime(e)] ELSE caches[b]
    BY <1>1 DEF AddCacheApi, ApiInv, ApiTypes
  <2>3. cleared' = cleared
    BY <1>1 DEF AddCacheApi
  <2>4. CacheInv'
    BY <2>1, <2>2, <2>3, EmptyIsGood DEF CacheInv, ApiInv, GoodCache, GoodEntry
  <2>5. QED
    BY <1>1, <2>4 DEF AddCacheApi, ApiInv, ApiTypes
<1>2. CASE \/ \E a \in Api : DelCacheApi(a)
           \/ \E S \in Clears : ClearCache(S)
  <2>1. UNCHANGED <<now, request, answer>>
    BY <1>2 DEF DelCacheApi, ClearCache
  <2>2. QED
    BY <1>2, <2>1, ClearKeeps DEF ApiInv, ApiTypes
<1>3. ASSUME NEW c \in Client, NEW a \in Api, NEW r \in Request, PreSendRequest(c, a, r)
      PROVE  ApiInv'
  BY <1>3, LookUpKeeps DEF PreSendRequest, ApiInv, ApiTypes
<1>4. ASSUME NEW c \in Client, SendRequest(c) PROVE ApiInv'
  <2>1. UNCHANGED <<caches, now, cleared, answer>>
    BY <1>4 DEF SendRequest
  <2>2. request[c] \in [state : {"sent"}, api : Api, request : Request]
    BY <1>4 DEF SendRequest, ApiInv, ApiTypes, NoRequest
  <2>3. CacheInv'
    BY <2>1 DEF ApiInv, CacheInv, GoodCache, GoodEntry
  <2>4. QED
    BY <1>4, <2>1, <2>2, <2>3 DEF SendRequest, ApiInv, ApiTypes
<1>5. ASSUME NEW c \in Client, PostSendRequest(c) PROVE ApiInv'
  BY <1>5, ReplyKeeps DEF PostSendRequest, ApiInv, ApiTypes
<1>6. CASE Tick \/ UNCHANGED vars
  <2>1. UNCHANGED <<caches, cleared, request, answer>> /\ now' \in {now, now + 1}
    BY <1>6 DEF Tick, vars
  <2>2. CacheInv'
    BY <2>1 DEF ApiInv, CacheInv, GoodCache, GoodEntry
  <2>3. ApiTypes'
    BY <2>1 DEF ApiInv, ApiTypes
  <2>4. QED
    BY <2>2, <2>3 DEF ApiInv
<1>7. QED
  BY <1>1, <1>2, <1>3, <1>4, <1>5, <1>6 DEF Next

\* Whatever is in a cache is the reply to the request it is found under, younger
\* than the last clear, and as old as the cache takes it to be.
THEOREM CacheInvariant == Spec => []ApiInv
  BY InitApiInv, NextApiInv, PTL DEF Spec

-----------------------------------------------------------------------------
(* What clients get                                                        *)

\* Every answer is a good entry that has not expired.
LEMMA AnswerIsGood ==
  ASSUME ApiInv, NEW c \in Client, NEW a \in Api, NEW r \in Request, PreSendRequest(c, a, r),
         answer'[c] # None
  PROVE  /\ answer'[c].reply.api = answer'[c].api
         /\ answer'[c].reply.request = answer'[c].request
         /\ answer'[c].reply.kind = "data"
         /\ answer'[c].reply.cleared = answer'[c].cleared
         /\ answer'[c].expire = 0 \/ answer'[c].age <= answer'[c].expire
<1>1. /\ caches[a] # None
      /\ Hit(caches[a].cache, r, now, caches[a].expire)
      /\ caches[a].cache.data[r].kind # "empty"
      /\ answer'[c] = Found(a, r)
  BY DEF PreSendRequest, ApiInv, ApiTypes
<1>2. GoodEntry(a, r, caches[a].cache.data[r], caches[a].cache.timestamp[r]) /\ caches[a].expire \in Nat
  BY <1>1 DEF ApiInv, CacheInv, GoodCache, Hit
<1>3. caches[a].expire = 0 \/ now - caches[a].cache.timestamp[r] <= caches[a].expire
  <2>1. r \in DOMAIN caches[a].cache.timestamp
    BY <1>1 DEF ApiInv, CacheInv, GoodCache, Even, Hit
  <2>2. now \in Nat /\ caches[a].cache.timestamp[r] \in Nat
    BY <1>2 DEF GoodEntry, ApiInv, ApiTypes
  <2>3. QED
    BY <1>1, <1>2, <2>1, <2>2 DEF Hit, Expired, IsExpired
<1>4. QED
  BY <1>1, <1>2, <1>3 DEF Found, GoodEntry

\* What the three properties say of one answer.
AnswerInv == AnswerIsOwn /\ AnswerIsRecent /\ ClearForgets

\* An answer given stays right, and a new one comes from a cache whose entries are.
LEMMA NextAnswerInv == ApiInv /\ AnswerInv /\ [Next]_vars => AnswerInv'
<1> SUFFICES ASSUME ApiInv, AnswerInv, [Next]_vars PROVE AnswerInv'
  OBVIOUS
<1>1. CASE UNCHANGED answer
  BY <1>1 DEF AnswerInv, AnswerIsOwn, AnswerIsRecent, ClearForgets
<1>2. ASSUME NEW c \in Client, NEW a \in Api, NEW r \in Request, PreSendRequest(c, a, r)
      PROVE  AnswerInv'
  <2>1. \A b \in Client : b # c => answer'[b] = answer[b]
    BY <1>2 DEF PreSendRequest, ApiInv, ApiTypes
  <2>2. QED
    BY <1>2, <2>1, AnswerIsGood DEF AnswerInv, AnswerIsOwn, AnswerIsRecent, ClearForgets
<1>3. QED
  BY <1>1, <1>2 DEF Next, vars, AddCacheApi, DelCacheApi, ClearCache, SendRequest, PostSendRequest, Tick

\* Every answer is right in all three respects.
LEMMA AnswerInvariant == Spec => []AnswerInv
<1>1. Init => AnswerInv
  BY DEF Init, AnswerInv, AnswerIsOwn, AnswerIsRecent, ClearForgets
<1>2. QED
  BY <1>1, NextAnswerInv, CacheInvariant, PTL DEF Spec

\* A client gets the reply to its own request.
THEOREM AnswersAreOwn == Spec => []AnswerIsOwn
  BY AnswerInvariant, PTL DEF AnswerInv

\* No answer is older than the expiry time, however often it has been used.
THEOREM AnswersAreRecent == Spec => []AnswerIsRecent
  BY AnswerInvariant, PTL DEF AnswerInv

\* Nothing cached before a clear or a deletion is returned after it.
THEOREM ClearsForget == Spec => []ClearForgets
  BY AnswerInvariant, PTL DEF AnswerInv
=============================================================================
