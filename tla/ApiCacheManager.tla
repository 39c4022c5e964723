--------------------------- MODULE ApiCacheManager ---------------------------
(***************************************************************************)
(* The cache of replies that proxies of SAs keep in a client process:      *)
(* ApiCacheManager of services/safwk/src/api_cache_manager.cpp.  A proxy   *)
(* asks the cache before it sends a request and offers it the reply        *)
(* afterwards; other threads add, delete and clear the caches of the APIs  *)
(* meanwhile.  cachesMutex_ is held for the whole of each call.            *)
(***************************************************************************)
EXTENDS LruCacheOps

CONSTANTS
  Descriptor, Code,   \* an API is a descriptor and a code
  Request,            \* the bytes of a request, the key of its reply
  Client,             \* threads that use proxies
  None,               \* no cache, no reply
  Size,               \* defaultCacheSize
  Expires,            \* expiry times the proxies ask for
  MaxTime, MaxCalls   \* bounds on the clock and on the calls made

ASSUME BoundAssumption == MaxTime \in Nat /\ MaxCalls \in Nat
ASSUME ExpireAssumption == Expires \subseteq Int

Api == Descriptor \X Code

VARIABLES
  caches,   \* caches_: for each API its cache and expiry time, or None
  now,      \* GetTickCount()
  cleared,  \* history: how often the cache of each API was emptied
  request,  \* the request each client has under way
  answer,   \* the last reply each client got from the cache
  calls     \* calls made so far

vars == <<caches, now, cleared, request, answer, calls>>

NoRequest == [state |-> "idle"]

Init ==
  /\ caches = [a \in Api |-> None]
  /\ now = 0
  /\ cleared = [a \in Api |-> 0]
  /\ request = [c \in Client |-> NoRequest]
  /\ answer = [c \in Client |-> None]
  /\ calls = 0

Count == calls < MaxCalls /\ calls' = calls + 1

-----------------------------------------------------------------------------
(* The caches of the APIs                                                  *)

\* The cache of an API that has one is kept, with its expiry time.
AddCacheApi(a, expire) ==
  /\ Count
  /\ caches' = IF caches[a] = None
               THEN [caches EXCEPT ![a] = [cache |-> EmptyCache, expire |-> ExpireTime(expire)]]
               ELSE caches
  /\ UNCHANGED <<now, cleared, request, answer>>

DelCacheApi(a) ==
  /\ Count
  /\ caches' = [caches EXCEPT ![a] = None]
  /\ cleared' = [cleared EXCEPT ![a] = @ + 1]
  /\ UNCHANGED <<now, request, answer>>

\* Mutant: the loop over the caches ends at the first one that it clears.
ClearFirstCache(S) ==
  LET found == {a \in S : caches[a] # None}
      first == CHOOSE a \in found : TRUE
  IN IF found = {} THEN caches ELSE [caches EXCEPT ![first].cache = EmptyCache]

\* The caches of the APIs in a set are emptied, where they exist.
ClearCaches(S) ==
  [a \in Api |-> IF a \in S /\ caches[a] # None
                 THEN [caches[a] EXCEPT !.cache = EmptyCache] ELSE caches[a]]

\* ClearCache(), ClearCache(descriptor) and ClearCache(descriptor, apiCode).
ClearCache(S) ==
  /\ Count
  /\ caches' = ClearCaches(S)
  /\ cleared' = [a \in Api |-> IF a \in S THEN cleared[a] + 1 ELSE cleared[a]]
  /\ UNCHANGED <<now, request, answer>>

Clears == {Api} \cup {{d} \X Code : d \in Descriptor} \cup {{a} : a \in Api}

-----------------------------------------------------------------------------
(* A call through a proxy                                                  *)

\* The reply found in the cache of an API, with its age at this moment.
Found(a, r) ==
  [reply |-> caches[a].cache.data[r], age |-> now - caches[a].cache.data[r].posted,
   expire |-> caches[a].expire, api |-> a, request |-> r, cleared |-> cleared[a]]

\* An empty reply cannot be written to the parcel: it is looked up, but the
\* request is sent all the same.
PreSendRequest(c, a, r) ==
  LET known == caches[a] # None
      hit == known /\ Hit(caches[a].cache, r, now, caches[a].expire)
      written == hit /\ caches[a].cache.data[r].kind # "empty"
  IN /\ Count
     /\ request[c] = NoRequest
     /\ caches' = IF known
                  THEN [caches EXCEPT ![a].cache = DoGet(caches[a].cache, r, now, caches[a].expire)]
                  ELSE caches
     /\ answer' = [answer EXCEPT ![c] = IF written THEN Found(a, r) ELSE None]
     /\ request' = [request EXCEPT ![c] =
          IF written THEN NoRequest ELSE [state |-> "sent", api |-> a, request |-> r]]
     /\ UNCHANGED <<now, cleared>>

\* The SA answers, with data, with nothing or with remote objects, or the proxy
\* gives up on an error.
SendRequest(c) ==
  /\ request[c].state = "sent"
  /\ \/ \E kind \in {"data", "empty", "object"} :
          request' = [request EXCEPT ![c] =
            [state |-> "answered", api |-> @.api, request |-> @.request, kind |-> kind]]
     \/ request' = [request EXCEPT ![c] = NoRequest]
  /\ UNCHANGED <<caches, now, cleared, answer, calls>>

\* The reply of the SA, as it is cached, with the time and the clears so far.
Reply(c) ==
  LET q == request[c]
  IN [api |-> q.api, request |-> q.request, kind |-> q.kind,
      posted |-> now, cleared |-> cleared[q.api]]

\* Mutant: replies with remote objects are cached too.
PostAnyReply(c) ==
  LET a == request[c].api
  IN /\ request[c].state = "answered"
     /\ caches' = IF caches[a] = None THEN caches
                  ELSE [caches EXCEPT ![a].cache =
                          DoAdd(@, request[c].request, Reply(c), now, Size, caches[a].expire)]
     /\ request' = [request EXCEPT ![c] = NoRequest]
     /\ UNCHANGED <<now, cleared, answer, calls>>

PostSendRequest(c) ==
  LET a == request[c].api
  IN /\ request[c].state = "answered"
     /\ caches' = IF request[c].kind = "object" \/ caches[a] = None THEN caches
                  ELSE [caches EXCEPT ![a].cache =
                          DoAdd(@, request[c].request, Reply(c), now, Size, caches[a].expire)]
     /\ request' = [request EXCEPT ![c] = NoRequest]
     /\ UNCHANGED <<now, cleared, answer, calls>>

Tick ==
  /\ now < MaxTime
  /\ now' = now + 1
  /\ UNCHANGED <<caches, cleared, request, answer, calls>>

-----------------------------------------------------------------------------
Next ==
  \/ \E a \in Api : (\E e \in Expires : AddCacheApi(a, e)) \/ DelCacheApi(a)
  \/ \E S \in Clears : ClearCache(S)
  \/ \E c \in Client :
       \/ \E a \in Api, r \in Request : PreSendRequest(c, a, r)
       \/ SendRequest(c)
       \/ PostSendRequest(c)
  \/ Tick

Spec == Init /\ [][Next]_vars

-----------------------------------------------------------------------------
(* Properties                                                              *)

\* However calls, expiry, deletions and clears interleave, a client gets from
\* the cache the reply to the very request it makes, of the same API, and one
\* that holds no remote objects.
AnswerIsOwn ==
  \A c \in Client : answer[c] # None =>
    /\ answer[c].reply.api = answer[c].api
    /\ answer[c].reply.request = answer[c].request
    /\ answer[c].reply.kind = "data"

\* A reply that is used again and again does not live longer for it: what a
\* client gets was cached no longer ago than the expiry time of its API.
AnswerIsRecent ==
  \A c \in Client : answer[c] # None =>
    answer[c].expire = 0 \/ answer[c].age <= answer[c].expire

\* A reply cached before the cache of its API was cleared or deleted is never
\* returned again, also when the API is added anew.  (A reply under way during
\* the clear is cached after it.)
ClearForgets ==
  \A c \in Client : answer[c] # None => answer[c].reply.cleared = answer[c].cleared
=============================================================================
