------------------------- MODULE ExpireLruCacheProofs -------------------------
(***************************************************************************)
(* Proofs about ExpireLruCache, for any keys, values, size and expiry      *)
(* times: its three members agree, and it implements ExpiringStore.        *)
(***************************************************************************)
EXTENDS ExpireLruCache, FiniteSetTheorems, WellFoundedInduction, TLAPS

-----------------------------------------------------------------------------
(* Induction over the natural numbers, for sets instead of formulas        *)

\* A set of numbers that is not empty has a least member.
LEMMA LeastElement ==
  ASSUME NEW T, T \subseteq Nat, T # {}
  PROVE  \E n \in T : \A m \in T : n <= m
<1>1. PICK n \in T : \A m \in T : <<m, n>> \notin OpToRel(<, Nat)
  BY NatLessThanWellFounded, WFMin, Zenon
<1>2. \A m \in T : <<m, n>> \in Nat \X Nat
  OBVIOUS
<1>3. \A m \in T : ~(m < n)
  BY <1>1, <1>2 DEF OpToRel
<1>4. QED
  BY <1>3

\* A set with 0 and the successor of every member holds every number.
LEMMA InductiveSet ==
  ASSUME NEW T, 0 \in T, \A n \in Nat : n \in T => n + 1 \in T
  PROVE  Nat \subseteq T
<1>. SUFFICES ASSUME Nat \ T # {} PROVE FALSE
  OBVIOUS
<1>1. PICK n \in Nat \ T : \A m \in Nat \ T : n <= m
  BY LeastElement
<1>2. n - 1 \in Nat /\ n - 1 \in T
  BY <1>1
<1>3. QED
  BY <1>2

-----------------------------------------------------------------------------
(* What ListRemove leaves of a list                                        *)

\* One round of its loop.
Round(keys, S, f, i) ==
  IF i = 0 THEN <<>> ELSE IF keys[i] \in S THEN f[i - 1] ELSE Append(f[i - 1], keys[i])

\* The loop can be run: its equation has a solution.
LEMMA RoundsExist ==
  ASSUME NEW keys, NEW S, NEW m \in Nat
  PROVE  \E f : f = [i \in 0..m |-> Round(keys, S, f, i)]
<1>. DEFINE Runs(n) == \E f : f = [i \in 0..n |-> Round(keys, S, f, i)]
            T == {n \in Nat : Runs(n)}
<1>1. 0 \in T
  <2>. DEFINE g == [i \in 0..0 |-> <<>>]
  <2>1. g = [i \in 0..0 |-> Round(keys, S, g, i)]
    BY DEF Round
  <2>2. QED
    BY <2>1
<1>2. ASSUME NEW n \in Nat, n \in T PROVE n + 1 \in T
  <2>1. PICK f : f = [i \in 0..n |-> Round(keys, S, f, i)]
    BY <1>2
  <2>. DEFINE g == [i \in 0..n + 1 |-> IF i <= n THEN f[i] ELSE Round(keys, S, f, i)]
  <2>2. ASSUME NEW i \in 0..n + 1 PROVE g[i] = Round(keys, S, g, i)
    <3>1. i # 0 => g[i - 1] = f[i - 1]
      OBVIOUS
    <3>2. Round(keys, S, g, i) = Round(keys, S, f, i)
      BY <3>1 DEF Round
    <3>3. QED
      BY <2>1, <3>2
  <2>. HIDE DEF g
  <2>3. g = [i \in 0..n + 1 |-> Round(keys, S, g, i)]
    BY <2>2 DEF g
  <2>4. QED
    BY <2>3
<1>. HIDE DEF T
<1>3. Nat \subseteq T
  BY <1>1, <1>2, InductiveSet
<1>4. QED
  BY <1>3 DEF T

\* List r is what is left of the first n keys: e tells where each one was.
Kept(keys, S, n, r, e) ==
  /\ e \in [1..Len(r) -> 1..n]
  /\ \A i, j \in 1..Len(r) : i < j => e[i] < e[j]
  /\ \A i \in 1..Len(r) : r[i] = keys[e[i]] /\ r[i] \notin S
  /\ \A j \in 1..n : keys[j] \notin S => \E i \in 1..Len(r) : e[i] = j

\* ListRemove keeps the keys that are not in S, in their order.
LEMMA ListRemoveKeeps ==
  ASSUME NEW X, NEW keys \in Seq(X), NEW S
  PROVE  /\ ListRemove(keys, S) \in Seq(X)
         /\ \E e : Kept(keys, S, Len(keys), ListRemove(keys, S), e)
<1>. DEFINE f == CHOOSE f : f = [i \in 0..Len(keys) |-> Round(keys, S, f, i)]
            T == {n \in Nat : n <= Len(keys) => f[n] \in Seq(X) /\ \E e : Kept(keys, S, n, f[n], e)}
<1>1. f = [i \in 0..Len(keys) |-> Round(keys, S, f, i)]
  BY RoundsExist
<1>2. ListRemove(keys, S) = f[Len(keys)]
  BY DEF ListRemove, Round
<1>. HIDE DEF f
<1>3. 0 \in T
  <2>1. f[0] = <<>>
    BY <1>1 DEF Round
  <2>. DEFINE e == [i \in 1..0 |-> 0]
  <2>2. Kept(keys, S, 0, f[0], e)
    BY <2>1 DEF Kept
  <2>3. <<>> \in Seq(X)
    OBVIOUS
  <2>4. QED
    BY <2>1, <2>2, <2>3
<1>4. ASSUME NEW n \in Nat, n \in T PROVE n + 1 \in T
  <2>. SUFFICES ASSUME n + 1 <= Len(keys)
                PROVE  f[n + 1] \in Seq(X) /\ \E e : Kept(keys, S, n + 1, f[n + 1], e)
    OBVIOUS
  <2>1. PICK e : f[n] \in Seq(X) /\ Kept(keys, S, n, f[n], e)
    BY <1>4
  <2>2. f[n + 1] = IF keys[n + 1] \in S THEN f[n] ELSE Append(f[n], keys[n + 1])
    <3>1. n + 1 \in 0..Len(keys) /\ n + 1 # 0 /\ (n + 1) - 1 = n
      OBVIOUS
    <3>2. f[n + 1] = Round(keys, S, f, n + 1)
      BY <1>1, <3>1
    <3>3. QED
      BY <3>1, <3>2 DEF Round
  <2>3. CASE keys[n + 1] \in S
    <3>1. f[n + 1] = f[n] /\ Len(f[n]) \in Nat
      BY <2>1, <2>2, <2>3
    <3>2. e \in [1..Len(f[n]) -> 1..n + 1]
      BY <2>1, <3>1 DEF Kept
    <3>3. \A j \in 1..n + 1 : keys[j] \notin S => \E i \in 1..Len(f[n]) : e[i] = j
      BY <2>1, <2>3, <3>1 DEF Kept
    <3>4. Kept(keys, S, n + 1, f[n], e)
      BY <2>1, <3>2, <3>3 DEF Kept
    <3>5. QED
      BY <2>1, <3>1, <3>4
  <2>4. CASE keys[n + 1] \notin S
    <3>. DEFINE l == Len(f[n])
                d == [i \in 1..l + 1 |-> IF i <= l THEN e[i] ELSE n + 1]
    <3>1. /\ f[n + 1] \in Seq(X) /\ Len(f[n + 1]) = l + 1 /\ l \in Nat
          /\ \A i \in 1..l : f[n + 1][i] = f[n][i]
          /\ f[n + 1][l + 1] = keys[n + 1]
      BY <2>1, <2>2, <2>4
    <3>2. Kept(keys, S, n + 1, f[n + 1], d)
      <4>1. d \in [1..l + 1 -> 1..n + 1]
        BY <2>1, <3>1 DEF Kept
      <4>5. /\ \A i \in 1..l : d[i] = e[i] /\ e[i] \in 1..n
            /\ d[l + 1] = n + 1
        <5>1. e \in [1..l -> 1..n]
          BY <2>1 DEF Kept
        <5>. HIDE DEF l
        <5>2. ASSUME NEW i \in 1..l PROVE d[i] = e[i]
          <6>1. i \in 1..l + 1 /\ i <= l
            BY <3>1
          <6>2. QED
            BY <6>1
        <5>3. l + 1 \in 1..l + 1 /\ ~(l + 1 <= l)
          BY <3>1
        <5>4. d[l + 1] = n + 1
          BY <5>3
        <5>5. QED
          BY <5>1, <5>2, <5>4
      <4>6. \A i \in 1..l + 1 : i \in 1..l \/ i = l + 1
        BY <3>1
      <4>. HIDE DEF d
      <4>2. ASSUME NEW i \in 1..l + 1, NEW j \in 1..l + 1, i < j PROVE d[i] < d[j]
        <5>1. CASE j = l + 1
          BY <3>1, <4>2, <4>5, <5>1
        <5>2. CASE j \in 1..l
          <6>1. i \in 1..l /\ e[i] < e[j]
            BY <2>1, <3>1, <4>2, <5>2 DEF Kept
          <6>2. QED
            BY <4>5, <5>2, <6>1
        <5>3. QED
          BY <4>6, <5>1, <5>2
      <4>3. ASSUME NEW i \in 1..l + 1 PROVE f[n + 1][i] = keys[d[i]] /\ f[n + 1][i] \notin S
        <5>1. CASE i = l + 1
          BY <2>4, <3>1, <4>5, <5>1
        <5>2. CASE i \in 1..l
          BY <2>1, <3>1, <4>5, <5>2 DEF Kept
        <5>3. QED
          BY <4>6, <5>1, <5>2
      <4>4. ASSUME NEW j \in 1..n + 1, keys[j] \notin S PROVE \E i \in 1..l + 1 : d[i] = j
        <5>1. CASE j = n + 1
          BY <3>1, <4>5, <5>1
        <5>2. CASE j \in 1..n
          <6>1. PICK i \in 1..l : e[i] = j
            BY <2>1, <4>4, <5>2 DEF Kept
          <6>2. i \in 1..l + 1 /\ d[i] = j
            BY <3>1, <4>5, <6>1
          <6>3. QED
            BY <6>2
        <5>3. QED
          BY <5>1, <5>2
      <4>7. QED
        BY <3>1, <4>1, <4>2, <4>3, <4>4 DEF Kept
    <3>3. QED
      BY <3>1, <3>2
  <2>5. QED
    BY <2>3, <2>4
<1>. HIDE DEF T
<1>5. Nat \subseteq T
  BY <1>3, <1>4, InductiveSet
<1>6. Len(keys) \in T
  BY <1>5
<1>7. QED
  BY <1>2, <1>6 DEF T

-----------------------------------------------------------------------------
(* The three members of a cache                                            *)

Listed(keys) == {keys[i] : i \in 1..Len(keys)}

\* The list is in the order of the last uses, the latest one first.
Ordered(keys, last) ==
  \A i, j \in 1..Len(keys) : i < j => last[keys[j]] < last[keys[i]]

Sound(c, last) ==
  /\ c = [data |-> c.data, timestamp |-> c.timestamp, keys |-> c.keys]
  /\ c.keys \in Seq(Key)
  /\ DOMAIN c.timestamp = DOMAIN c.data
  /\ Listed(c.keys) = DOMAIN c.data
  /\ Ordered(c.keys, last)

\* Every key is in the list once.
LEMMA ListLength ==
  ASSUME NEW last \in [Key -> Nat], NEW keys \in Seq(Key), Ordered(keys, last)
  PROVE  IsFiniteSet(Listed(keys)) /\ Cardinality(Listed(keys)) = Len(keys)
<1>. DEFINE f == [i \in 1..Len(keys) |-> keys[i]]
<1>1. Len(keys) \in Nat /\ \A i \in 1..Len(keys) : keys[i] \in Key
  OBVIOUS
<1>2. ASSUME NEW i \in 1..Len(keys), NEW j \in 1..Len(keys), keys[i] = keys[j] PROVE i = j
  <2>1. last[keys[i]] \in Nat
    BY <1>1
  <2>2. ~(last[keys[i]] < last[keys[i]])
    BY <2>1
  <2>3. ~(i < j) /\ ~(j < i)
    BY <1>2, <2>2 DEF Ordered
  <2>4. QED
    BY <2>3
<1>3. f \in Bijection(1..Len(keys), Listed(keys))
  <2>1. f \in [1..Len(keys) -> Listed(keys)]
    BY DEF Listed
  <2>2. \A i, j \in 1..Len(keys) : f[i] = f[j] => i = j
    BY <1>2
  <2>3. \A x \in Listed(keys) : \E i \in 1..Len(keys) : f[i] = x
    BY DEF Listed
  <2>4. QED
    BY <2>1, <2>2, <2>3 DEF Bijection, Injection, Surjection, IsInjective
<1>4. ExistsBijection(1..Len(keys), Listed(keys))
  BY <1>3 DEF ExistsBijection
<1>5. QED
  BY <1>1, <1>4, FS_NatBijection, FS_CountingElements

\* What it leaves of an ordered list is ordered.
LEMMA RemoveListed ==
  ASSUME NEW last \in [Key -> Nat], NEW keys \in Seq(Key), NEW S, Ordered(keys, last)
  PROVE  /\ ListRemove(keys, S) \in Seq(Key)
         /\ Listed(ListRemove(keys, S)) = Listed(keys) \ S
         /\ Ordered(ListRemove(keys, S), last)
<1>. DEFINE r == ListRemove(keys, S)
<1>1. r \in Seq(Key)
  BY ListRemoveKeeps
<1>2. PICK e : Kept(keys, S, Len(keys), r, e)
  BY ListRemoveKeeps
<1>. HIDE DEF r
<1>3. Listed(r) = Listed(keys) \ S
  <2>1. ASSUME NEW i \in 1..Len(r) PROVE r[i] \in Listed(keys) \ S
    BY <1>2 DEF Kept, Listed
  <2>2. ASSUME NEW j \in 1..Len(keys), keys[j] \notin S PROVE keys[j] \in Listed(r)
    <3>1. PICK i \in 1..Len(r) : e[i] = j
      BY <1>2, <2>2 DEF Kept
    <3>2. r[i] = keys[j]
      BY <1>2, <3>1 DEF Kept
    <3>3. QED
      BY <3>2 DEF Listed
  <2>3. QED
    BY <2>1, <2>2 DEF Listed
<1>4. ASSUME NEW i \in 1..Len(r), NEW j \in 1..Len(r), i < j PROVE last[r[j]] < last[r[i]]
  <2>1. e[i] \in 1..Len(keys) /\ e[j] \in 1..Len(keys) /\ e[i] < e[j]
    BY <1>2, <1>4 DEF Kept
  <2>2. r[i] = keys[e[i]] /\ r[j] = keys[e[j]]
    BY <1>2 DEF Kept
  <2>3. QED
    BY <2>1, <2>2 DEF Ordered
<1>5. QED
  BY <1>1, <1>3, <1>4 DEF r, Ordered

\* The key used last comes to the front of what is left.
LEMMA FrontListed ==
  ASSUME NEW last \in [Key -> Nat], NEW u \in Nat, \A k \in Key : last[k] <= u,
         NEW r \in Seq(Key), NEW k \in Key, k \notin Listed(r), Ordered(r, last)
  PROVE  /\ <<k>> \o r \in Seq(Key)
         /\ Listed(<<k>> \o r) = Listed(r) \cup {k}
         /\ Ordered(<<k>> \o r, [last EXCEPT ![k] = u + 1])
<1>. DEFINE s == <<k>> \o r
            new == [last EXCEPT ![k] = u + 1]
<1>1. /\ s \in Seq(Key) /\ Len(s) = Len(r) + 1 /\ Len(r) \in Nat
      /\ s[1] = k
      /\ \A i \in 2..Len(s) : i - 1 \in 1..Len(r) /\ s[i] = r[i - 1]
      /\ \A i \in 1..Len(r) : i + 1 \in 1..Len(s) /\ s[i + 1] = r[i]
  OBVIOUS
<1>2. new[k] = u + 1 /\ \A j \in Key \ {k} : new[j] = last[j] /\ last[j] \in Nat /\ last[j] < u + 1
  OBVIOUS
<1>. HIDE DEF s, new
<1>3. \A i \in 1..Len(r) : r[i] \in Key \ {k}
  BY DEF Listed
<1>4. Listed(s) = Listed(r) \cup {k}
  <2>1. \A i \in 1..Len(s) : i = 1 \/ i \in 2..Len(s)
    BY <1>1
  <2>2. ASSUME NEW i \in 1..Len(s) PROVE s[i] \in Listed(r) \cup {k}
    BY <1>1, <2>1 DEF Listed
  <2>3. 1 \in 1..Len(s)
    BY <1>1
  <2>4. k \in Listed(s)
    BY <1>1, <2>3 DEF Listed
  <2>5. ASSUME NEW i \in 1..Len(r) PROVE r[i] \in Listed(s)
    BY <1>1 DEF Listed
  <2>6. QED
    BY <2>2, <2>4, <2>5 DEF Listed
<1>5. ASSUME NEW i \in 1..Len(s), NEW j \in 1..Len(s), i < j PROVE new[s[j]] < new[s[i]]
  <2>1. j \in 2..Len(s)
    BY <1>1, <1>5
  <2>2. s[j] = r[j - 1] /\ j - 1 \in 1..Len(r) /\ new[s[j]] = last[r[j - 1]] /\ last[r[j - 1]] < u + 1
    BY <1>1, <1>2, <1>3, <2>1
  <2>3. CASE i = 1
    BY <1>1, <1>2, <2>2, <2>3
  <2>4. CASE i \in 2..Len(s)
    <3>1. s[i] = r[i - 1] /\ i - 1 \in 1..Len(r) /\ new[s[i]] = last[r[i - 1]]
      BY <1>1, <1>2, <1>3, <2>4
    <3>2. i - 1 < j - 1
      BY <1>1, <1>5
    <3>3. QED
      BY <2>2, <3>1, <3>2 DEF Ordered
  <2>5. QED
    BY <1>1, <2>3, <2>4
<1>6. QED
  BY <1>1, <1>4, <1>5 DEF Ordered, s, new

-----------------------------------------------------------------------------
(* What the methods do to the three members                                *)

\* Cache d holds the entries of cache c without the keys in S.
Without(d, c, S) ==
  /\ DOMAIN d.data = DOMAIN c.data \ S
  /\ \A k \in DOMAIN d.data : d.data[k] = c.data[k] /\ d.timestamp[k] = c.timestamp[k]

\* DoRemove and DoClearExpiredCache: the three members lose the same keys.
LEMMA RemoveKeysSound ==
  ASSUME NEW last \in [Key -> Nat], NEW c, NEW S, Sound(c, last)
  PROVE  Sound(RemoveKeys(c, S), last) /\ Without(RemoveKeys(c, S), c, S)
<1>. DEFINE d == RemoveKeys(c, S)
<1>1. /\ ListRemove(c.keys, S) \in Seq(Key)
      /\ Listed(ListRemove(c.keys, S)) = Listed(c.keys) \ S
      /\ Ordered(ListRemove(c.keys, S), last)
  BY RemoveListed DEF Sound
<1>2. /\ d = [data |-> d.data, timestamp |-> d.timestamp, keys |-> d.keys]
      /\ d.data = Restrict(c.data, DOMAIN c.data \ S)
      /\ d.timestamp = Restrict(c.timestamp, DOMAIN c.timestamp \ S)
      /\ d.keys = ListRemove(c.keys, S)
  BY DEF RemoveKeys
<1>. HIDE DEF d
<1>3. Sound(d, last)
  BY <1>1, <1>2 DEF Sound, Restrict
<1>4. Without(d, c, S)
  BY <1>2 DEF Without, Restrict, Sound
<1>5. QED
  BY <1>3, <1>4 DEF d

\* The keys whose last use is the longest ago.
Least(c, last) == {k \in DOMAIN c.data : \A j \in DOMAIN c.data : last[k] <= last[j]}

\* The last key of the list is the one to evict.
LEMMA PopLruSound ==
  ASSUME NEW last \in [Key -> Nat], NEW c, Sound(c, last), c.keys # <<>>
  PROVE  /\ Sound(PopLru(c), last)
         /\ Least(c, last) # {}
         /\ Without(PopLru(c), c, Least(c, last))
<1>. DEFINE n == Len(c.keys)
            v == c.keys[n]
            d == PopLru(c)
<1>1. c.keys \in Seq(Key) /\ n \in Nat /\ n > 0 /\ n \in 1..n /\ v \in Key
  BY DEF Sound
<1>2. \A i \in 1..n : c.keys[i] \in Key /\ last[c.keys[i]] \in Nat
  BY <1>1
<1>3. \A i \in 1..n : i # n => last[v] < last[c.keys[i]]
  <2>1. \A i \in 1..n : i < n => last[v] < last[c.keys[i]]
    BY <1>1, Zenon DEF Sound, Ordered
  <2>. HIDE DEF n, v
  <2>2. \A i \in 1..n : i # n => i < n
    BY <1>1
  <2>3. QED
    BY <2>1, <2>2
<1>4. Least(c, last) = {v}
  <2>1. v \in Listed(c.keys)
    BY <1>1 DEF Listed
  <2>2. \A j \in Listed(c.keys) : last[v] <= last[j] /\ (last[j] <= last[v] => j = v)
    BY <1>1, <1>2, <1>3 DEF Listed
  <2>3. QED
    BY <2>1, <2>2 DEF Least, Sound
<1>5. /\ d = [data |-> d.data, timestamp |-> d.timestamp, keys |-> d.keys]
      /\ d.data = Restrict(c.data, DOMAIN c.data \ {v})
      /\ d.timestamp = Restrict(c.timestamp, DOMAIN c.timestamp \ {v})
      /\ d.keys = SubSeq(c.keys, 1, n - 1)
  BY DEF PopLru
<1>6. /\ d.keys \in Seq(Key) /\ Len(d.keys) = n - 1
      /\ \A i \in 1..n - 1 : i \in 1..n /\ d.keys[i] = c.keys[i]
  BY <1>1, <1>5
<1>. HIDE DEF d, n, v
<1>7. Listed(d.keys) = Listed(c.keys) \ {v}
  <2>1. ASSUME NEW i \in 1..n PROVE c.keys[i] # v <=> i \in 1..n - 1
    <3>1. CASE i = n
      BY <1>1, <3>1 DEF v
    <3>2. CASE i # n
      BY <1>1, <1>2, <1>3, <3>2
    <3>3. QED
      BY <3>1, <3>2
  <2>2. ASSUME NEW i \in 1..n - 1 PROVE d.keys[i] \in Listed(c.keys) \ {v}
    BY <1>6, <2>1 DEF Listed, n
  <2>3. ASSUME NEW i \in 1..n, c.keys[i] # v PROVE c.keys[i] \in Listed(d.keys)
    <3>1. i \in 1..Len(d.keys) /\ d.keys[i] = c.keys[i]
      BY <1>6, <2>1, <2>3
    <3>2. QED
      BY <3>1, Zenon DEF Listed
  <2>4. QED
    BY <1>6, <2>2, <2>3 DEF Listed, n
<1>8. Ordered(d.keys, last)
  <2>1. \A i, j \in 1..n : i < j => last[c.keys[j]] < last[c.keys[i]]
    BY DEF Sound, Ordered, n
  <2>2. ASSUME NEW i \in 1..Len(d.keys), NEW j \in 1..Len(d.keys), i < j
        PROVE  last[d.keys[j]] < last[d.keys[i]]
    <3>1. i \in 1..n /\ j \in 1..n /\ d.keys[i] = c.keys[i] /\ d.keys[j] = c.keys[j]
      BY <1>6
    <3>2. QED
      BY <2>1, <2>2, <3>1
  <2>3. QED
    BY <2>2 DEF Ordered
<1>9. Sound(d, last) /\ Without(d, c, {v})
  BY <1>5, <1>6, <1>7, <1>8 DEF Sound, Without, Restrict
<1>10. QED
  BY <1>4, <1>9 DEF d

\* The keys that an Add of another key drops from a cache.
Dropped(c, last, time, size, expiry) ==
  CASE Cardinality(DOMAIN c.data) < size -> {}
    [] Cardinality(DOMAIN c.data) >= size /\ Expired(c, time, expiry) # {} -> Expired(c, time, expiry)
    [] OTHER -> Least(c, last)

\* Making room drops what the store drops, and leaves a place.
LEMMA MakeRoomSound ==
  ASSUME NEW last \in [Key -> Nat], NEW c, Sound(c, last), NEW size \in Nat \ {0}, NEW time, NEW expiry,
         Cardinality(DOMAIN c.data) <= size
  PROVE  LET m == MakeRoom(c, time, size, expiry)
         IN /\ Sound(m, last)
            /\ Without(m, c, Dropped(c, last, time, size, expiry))
            /\ Cardinality(DOMAIN m.data) < size
<1>. DEFINE m == MakeRoom(c, time, size, expiry)
            D == Dropped(c, last, time, size, expiry)
            old == Expired(c, time, expiry)
            n == Cardinality(DOMAIN c.data)
<1>1. IsFiniteSet(DOMAIN c.data) /\ n = Len(c.keys) /\ n \in Nat
  <2>1. IsFiniteSet(Listed(c.keys)) /\ Cardinality(Listed(c.keys)) = Len(c.keys)
    BY ListLength DEF Sound
  <2>2. QED
    BY <2>1 DEF Sound
<1>2. CASE n < size
  <2>1. m = c /\ D = {}
    BY <1>1, <1>2 DEF MakeRoom, Dropped
  <2>2. QED
    BY <1>2, <2>1 DEF Without
<1>3. CASE ~(n < size) /\ old # {}
  <2>1. m = RemoveKeys(c, old) /\ D = old
    BY <1>1, <1>3 DEF MakeRoom, Dropped, DoClearExpiredCache
  <2>2. Sound(m, last) /\ Without(m, c, old)
    BY <2>1, RemoveKeysSound
  <2>3. old \subseteq DOMAIN c.data
    BY DEF Expired, Sound
  <2>4. DOMAIN m.data \subseteq DOMAIN c.data /\ DOMAIN m.data # DOMAIN c.data
    BY <1>3, <2>2, <2>3 DEF Without
  <2>5. IsFiniteSet(DOMAIN m.data) /\ Cardinality(DOMAIN m.data) <= n /\ Cardinality(DOMAIN m.data) # n
    BY <1>1, <2>4, FS_Subset
  <2>6. Cardinality(DOMAIN m.data) \in Nat
    BY <2>5, FS_CardinalityType
  <2>7. QED
    BY <1>1, <2>1, <2>2, <2>5, <2>6
<1>4. CASE ~(n < size) /\ old = {}
  <2>1. m = PopLru(c) /\ D = Least(c, last)
    BY <1>1, <1>4 DEF MakeRoom, Dropped
  <2>2. c.keys # <<>>
    BY <1>1, <1>4
  <2>3. Sound(m, last) /\ Without(m, c, D) /\ D # {}
    BY <2>1, <2>2, PopLruSound
  <2>4. D \subseteq DOMAIN c.data
    BY <2>1 DEF Least
  <2>5. DOMAIN m.data \subseteq DOMAIN c.data /\ DOMAIN m.data # DOMAIN c.data
    BY <2>3, <2>4 DEF Without
  <2>6. IsFiniteSet(DOMAIN m.data) /\ Cardinality(DOMAIN m.data) <= n /\ Cardinality(DOMAIN m.data) # n
    BY <1>1, <2>5, FS_Subset
  <2>7. Cardinality(DOMAIN m.data) \in Nat
    BY <2>6, FS_CardinalityType
  <2>8. QED
    BY <1>1, <2>3, <2>6, <2>7
<1>5. QED
  BY <1>2, <1>3, <1>4

\* The last uses after use number u + 1, which is one of key k.
Used(last, k, u) == [last EXCEPT ![k] = u + 1]

\* A key that is not in the cache has no place in its order.
LEMMA UseOfAbsentKey ==
  ASSUME NEW last \in [Key -> Nat], NEW u \in Nat, NEW c, NEW k \in Key,
         Sound(c, last), k \notin DOMAIN c.data
  PROVE  Sound(c, Used(last, k, u))
<1>1. \A i \in 1..Len(c.keys) : c.keys[i] \in Key /\ c.keys[i] # k
  BY DEF Sound, Listed
<1>2. \A i \in 1..Len(c.keys) : Used(last, k, u)[c.keys[i]] = last[c.keys[i]]
  BY <1>1 DEF Used
<1>3. Ordered(c.keys, Used(last, k, u))
  BY <1>2 DEF Ordered, Sound
<1>4. QED
  BY <1>3 DEF Sound

\* A key moved to the front is the one used last.
LEMMA ToFrontListed ==
  ASSUME NEW last \in [Key -> Nat], NEW u \in Nat, \A j \in Key : last[j] <= u,
         NEW c, NEW k \in Key, Sound(c, last), k \in DOMAIN c.data
  PROVE  /\ ToFront(c.keys, k) \in Seq(Key)
         /\ Listed(ToFront(c.keys, k)) = DOMAIN c.data
         /\ Ordered(ToFront(c.keys, k), Used(last, k, u))
<1>. DEFINE r == ListRemove(c.keys, {k})
<1>1. r \in Seq(Key) /\ Listed(r) = DOMAIN c.data \ {k} /\ Ordered(r, last)
  BY RemoveListed DEF Sound
<1>2. k \notin Listed(r)
  BY <1>1
<1>. HIDE DEF r
<1>3. /\ <<k>> \o r \in Seq(Key)
      /\ Listed(<<k>> \o r) = Listed(r) \cup {k}
      /\ Ordered(<<k>> \o r, [last EXCEPT ![k] = u + 1])
  BY <1>1, <1>2, FrontListed
<1>4. ToFront(c.keys, k) = <<k>> \o r
  BY DEF ToFront, r
<1>5. QED
  BY <1>1, <1>3, <1>4 DEF Used

\* DoAdd keeps the members together and does what the store does.
LEMMA DoAddSound ==
  ASSUME NEW last \in [Key -> Nat], NEW u \in Nat, \A j \in Key : last[j] <= u,
         NEW c, Sound(c, last), NEW k \in Key, NEW v, NEW time, NEW expiry,
         NEW size \in Nat \ {0}, Cardinality(DOMAIN c.data) <= size
  PROVE  LET d == DoAdd(c, k, v, time, size, expiry)
             D == IF k \in DOMAIN c.data THEN {} ELSE Dropped(c, last, time, size, expiry)
         IN /\ Sound(d, Used(last, k, u))
            /\ Cardinality(DOMAIN d.data) <= size
            /\ DOMAIN d.data = (DOMAIN c.data \ D) \cup {k}
            /\ d.data[k] = v /\ d.timestamp[k] = time
            /\ \A j \in DOMAIN d.data \ {k} :
                 d.data[j] = c.data[j] /\ d.timestamp[j] = c.timestamp[j]
<1>. DEFINE d == DoAdd(c, k, v, time, size, expiry)
            D == Dropped(c, last, time, size, expiry)
            m == MakeRoom(c, time, size, expiry)
<1>1. CASE k \in DOMAIN c.data
  <2>1. /\ d = [data |-> d.data, timestamp |-> d.timestamp, keys |-> d.keys]
        /\ d.data = Put(c.data, k, v)
        /\ d.timestamp = Put(c.timestamp, k, time)
        /\ d.keys = ToFront(c.keys, k)
    BY <1>1 DEF DoAdd
  <2>. HIDE DEF d
  <2>2. DOMAIN d.data = DOMAIN c.data /\ DOMAIN d.timestamp = DOMAIN d.data
    BY <1>1, <2>1 DEF Put, Sound
  <2>3. Sound(d, Used(last, k, u))
    BY <1>1, <2>1, <2>2, ToFrontListed DEF Sound
  <2>4. /\ d.data[k] = v /\ d.timestamp[k] = time
        /\ \A j \in DOMAIN d.data \ {k} : d.data[j] = c.data[j] /\ d.timestamp[j] = c.timestamp[j]
    BY <1>1, <2>1, <2>2 DEF Put, Sound
  <2>5. QED
    BY <1>1, <2>2, <2>3, <2>4 DEF d
<1>2. CASE k \notin DOMAIN c.data
  <2>1. Sound(m, last) /\ Without(m, c, D) /\ Cardinality(DOMAIN m.data) < size
    BY MakeRoomSound
  <2>2. /\ d = [data |-> d.data, timestamp |-> d.timestamp, keys |-> d.keys]
        /\ d.data = Put(m.data, k, v)
        /\ d.timestamp = Put(m.timestamp, k, time)
        /\ d.keys = <<k>> \o m.keys
    BY <1>2 DEF DoAdd
  <2>. HIDE DEF d, m, D
  <2>3. /\ DOMAIN d.data = DOMAIN m.data \cup {k} /\ DOMAIN d.timestamp = DOMAIN d.data
        /\ k \notin DOMAIN m.data
    BY <1>2, <2>1, <2>2 DEF Put, Sound, Without
  <2>4. /\ d.keys \in Seq(Key)
        /\ Listed(d.keys) = Listed(m.keys) \cup {k}
        /\ Ordered(d.keys, Used(last, k, u))
    <3>1. m.keys \in Seq(Key) /\ k \notin Listed(m.keys) /\ Ordered(m.keys, last)
      BY <2>1, <2>3 DEF Sound
    <3>2. /\ <<k>> \o m.keys \in Seq(Key)
          /\ Listed(<<k>> \o m.keys) = Listed(m.keys) \cup {k}
          /\ Ordered(<<k>> \o m.keys, [last EXCEPT ![k] = u + 1])
      BY <3>1, FrontListed
    <3>3. QED
      BY <2>2, <3>2 DEF Used
  <2>5. Sound(d, Used(last, k, u))
    BY <2>1, <2>2, <2>3, <2>4 DEF Sound
  <2>6. Cardinality(DOMAIN d.data) <= size
    <3>1. IsFiniteSet(DOMAIN m.data) /\ Cardinality(DOMAIN m.data) \in Nat
      BY <2>1, ListLength DEF Sound
    <3>2. Cardinality(DOMAIN d.data) = Cardinality(DOMAIN m.data) + 1
      BY <2>3, <3>1, FS_AddElement
    <3>3. QED
      BY <2>1, <3>1, <3>2
  <2>7. /\ d.data[k] = v /\ d.timestamp[k] = time
        /\ \A j \in DOMAIN d.data \ {k} : d.data[j] = c.data[j] /\ d.timestamp[j] = c.timestamp[j]
    BY <2>1, <2>2, <2>3 DEF Put, Sound, Without
  <2>8. DOMAIN d.data = (DOMAIN c.data \ D) \cup {k}
    BY <2>1, <2>3 DEF Without
  <2>9. QED
    BY <1>2, <2>5, <2>6, <2>7, <2>8 DEF d, D
<1>3. QED
  BY <1>1, <1>2

\* So does DoGet, which drops an entry it finds expired.
LEMMA DoGetSound ==
  ASSUME NEW last \in [Key -> Nat], NEW u \in Nat, \A j \in Key : last[j] <= u,
         NEW c, Sound(c, last), NEW k \in Key, NEW time, NEW expiry
  PROVE  LET d == DoGet(c, k, time, expiry)
         IN /\ Sound(d, Used(last, k, u))
            /\ Hit(c, k, time, expiry) => Without(d, c, {})
            /\ ~Hit(c, k, time, expiry) => Without(d, c, {k})
<1>. DEFINE d == DoGet(c, k, time, expiry)
<1>1. CASE k \notin DOMAIN c.data
  <2>1. k \notin Expired(c, time, expiry)
    BY <1>1 DEF Expired, Sound
  <2>2. d = c /\ ~Hit(c, k, time, expiry)
    BY <1>1, <2>1 DEF DoGet, Hit
  <2>3. QED
    BY <1>1, <2>2, UseOfAbsentKey DEF Without
<1>2. CASE k \in Expired(c, time, expiry)
  <2>1. k \in DOMAIN c.data
    BY <1>2 DEF Expired, Sound
  <2>2. d = RemoveKeys(c, {k}) /\ ~Hit(c, k, time, expiry)
    BY <1>2, <2>1 DEF DoGet, DoRemove, Hit
  <2>3. Sound(d, last) /\ Without(d, c, {k})
    BY <2>2, RemoveKeysSound
  <2>4. k \notin DOMAIN d.data
    BY <2>3 DEF Without
  <2>5. QED
    BY <2>2, <2>3, <2>4, UseOfAbsentKey
<1>3. CASE Hit(c, k, time, expiry)
  <2>1. k \in DOMAIN c.data /\ k \notin Expired(c, time, expiry)
    BY <1>3 DEF Hit
  <2>2. d = [c EXCEPT !.keys = ToFront(c.keys, k)]
    BY <2>1 DEF DoGet
  <2>3. /\ d = [data |-> d.data, timestamp |-> d.timestamp, keys |-> d.keys]
        /\ d.data = c.data /\ d.timestamp = c.timestamp /\ d.keys = ToFront(c.keys, k)
    BY <2>2 DEF Sound
  <2>. HIDE DEF d
  <2>4. Sound(d, Used(last, k, u))
    <3>1. /\ d.keys \in Seq(Key)
          /\ Listed(d.keys) = DOMAIN c.data
          /\ Ordered(d.keys, Used(last, k, u))
      BY <2>1, <2>3, ToFrontListed
    <3>2. QED
      BY <2>3, <3>1 DEF Sound
  <2>5. QED
    BY <1>3, <2>3, <2>4 DEF Without, d
<1>4. QED
  BY <1>1, <1>2, <1>3 DEF Hit

-----------------------------------------------------------------------------
(* Invariance                                                              *)

\* The members agree and the list is in the order of the last uses.
OrderInv ==
  /\ uses \in Nat
  /\ lastUse \in [Key -> Nat]
  /\ \A k \in Key : lastUse[k] <= uses
  /\ Sound(cache, lastUse)
  /\ Cardinality(DOMAIN cache.data) <= Size

\* A size of 0 is replaced by 1.
LEMMA SizeIsPositive == Size \in Nat \ {0}
  BY ArgumentAssumption DEF Size, CacheSize

\* The members of an empty cache agree.
LEMMA EmptyIsSound ==
  ASSUME NEW last
  PROVE  /\ Sound(EmptyCache, last)
         /\ DOMAIN EmptyCache.data = {}
         /\ Cardinality(DOMAIN EmptyCache.data) <= Size
<1>1. /\ EmptyCache.data = <<>> /\ EmptyCache.timestamp = <<>> /\ EmptyCache.keys = <<>>
      /\ EmptyCache = [data |-> EmptyCache.data, timestamp |-> EmptyCache.timestamp, keys |-> EmptyCache.keys]
  BY DEF EmptyCache
<1>2. DOMAIN <<>> = {}
  OBVIOUS
<1>3. Listed(<<>>) = {} /\ Ordered(<<>>, last)
  BY DEF Listed, Ordered
<1>4. Sound(EmptyCache, last)
  BY <1>1, <1>2, <1>3 DEF Sound
<1>5. Cardinality({}) <= Size
  BY FS_EmptySet, SizeIsPositive
<1>6. QED
  BY <1>1, <1>2, <1>4, <1>5

\* A use makes its key the last one used.
LEMMA UseKeepsCount ==
  ASSUME OrderInv, NEW k \in Key, Use(k)
  PROVE  /\ uses' \in Nat
         /\ lastUse' = Used(lastUse, k, uses)
         /\ lastUse' \in [Key -> Nat]
         /\ \A j \in Key : lastUse'[j] <= uses'
  BY DEF OrderInv, Use, Used

\* Removing keys leaves the cache no larger.
LEMMA RemoveKeepsSize ==
  ASSUME OrderInv, NEW S, NEW d, Without(d, cache, S)
  PROVE  Cardinality(DOMAIN d.data) <= Size
<1>1. IsFiniteSet(DOMAIN cache.data) /\ Cardinality(DOMAIN cache.data) \in Nat
  BY ListLength DEF OrderInv, Sound
<1>2. DOMAIN d.data \subseteq DOMAIN cache.data
  BY DEF Without
<1>3. Cardinality(DOMAIN d.data) <= Cardinality(DOMAIN cache.data) /\ IsFiniteSet(DOMAIN d.data)
  BY <1>1, <1>2, FS_Subset
<1>4. Cardinality(DOMAIN d.data) \in Nat
  BY <1>3, FS_CardinalityType
<1>5. QED
  BY <1>1, <1>3, <1>4, SizeIsPositive DEF OrderInv

\* Every method keeps the invariant.
LEMMA OrderStep == OrderInv /\ [Next]_vars => OrderInv'
<1>. SUFFICES ASSUME OrderInv, [Next]_vars PROVE OrderInv'
  OBVIOUS
<1>. USE SizeIsPositive
<1>1. ASSUME NEW k \in Key, NEW v \in Value, Add(k, v) PROVE OrderInv'
  <2>1. lastUse' = Used(lastUse, k, uses)
    BY <1>1, UseKeepsCount DEF Add
  <2>2. /\ Sound(cache, lastUse)' /\ Cardinality(DOMAIN cache.data)' <= Size
    BY <1>1, <2>1, DoAddSound DEF Add, OrderInv
  <2>3. QED
    BY <1>1, <2>2, UseKeepsCount DEF Add, OrderInv
<1>2. ASSUME NEW k \in Key, Get(k) PROVE OrderInv'
  <2>1. Sound(cache', Used(lastUse, k, uses)) /\ \E S : Without(cache', cache, S)
    BY <1>2, DoGetSound DEF Get, OrderInv
  <2>2. QED
    BY <1>2, <2>1, UseKeepsCount, RemoveKeepsSize DEF Get, OrderInv
<1>3. ASSUME NEW k \in Key, Remove(k) PROVE OrderInv'
  <2>1. Sound(cache', lastUse) /\ Without(cache', cache, {k})
    BY <1>3, RemoveKeysSound DEF Remove, DoRemove, OrderInv
  <2>2. k \notin DOMAIN cache'.data
    BY <2>1 DEF Without
  <2>3. Sound(cache', Used(lastUse, k, uses))
    BY <2>1, <2>2, UseOfAbsentKey DEF OrderInv
  <2>4. QED
    BY <1>3, <2>1, <2>3, UseKeepsCount, RemoveKeepsSize DEF Remove, OrderInv
<1>4. CASE Clear
  BY <1>4, EmptyIsSound DEF Clear, OrderInv
<1>5. CASE Tick
  BY <1>5 DEF Tick, OrderInv
<1>6. CASE UNCHANGED vars
  BY <1>6 DEF vars, OrderInv
<1>7. QED
  BY <1>1, <1>2, <1>3, <1>4, <1>5, <1>6 DEF Next

\* The inductive invariant: the three members of the class hold the same keys, at
\* most as many as the size, and the list has them in the order of their last uses.
THEOREM OrderInvariant == Spec => []OrderInv
<1>1. Init => OrderInv
  BY EmptyIsSound DEF Init, OrderInv
<1>2. QED
  BY <1>1, OrderStep, PTL DEF Spec

\* In every state of the cache data_, timestamp_ and keys_ hold the same keys,
\* each once in the list, and no more than the size allows.
THEOREM StructuresDoAgree == Spec => []StructuresAgree
<1>1. OrderInv => StructuresAgree
  <2>. SUFFICES ASSUME OrderInv PROVE StructuresAgree
    OBVIOUS
  <2>1. Len(cache.keys) = Cardinality(Listed(cache.keys))
    BY ListLength DEF OrderInv, Sound
  <2>2. QED
    BY <2>1 DEF OrderInv, Sound, StructuresAgree, Listed
<1>2. QED
  BY <1>1, OrderInvariant, PTL

-----------------------------------------------------------------------------
(* The cache implements the store                                          *)

\* The entry of a key in the store.
EntryOf(c, last, k) == [value |-> c.data[k], born |-> c.timestamp[k], used |-> last[k]]

\* The refinement mapping, entry by entry.
LEMMA StoreIs ==
  /\ Store = [k \in DOMAIN cache.data |-> EntryOf(cache, lastUse, k)]
  /\ Store' = [k \in DOMAIN cache'.data |-> EntryOf(cache', lastUse', k)]
  BY DEF Store, EntryOf

\* What the store says of its keys is what the cache says.
LEMMA StoreKeys ==
  ASSUME OrderInv
  PROVE  /\ Promise!Held = DOMAIN cache.data
         /\ Promise!TooOld = Expired(cache, now, expire)
         /\ Promise!LeastUsed = Least(cache, lastUse)
         /\ \A k \in Key : Promise!Victims(k) =
              IF k \in DOMAIN cache.data THEN {} ELSE Dropped(cache, lastUse, now, Size, expire)
<1>1. Promise!Held = DOMAIN cache.data
  BY DEF Promise!Held, Store
<1>2. Promise!TooOld = Expired(cache, now, expire)
  BY <1>1 DEF Promise!TooOld, Expired, IsExpired, Store, OrderInv, Sound
<1>3. Promise!LeastUsed = Least(cache, lastUse)
  BY <1>1 DEF Promise!LeastUsed, Least, Store
<1>4. ASSUME NEW k \in Key
      PROVE  Promise!Victims(k) =
               IF k \in DOMAIN cache.data THEN {} ELSE Dropped(cache, lastUse, now, Size, expire)
  <2>1. Cardinality(DOMAIN cache.data) \in Nat
    BY ListLength DEF OrderInv, Sound
  <2>2. CASE k \in DOMAIN cache.data
    BY <1>1, <2>2 DEF Promise!Victims
  <2>3. CASE k \notin DOMAIN cache.data
    <3>1. Promise!Cardinality(DOMAIN cache.data) = Cardinality(DOMAIN cache.data)
      BY Zenon DEF Promise!Cardinality, Cardinality, Promise!IsFiniteSet, IsFiniteSet
    <3>2. QED
      BY <1>1, <1>2, <1>3, <2>1, <2>3, <3>1, SizeIsPositive DEF Promise!Victims, Dropped
  <2>4. QED
    BY <2>2, <2>3
<1>5. QED
  BY <1>1, <1>2, <1>3, <1>4

\* Every method is a step of the store.
LEMMA StepImplements == OrderInv /\ [Next]_vars => [Promise!Next]_(Promise!vars)
<1>. SUFFICES ASSUME OrderInv, [Next]_vars PROVE Promise!Next \/ UNCHANGED Promise!vars
  OBVIOUS
<1>. USE SizeIsPositive
<1>1. ASSUME NEW k \in Key, NEW v \in Value, Add(k, v) PROVE Promise!Add(k, v)
  <2>. DEFINE D == IF k \in DOMAIN cache.data THEN {} ELSE Dropped(cache, lastUse, now, Size, expire)
  <2>1. lastUse' = Used(lastUse, k, uses) /\ lastUse \in [Key -> Nat]
    BY <1>1, UseKeepsCount DEF Add, OrderInv
  <2>2. /\ DOMAIN cache'.data = (DOMAIN cache.data \ D) \cup {k}
        /\ cache'.data[k] = v /\ cache'.timestamp[k] = now
        /\ \A j \in DOMAIN cache'.data \ {k} :
             cache'.data[j] = cache.data[j] /\ cache'.timestamp[j] = cache.timestamp[j]
    BY <1>1, DoAddSound DEF Add, OrderInv
  <2>3. Promise!Held \ Promise!Victims(k) = DOMAIN cache.data \ D
    BY StoreKeys
  <2>. HIDE DEF D
  <2>4. EntryOf(cache', lastUse', k) = [value |-> v, born |-> now, used |-> uses + 1]
    BY <2>1, <2>2 DEF EntryOf, Used
  <2>5. \A j \in DOMAIN cache'.data \ {k} : j \in DOMAIN cache.data /\ EntryOf(cache', lastUse', j) = Store[j]
    BY <2>1, <2>2, StoreIs DEF EntryOf, Used
  <2>6. Store' = [j \in (Promise!Held \ Promise!Victims(k)) \cup {k} |->
                   IF j = k THEN [value |-> v, born |-> now, used |-> uses + 1] ELSE Store[j]]
    BY <2>2, <2>3, <2>4, <2>5, StoreIs
  <2>7. QED
    BY <1>1, <2>6 DEF Promise!Add, Add, Use
<1>2. ASSUME NEW k \in Key, Get(k) PROVE Promise!Get(k)
  <2>1. lastUse' = Used(lastUse, k, uses) /\ lastUse \in [Key -> Nat]
    BY <1>2, UseKeepsCount DEF Get, OrderInv
  <2>2. /\ Hit(cache, k, now, expire) => Without(cache', cache, {})
        /\ ~Hit(cache, k, now, expire) => Without(cache', cache, {k})
    BY <1>2, DoGetSound DEF Get, OrderInv
  <2>3. Hit(cache, k, now, expire) <=> k \in Promise!Held \ Promise!TooOld
    BY StoreKeys DEF Hit
  <2>4. CASE Hit(cache, k, now, expire)
    <3>1. k \in DOMAIN cache.data /\ Without(cache', cache, {})
      BY <2>2, <2>4 DEF Hit
    <3>2. \A j \in DOMAIN cache.data :
            EntryOf(cache', lastUse', j) =
              IF j = k THEN [Store[k] EXCEPT !.used = uses + 1] ELSE Store[j]
      BY <2>1, <3>1, StoreIs DEF EntryOf, Used, Without
    <3>3. DOMAIN cache'.data = DOMAIN cache.data
      BY <3>1 DEF Without
    <3>4. Store' = [Store EXCEPT ![k].used = uses + 1]
      BY <3>1, <3>2, <3>3, StoreIs
    <3>5. answer' = Store[k].value
      BY <1>2, <2>4, <3>1 DEF Get, Store
    <3>6. QED
      BY <1>2, <2>3, <2>4, <3>4, <3>5 DEF Promise!Get, Get, Use
  <2>5. CASE ~Hit(cache, k, now, expire)
    <3>1. Without(cache', cache, {k})
      BY <2>2, <2>5
    <3>2. \A j \in DOMAIN cache'.data : j \in DOMAIN cache.data /\ EntryOf(cache', lastUse', j) = Store[j]
      BY <2>1, <3>1, StoreIs DEF EntryOf, Used, Without
    <3>3. Store' = Restrict(Store, Promise!Held \ {k})
      BY <3>1, <3>2, StoreIs, StoreKeys DEF Restrict, Without
    <3>4. answer' = Nothing
      BY <1>2, <2>5 DEF Get
    <3>5. QED
      BY <1>2, <2>3, <2>5, <3>3, <3>4 DEF Promise!Get, Promise!Restrict, Restrict, Get, Use
  <2>6. QED
    BY <2>4, <2>5
<1>3. ASSUME NEW k \in Key, Remove(k) PROVE Promise!Remove(k)
  <2>1. lastUse' = Used(lastUse, k, uses) /\ lastUse \in [Key -> Nat]
    BY <1>3, UseKeepsCount DEF Remove, OrderInv
  <2>2. Without(cache', cache, {k})
    BY <1>3, RemoveKeysSound DEF Remove, DoRemove, OrderInv
  <2>3. \A j \in DOMAIN cache'.data : j \in DOMAIN cache.data /\ EntryOf(cache', lastUse', j) = Store[j]
    BY <2>1, <2>2, StoreIs DEF EntryOf, Used, Without
  <2>4. Store' = Restrict(Store, Promise!Held \ {k})
    BY <2>2, <2>3, StoreIs, StoreKeys DEF Restrict, Without
  <2>5. QED
    BY <1>3, <2>4 DEF Promise!Remove, Promise!Restrict, Restrict, Remove, Use
<1>4. CASE Clear
  <2>1. DOMAIN cache'.data = {}
    BY <1>4, EmptyIsSound DEF Clear
  <2>2. Store' = <<>>
    BY <2>1, StoreIs
  <2>3. QED
    BY <1>4, <2>2 DEF Clear, Promise!Clear, Promise!Next
<1>5. CASE Tick
  <2>1. Store' = Store
    BY <1>5, StoreIs DEF Tick
  <2>2. QED
    BY <1>5, <2>1 DEF Tick, Promise!Tick, Promise!Next
<1>6. CASE UNCHANGED vars
  <2>1. Store' = Store
    BY <1>6, StoreIs DEF vars
  <2>2. QED
    BY <1>6, <2>1 DEF vars, Promise!vars
<1>7. QED
  BY <1>1, <1>2, <1>3, <1>4, <1>5, <1>6 DEF Next, Promise!Next

\* The cache implements the abstract store: the list evicts exactly the least
\* recently used key, expiry drops exactly the keys that are too old, and a Get
\* returns what was added last.
THEOREM ImplementsTheStore == Spec => ImplementsStore
<1>1. Init => Promise!Init
  <2>. SUFFICES ASSUME Init PROVE Promise!Init
    OBVIOUS
  <2>1. DOMAIN cache.data = {}
    BY EmptyIsSound DEF Init
  <2>2. Store = <<>>
    BY <2>1 DEF Store
  <2>3. QED
    BY <2>2 DEF Init, Promise!Init
<1>2. QED
  BY <1>1, OrderInvariant, StepImplements, PTL DEF Spec, ImplementsStore, Promise!Spec
=============================================================================
