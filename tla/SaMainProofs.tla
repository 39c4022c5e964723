----------------------------- MODULE SaMainProofs -----------------------------
(***************************************************************************)
(* Proofs about the arguments of an SA process and about the reason that   *)
(* it was started for, for every request, every limit and all extra data.  *)
(***************************************************************************)
EXTENDS BootPhases, FiniteSetTheorems, SequenceTheorems, TLAPS

-----------------------------------------------------------------------------
(* The command line.                                                       *)

\* What a request holds.
LEMMA RequestType ==
  ASSUME NEW r \in Requests
  PROVE  /\ r.path \in Seq(Token) /\ r.options \in Seq(Seq(Token))
         /\ r.sa # None => r.sa \in Token /\ r.sa # "#"
         /\ r.id \in DOMAIN Number /\ r.extraDataId \in DOMAIN Number
         /\ r.name \in Seq(Token) /\ r.value \in Seq(Token)
         /\ {"#", r.id, r.extraDataId} \subseteq Token
         /\ r.id # "#" /\ r.extraDataId # "#"
<1>1. /\ r.path \in Seq(Token) /\ r.options \in Seq(Seq(Token))
      /\ r.sa # None => r.sa \in Token /\ r.sa # "#"
      /\ r.id \in DOMAIN Number /\ r.extraDataId \in DOMAIN Number
      /\ r.name \in Seq(Token) /\ r.value \in Seq(Token)
  BY RequestAssumption
<1>2. {"#", r.id, r.extraDataId} \subseteq Token /\ r.id # "#" /\ r.extraDataId # "#"
  BY <1>1, NumeralAssumption, TokenAssumption
<1>3. QED
  BY <1>1, <1>2

\* The sequence u is s, of length m, with t, of length k, behind it.
Behind(u, S, s, m, t, k) ==
  /\ u \in Seq(S) /\ Len(u) = m + k
  /\ \A i \in 1..m : u[i] = s[i]
  /\ \A i \in 1..k : u[m + i] = t[i]

\* Concatenation puts one sequence behind the other.
LEMMA Joined ==
  ASSUME NEW S, NEW s \in Seq(S), NEW t \in Seq(S), NEW m, NEW k, Len(s) = m, Len(t) = k
  PROVE  Behind(s \o t, S, s, m, t, k)
<1>1. /\ s \o t \in Seq(S) /\ Len(s \o t) = m + k /\ m \in Nat /\ k \in Nat
      /\ \A i \in 1..m + k : (s \o t)[i] = IF i <= m THEN s[i] ELSE t[i - m]
  BY ConcatProperties, LenProperties
<1>2. ASSUME NEW i \in 1..k PROVE (s \o t)[m + i] = t[i]
  <2>1. m + i \in 1..m + k /\ ~(m + i <= m) /\ (m + i) - m = i
    BY <1>1
  <2>2. QED
    BY <1>1, <2>1
<1>3. ASSUME NEW i \in 1..m PROVE (s \o t)[i] = s[i]
  <2>1. i \in 1..m + k /\ i <= m
    BY <1>1
  <2>2. QED
    BY <1>1, <2>1
<1>4. QED
  BY <1>1, <1>2, <1>3 DEF Behind

\* Where an event holds what.
EventPlaces(r, event, n, v) ==
  /\ Len(event) = 8 + n + v
  /\ event[1] = r.sa /\ event[2] = "#" /\ event[3] = r.id /\ event[4] = "#"
  /\ \A i \in 1..n : event[4 + i] = r.name[i]
  /\ event[5 + n] = "#"
  /\ \A i \in 1..v : event[5 + n + i] = r.value[i]
  /\ event[6 + n + v] = "#" /\ event[7 + n + v] = r.extraDataId /\ event[8 + n + v] = "#"

\* The event of a request has its parts at these places.
LEMMA EventLaid ==
  ASSUME NEW r \in Requests, r.sa # None
  PROVE  /\ Event(r) \in Seq(Token) /\ Len(r.name) \in Nat /\ Len(r.value) \in Nat
         /\ EventPlaces(r, Event(r), Len(r.name), Len(r.value))
<1> DEFINE n == Len(r.name)
           v == Len(r.value)
           first == <<r.sa, "#", r.id, "#">>
           last == <<"#", r.extraDataId, "#">>
           a == first \o r.name
           b == a \o <<"#">>
           c == b \o r.value
           event == c \o last
<1>1. /\ r.name \in Seq(Token) /\ r.value \in Seq(Token) /\ r.sa \in Token
      /\ {"#", r.id, r.extraDataId} \subseteq Token
  BY RequestType
<1>2. /\ first \in Seq(Token) /\ Len(first) = 4
      /\ first[1] = r.sa /\ first[2] = "#" /\ first[3] = r.id /\ first[4] = "#"
      /\ last \in Seq(Token) /\ Len(last) = 3
      /\ last[1] = "#" /\ last[2] = r.extraDataId /\ last[3] = "#"
      /\ <<"#">> \in Seq(Token) /\ Len(<<"#">>) = 1 /\ <<"#">>[1] = "#"
      /\ n \in Nat /\ v \in Nat
  BY <1>1
<1>3. Event(r) = event
  BY DEF Event
<1> HIDE DEF n, v
<1>4. n \in Nat /\ v \in Nat /\ 4 + n \in Nat /\ 5 + n \in Nat /\ 5 + n + v \in Nat
  BY <1>2
<1> HIDE DEF first, last
<1>5. Behind(a, Token, first, 4, r.name, n)
  BY <1>1, <1>2, Joined, Zenon DEF n
<1> HIDE DEF a
<1>6. Behind(b, Token, a, 4 + n, <<"#">>, 1)
  <2>1. a \in Seq(Token) /\ Len(a) = 4 + n
    BY <1>5 DEF Behind
  <2>2. QED
    BY <1>2, <2>1, Joined, Zenon
<1> HIDE DEF b
<1>7. Behind(c, Token, b, 5 + n, r.value, v)
  <2>1. b \in Seq(Token) /\ Len(b) = 5 + n
    BY <1>4, <1>6 DEF Behind
  <2>2. QED
    BY <1>1, <2>1, Joined, Zenon DEF v
<1> HIDE DEF c
<1>8. Behind(event, Token, c, 5 + n + v, last, 3)
  <2>1. c \in Seq(Token) /\ Len(c) = 5 + n + v
    BY <1>7 DEF Behind
  <2>2. QED
    BY <1>2, <2>1, Joined, Zenon
<1> USE DEF Behind
<1> HIDE DEF event
<1>9. event[1] = r.sa /\ event[2] = "#" /\ event[3] = r.id /\ event[4] = "#"
  <2>1. \A i \in 1..4 : event[i] = first[i]
    BY <1>4, <1>5, <1>6, <1>7, <1>8
  <2>2. QED
    BY <1>2, <2>1
<1>10. ASSUME NEW i \in 1..n PROVE event[4 + i] = r.name[i]
  <2>1. 4 + i \in 1..4 + n /\ 4 + i \in 1..5 + n /\ 4 + i \in 1..5 + n + v
    BY <1>4
  <2>2. event[4 + i] = c[4 + i] /\ c[4 + i] = b[4 + i] /\ b[4 + i] = a[4 + i]
    BY <1>6, <1>7, <1>8, <2>1, Zenon
  <2>3. a[4 + i] = r.name[i]
    BY <1>5, Zenon
  <2>4. QED
    BY <2>2, <2>3
<1>11. event[5 + n] = "#"
  <2>1. 5 + n \in 1..5 + n /\ 5 + n \in 1..5 + n + v /\ 4 + n + 1 = 5 + n
    BY <1>4
  <2>2. QED
    BY <1>2, <1>6, <1>7, <1>8, <2>1
<1>12. ASSUME NEW i \in 1..v PROVE event[5 + n + i] = r.value[i]
  <2>1. 5 + n + i \in 1..5 + n + v
    BY <1>4
  <2>2. QED
    BY <1>7, <1>8, <2>1
<1>13. event[6 + n + v] = "#" /\ event[7 + n + v] = r.extraDataId /\ event[8 + n + v] = "#"
  <2>1. 6 + n + v = 5 + n + v + 1 /\ 7 + n + v = 5 + n + v + 2 /\ 8 + n + v = 5 + n + v + 3
    BY <1>4
  <2>2. QED
    BY <1>2, <1>8, <2>1
<1>14. Len(event) = 8 + n + v
  BY <1>4, <1>8
<1>15. QED
  BY <1>3, <1>4, <1>8, <1>9, <1>10, <1>11, <1>12, <1>13, <1>14 DEF EventPlaces, n, v
\* Five places, one behind the other.
Rising(a, b, c, d, e) == {a, b, c, d, e} \subseteq Nat /\ a < b /\ b < c /\ c < d /\ d < e

\* The number of places up to each of them.
Counted(a, b, c, d, e) ==
  /\ Cardinality({a}) = 1 /\ Cardinality({a, b}) = 2 /\ Cardinality({a, b, c}) = 3
  /\ Cardinality({a, b, c, d}) = 4 /\ Cardinality({a, b, c, d, e}) = 5

\* A set with one more member.
LEMMA OneMore ==
  ASSUME NEW S, IsFiniteSet(S), NEW x, x \notin S, NEW T, T = S \cup {x}
  PROVE  /\ IsFiniteSet(T)
         /\ Cardinality(S) = 1 => Cardinality(T) = 2
         /\ Cardinality(S) = 2 => Cardinality(T) = 3
         /\ Cardinality(S) = 3 => Cardinality(T) = 4
         /\ Cardinality(S) = 4 => Cardinality(T) = 5
<1>1. IsFiniteSet(T) /\ Cardinality(T) = Cardinality(S) + 1
  BY FS_AddElement
<1>2. QED
  BY <1>1

\* Places that rise are as many as are named.
LEMMA FiveCounted ==
  ASSUME NEW a, NEW b, NEW c, NEW d, NEW e, Rising(a, b, c, d, e)
  PROVE  Counted(a, b, c, d, e)
<1> USE DEF Rising
<1>1. IsFiniteSet({a}) /\ Cardinality({a}) = 1
  BY FS_Singleton
<1>2. IsFiniteSet({a, b}) /\ Cardinality({a, b}) = 2
  <2>1. {a, b} = {a} \cup {b} /\ b \notin {a}
    OBVIOUS
  <2>2. QED
    BY <1>1, <2>1, OneMore, Zenon
<1>3. IsFiniteSet({a, b, c}) /\ Cardinality({a, b, c}) = 3
  <2>1. {a, b, c} = {a, b} \cup {c} /\ c \notin {a, b}
    OBVIOUS
  <2>2. QED
    BY <1>2, <2>1, OneMore, Zenon
<1>4. IsFiniteSet({a, b, c, d}) /\ Cardinality({a, b, c, d}) = 4
  <2>1. {a, b, c, d} = {a, b, c} \cup {d} /\ d \notin {a, b, c}
    OBVIOUS
  <2>2. QED
    BY <1>3, <2>1, OneMore, Zenon
<1>5. IsFiniteSet({a, b, c, d, e}) /\ Cardinality({a, b, c, d, e}) = 5
  <2>1. {a, b, c, d, e} = {a, b, c, d} \cup {e} /\ e \notin {a, b, c, d}
    OBVIOUS
  <2>2. QED
    BY <1>4, <2>1, OneMore, Zenon
<1>6. QED
  BY <1>1, <1>2, <1>3, <1>4, <1>5 DEF Counted

\* Where an event with five separators is cut.
LEMMA FiveCuts ==
  ASSUME NEW S, NEW event \in Seq(S),
         NEW a, NEW b, NEW c, NEW d, NEW e, Rising(a, b, c, d, e), Separators(event) = {a, b, c, d, e}
  PROVE  /\ Cut(event, 0) = 0 /\ Cut(event, 1) = a /\ Cut(event, 2) = b
         /\ Cut(event, 3) = c /\ Cut(event, 4) = d /\ Cut(event, 5) = e
<1> DEFINE upTo(i) == Separators(SubSeq(event, 1, i))
<1>1. ASSUME NEW i \in Separators(event)
      PROVE  upTo(i) = {j \in Separators(event) : j <= i}
  <2>1. i \in 1..Len(event) /\ Len(event) \in Nat
    BY LenProperties DEF Separators
  <2>2. \A j \in 1..i : event[j] \in S
    BY <2>1, ElementOfSeq
  <2>3. /\ Len(SubSeq(event, 1, i)) = i
        /\ \A j \in 1..i : SubSeq(event, 1, i)[j] = event[j]
    BY <2>1, <2>2, SubSeqProperties
  <2>4. QED
    BY <2>1, <2>3 DEF Separators
<1>2. /\ upTo(a) = {a} /\ upTo(b) = {a, b} /\ upTo(c) = {a, b, c}
      /\ upTo(d) = {a, b, c, d} /\ upTo(e) = {a, b, c, d, e}
  <2>1. \A i \in {a, b, c, d, e} : upTo(i) = {j \in {a, b, c, d, e} : j <= i}
    BY <1>1
  <2> HIDE DEF upTo
  <2>2. upTo(a) = {a}
    BY <2>1 DEF Rising
  <2>3. upTo(b) = {a, b}
    BY <2>1 DEF Rising
  <2>4. upTo(c) = {a, b, c}
    BY <2>1 DEF Rising
  <2>5. upTo(d) = {a, b, c, d}
    BY <2>1 DEF Rising
  <2>6. upTo(e) = {a, b, c, d, e}
    BY <2>1 DEF Rising
  <2>7. QED
    BY <2>2, <2>3, <2>4, <2>5, <2>6
<1> DEFINE count(i) == Cardinality(upTo(i))
<1>3. count(a) = 1 /\ count(b) = 2 /\ count(c) = 3 /\ count(d) = 4 /\ count(e) = 5
  <2> HIDE DEF upTo
  <2>1. Counted(a, b, c, d, e)
    BY FiveCounted
  <2>2. QED
    BY <1>2, <2>1 DEF Counted
<1>4. ASSUME NEW k \in 1..5 PROVE Cut(event, k) = CHOOSE i \in {a, b, c, d, e} : count(i) = k
  BY <1>4 DEF Cut
<1>5. Cut(event, 0) = 0
  BY DEF Cut
<1> HIDE DEF count
<1>6. Cut(event, 1) = a
  BY <1>3, <1>4
<1>7. Cut(event, 2) = b
  BY <1>3, <1>4
<1>8. Cut(event, 3) = c
  BY <1>3, <1>4
<1>9. Cut(event, 4) = d
  BY <1>3, <1>4
<1>10. Cut(event, 5) = e
  BY <1>3, <1>4
<1>11. QED
  BY <1>5, <1>6, <1>7, <1>8, <1>9, <1>10

\* The separators of an event are those that Event writes, unless the name or the
\* value holds one: then there are more than five.
LEMMA FiveSeparators ==
  ASSUME NEW r \in Requests, r.sa # None
  PROVE  LET n == Len(r.name)
             v == Len(r.value)
             five == {2, 4, 5 + n, 6 + n + v, 8 + n + v}
         IN /\ Cardinality(Separators(Event(r))) = PARTEVENT_NUM <=> Separators(Event(r)) = five
            /\ Separators(Event(r)) = five <=>
                 (\A i \in 1..n : r.name[i] # "#") /\ (\A i \in 1..v : r.value[i] # "#")
<1> DEFINE n == Len(r.name)
           v == Len(r.value)
           event == Event(r)
           five == {2, 4, 5 + n, 6 + n + v, 8 + n + v}
<1>1. event \in Seq(Token) /\ n \in Nat /\ v \in Nat /\ EventPlaces(r, event, n, v)
  BY EventLaid
<1>2. r.sa # "#" /\ r.id # "#" /\ r.extraDataId # "#"
  BY RequestType
<1> HIDE DEF n, v, event
<1>3. five \subseteq Separators(event)
  BY <1>1 DEF Separators, EventPlaces
<1>4. IsFiniteSet(Separators(event))
  <2>1. Separators(event) \in SUBSET (1..8 + n + v)
    BY <1>1 DEF Separators, EventPlaces
  <2>2. IsFiniteSet(1..8 + n + v)
    BY <1>1, FS_Interval
  <2>3. QED
    BY <2>1, <2>2, FS_Subset
<1>5. Cardinality(five) = 5
  <2>1. Rising(2, 4, 5 + n, 6 + n + v, 8 + n + v)
    BY <1>1 DEF Rising
  <2>2. Counted(2, 4, 5 + n, 6 + n + v, 8 + n + v)
    BY <2>1, FiveCounted
  <2>3. QED
    BY <2>2 DEF Counted
<1>6. Cardinality(Separators(event)) = PARTEVENT_NUM <=> Separators(event) = five
  BY <1>3, <1>4, <1>5, FS_Subset DEF PARTEVENT_NUM
<1>7. ASSUME \A i \in 1..n : r.name[i] # "#", \A i \in 1..v : r.value[i] # "#"
      PROVE  Separators(event) = five
  <2> SUFFICES ASSUME NEW i \in Separators(event), i \notin five PROVE FALSE
    BY <1>3
  <2>1. i \in 1..8 + n + v /\ event[i] = "#"
    BY <1>1 DEF Separators, EventPlaces
  <2>2. CASE i \in 5..4 + n
    <3>1. PICK j \in 1..n : i = 4 + j
      <4>1. i - 4 \in 1..n /\ i = 4 + (i - 4)
        BY <1>1, <2>2
      <4>2. QED
        BY <4>1
    <3>2. event[4 + j] = r.name[j]
      BY <1>1, Zenon DEF EventPlaces
    <3>3. QED
      BY <1>7, <2>1, <3>1, <3>2
  <2>3. CASE i \in 6 + n..5 + n + v
    <3>1. PICK j \in 1..v : i = 5 + n + j
      <4>1. i - (5 + n) \in 1..v /\ i = 5 + n + (i - (5 + n))
        BY <1>1, <2>3
      <4>2. QED
        BY <4>1
    <3>2. event[5 + n + j] = r.value[j]
      BY <1>1, Zenon DEF EventPlaces
    <3>3. QED
      BY <1>7, <2>1, <3>1, <3>2
  <2>4. CASE i \in {1, 3, 7 + n + v}
    BY <1>1, <1>2, <2>1, <2>4 DEF EventPlaces
  <2>5. QED
    BY <1>1, <2>1, <2>2, <2>3, <2>4
<1>8. ASSUME Separators(event) = five
      PROVE  (\A i \in 1..n : r.name[i] # "#") /\ (\A i \in 1..v : r.value[i] # "#")
  <2>1. ASSUME NEW i \in 1..n PROVE r.name[i] # "#"
    <3>1. 4 + i \in 1..8 + n + v /\ 4 + i \notin five
      BY <1>1
    <3>2. QED
      BY <1>1, <1>8, <3>1 DEF Separators, EventPlaces
  <2>2. ASSUME NEW i \in 1..v PROVE r.value[i] # "#"
    <3>1. 5 + n + i \in 1..8 + n + v /\ 5 + n + i \notin five
      BY <1>1
    <3>2. QED
      BY <1>1, <1>8, <3>1 DEF Separators, EventPlaces
  <2>3. QED
    BY <2>1, <2>2
<1>9. QED
  BY <1>6, <1>7, <1>8 DEF n, v, event

\* The parts of an event with five separators are what Event was given.
LEMMA EventParts ==
  ASSUME NEW r \in Requests, r.sa # None, Cardinality(Separators(Event(r))) = PARTEVENT_NUM
  PROVE  /\ Part(Event(r), 1) = <<r.sa>> /\ Part(Event(r), 2) = <<r.id>>
         /\ Part(Event(r), 3) = r.name /\ Part(Event(r), 4) = r.value
         /\ Part(Event(r), 5) = <<r.extraDataId>>
<1> DEFINE n == Len(r.name)
           v == Len(r.value)
           event == Event(r)
<1>1. event \in Seq(Token) /\ n \in Nat /\ v \in Nat /\ EventPlaces(r, event, n, v)
  BY EventLaid
<1>2. Separators(event) = {2, 4, 5 + n, 6 + n + v, 8 + n + v}
  BY FiveSeparators
<1>3. r.name \in Seq(Token) /\ r.value \in Seq(Token)
  BY RequestType
<1>4. /\ n = Len(r.name) /\ r.name \in [1..n -> Token]
      /\ v = Len(r.value) /\ r.value \in [1..v -> Token]
  BY <1>3, LenProperties
<1> HIDE DEF n, v, event
<1>5. /\ Cut(event, 0) = 0 /\ Cut(event, 1) = 2 /\ Cut(event, 2) = 4
      /\ Cut(event, 3) = 5 + n /\ Cut(event, 4) = 6 + n + v /\ Cut(event, 5) = 8 + n + v
  <2>1. Rising(2, 4, 5 + n, 6 + n + v, 8 + n + v)
    BY <1>1 DEF Rising
  <2>2. QED
    BY <1>1, <1>2, <2>1, FiveCuts
<1>6. ASSUME NEW i \in Nat, NEW k \in Nat, 1 <= i, k <= 8 + n + v, i <= k + 1
      PROVE  /\ SubSeq(event, i, k) \in Seq(Token)
             /\ Len(SubSeq(event, i, k)) = k - i + 1
             /\ \A j \in 1..k - i + 1 : SubSeq(event, i, k)[j] = event[i + j - 1]
  <2>1. \A j \in i..k : event[j] \in Token
    BY <1>1, <1>6, ElementOfSeq DEF EventPlaces
  <2>2. QED
    BY <1>6, <2>1, SubSeqProperties
<1>7. Part(event, 1) = <<r.sa>>
  <2>1. Part(event, 1) = SubSeq(event, 1, 1)
    BY <1>5 DEF Part
  <2>2. QED
    BY <1>1, <1>6, <2>1 DEF EventPlaces
<1>8. Part(event, 2) = <<r.id>>
  <2>1. Part(event, 2) = SubSeq(event, 3, 3)
    BY <1>5 DEF Part
  <2>2. QED
    BY <1>1, <1>6, <2>1 DEF EventPlaces
<1>9. Part(event, 5) = <<r.extraDataId>>
  <2>1. Part(event, 5) = SubSeq(event, 7 + n + v, 7 + n + v)
    BY <1>1, <1>5 DEF Part
  <2>2. QED
    BY <1>1, <1>6, <2>1 DEF EventPlaces
<1>10. Part(event, 3) = r.name
  <2> DEFINE part == SubSeq(event, 5, 4 + n)
  <2>1. Part(event, 3) = part
    <3>1. Cut(event, 2) + 1 = 5 /\ Cut(event, 3) - 1 = 4 + n /\ 3 - 1 = 2
      BY <1>1, <1>5
    <3>2. QED
      BY <3>1, Zenon DEF Part
  <2>2. 5 \in Nat /\ 4 + n \in Nat /\ 4 + n <= 8 + n + v /\ 5 <= (4 + n) + 1 /\ (4 + n) - 5 + 1 = n
    BY <1>1
  <2>3. /\ part \in Seq(Token) /\ Len(part) = n
        /\ \A j \in 1..n : part[j] = event[5 + j - 1]
    BY <1>6, <2>2
  <2> HIDE DEF part
  <2>4. ASSUME NEW j \in 1..n PROVE part[j] = r.name[j]
    <3>1. 5 + j - 1 = 4 + j
      OBVIOUS
    <3>2. QED
      BY <1>1, <2>3, <3>1 DEF EventPlaces
  <2>5. QED
    BY <1>3, <1>4, <2>1, <2>3, <2>4, SeqEqual
<1>11. Part(event, 4) = r.value
  <2> DEFINE part == SubSeq(event, 6 + n, 5 + n + v)
  <2>1. Part(event, 4) = part
    <3>1. Cut(event, 3) + 1 = 6 + n /\ Cut(event, 4) - 1 = 5 + n + v /\ 4 - 1 = 3
      BY <1>1, <1>5
    <3>2. QED
      BY <3>1, Zenon DEF Part
  <2>2. /\ 6 + n \in Nat /\ 5 + n + v \in Nat /\ 1 <= 6 + n /\ 5 + n + v <= 8 + n + v
        /\ 6 + n <= (5 + n + v) + 1 /\ (5 + n + v) - (6 + n) + 1 = v
    BY <1>1
  <2>3. /\ part \in Seq(Token) /\ Len(part) = v
        /\ \A j \in 1..v : part[j] = event[6 + n + j - 1]
    BY <1>6, <2>2
  <2> HIDE DEF part
  <2>4. ASSUME NEW j \in 1..v PROVE part[j] = r.value[j]
    <3>1. 6 + n + j - 1 = 5 + n + j
      BY <1>1
    <3>2. QED
      BY <1>1, <2>3, <3>1 DEF EventPlaces
  <2>5. QED
    BY <1>3, <1>4, <2>1, <2>3, <2>4, SeqEqual
<1>12. QED
  BY <1>7, <1>8, <1>9, <1>10, <1>11 DEF event

\* Where a command line holds what; k is the length of the options.
LinePlaces(r, line, k) ==
  /\ Len(line) = 2 + k + (IF r.sa = None THEN 0 ELSE 1)
  /\ line[1] = <<"sa_main">> /\ line[2] = r.path
  /\ \A i \in 1..k : line[2 + i] = r.options[i]
  /\ r.sa # None => line[2 + k + 1] = Event(r)

\* The command line of a request has its arguments at these places.
LEMMA LineLaid ==
  ASSUME NEW r \in Requests
  PROVE  Len(r.options) \in Nat /\ LinePlaces(r, CommandLine(r), Len(r.options))
<1> DEFINE k == Len(r.options)
           first == <<<<"sa_main">>, r.path>>
           front == first \o r.options
           last == IF r.sa = None THEN <<>> ELSE <<Event(r)>>
           Arg == Seq(Token)
<1>1. r.path \in Arg /\ r.options \in Seq(Arg) /\ k \in Nat
  BY RequestType, LenProperties
<1>2. first \in Seq(Arg) /\ Len(first) = 2 /\ first[1] = <<"sa_main">> /\ first[2] = r.path
  <2>1. <<"sa_main">> \in Arg
    BY TokenAssumption
  <2> HIDE DEF Arg
  <2>2. QED
    BY <1>1, <2>1
<1>3. /\ last \in Seq(Arg) /\ Len(last) = IF r.sa = None THEN 0 ELSE 1
      /\ r.sa # None => last[1] = Event(r)
  <2>1. r.sa # None => Event(r) \in Arg
    BY EventLaid
  <2> HIDE DEF Arg
  <2>2. QED
    BY <2>1
<1>4. CommandLine(r) = front \o last
  BY DEF CommandLine
<1> HIDE DEF first, last, Arg
<1>5. Behind(front, Arg, first, 2, r.options, k)
  BY <1>1, <1>2, Joined, Zenon
<1>6. front \in Seq(Arg) /\ Len(front) = 2 + k
  BY <1>5 DEF Behind
<1> HIDE DEF front, k
<1>7. Behind(front \o last, Arg, front, 2 + k, last, Len(last))
  BY <1>3, <1>6, Joined, Zenon
<1> DEFINE line == front \o last
<1> HIDE DEF line
<1>8. Len(line) = 2 + k + (IF r.sa = None THEN 0 ELSE 1)
  BY <1>3, <1>7 DEF Behind, line
<1>9. \A i \in 1..2 + k : line[i] = front[i]
  BY <1>7 DEF Behind, line
<1>10. line[1] = <<"sa_main">> /\ line[2] = r.path
  BY <1>1, <1>2, <1>5, <1>9 DEF Behind
<1>11. \A i \in 1..k : line[2 + i] = r.options[i]
  BY <1>1, <1>5, <1>9 DEF Behind
<1>12. r.sa # None => line[2 + k + 1] = Event(r)
  BY <1>3, <1>7 DEF Behind, line
<1>13. QED
  BY <1>1, <1>4, <1>8, <1>10, <1>11, <1>12 DEF LinePlaces, k, line

\* However many options there are, they are all skipped.
LEMMA OptionsSkipped ==
  ASSUME NEW r \in Requests
  PROVE  InitMallopt(CommandLine(r)) = Len(r.options)
<1> DEFINE k == Len(r.options)
           line == CommandLine(r)
           found == {i \in 1..Len(line) - 1 : line[i] = <<"-m">>}
           m == k \div 2
           f == [j \in 1..m |-> 2 * j + 1]
<1>1. k \in Nat /\ LinePlaces(r, line, k)
  BY LineLaid
<1>2. /\ r.path # <<"-m">> /\ k % 2 = 0
      /\ \A i \in 1..k : r.options[i] = <<"-m">> <=> i % 2 = 1
  BY RequestAssumption
<1> HIDE DEF k, line
<1>3. m \in Nat /\ k = 2 * m
  BY <1>1, <1>2
<1> HIDE DEF m
<1>4. Len(line) - 1 \in {1 + k, 2 + k}
  BY <1>1 DEF LinePlaces
<1>5. ASSUME NEW j \in 1..m PROVE 2 * j + 1 \in found
  <2>1. 2 * j - 1 \in 1..k /\ (2 * j - 1) % 2 = 1 /\ 2 + (2 * j - 1) = 2 * j + 1 /\ 2 * j + 1 \in 1..Len(line) - 1
    BY <1>3, <1>4
  <2>2. line[2 * j + 1] = r.options[2 * j - 1]
    BY <1>1, <2>1 DEF LinePlaces
  <2>3. QED
    BY <1>2, <2>1, <2>2
<1>6. ASSUME NEW i \in found PROVE \E j \in 1..m : i = 2 * j + 1
  <2>1. i \in 1..2 + k /\ line[i] = <<"-m">>
    BY <1>1, <1>4
  <2>2. i # 1
    <3>1. <<"sa_main">> # <<"-m">>
      OBVIOUS
    <3>2. QED
      BY <1>1, <2>1, <3>1 DEF LinePlaces
  <2>3. i # 2
    BY <1>1, <1>2, <2>1 DEF LinePlaces
  <2>4. i - 2 \in 1..k /\ 2 + (i - 2) = i
    BY <1>1, <2>1, <2>2, <2>3
  <2>5. (i - 2) % 2 = 1
    BY <1>1, <1>2, <2>1, <2>4 DEF LinePlaces
  <2>6. (i - 1) \div 2 \in 1..m /\ i = 2 * ((i - 1) \div 2) + 1
    BY <1>3, <2>4, <2>5
  <2>7. QED
    BY <2>6
<1> HIDE DEF found
<1>7. f \in Bijection(1..m, found)
  BY <1>5, <1>6 DEF Bijection, Injection, Surjection, IsInjective
<1>8. IsFiniteSet(1..m) /\ Cardinality(1..m) = m
  BY <1>3, FS_Interval
<1>9. Cardinality(found) = m
  BY <1>7, <1>8, FS_Bijection DEF ExistsBijection
<1>10. QED
  BY <1>3, <1>9 DEF InitMallopt, MALLOPT_CONFIG_LEN, found, line, k

\* What becomes of the event of a request that parses.
LEMMA EventParsed ==
  ASSUME NEW r \in Requests, r.sa # None, NEW e \in ParseArgv(Event(r))
  PROVE  /\ e.saId = r.sa
         /\ \E id, x : /\ e.eventMap = [eventId |-> id, name |-> r.name, value |-> r.value, extraDataId |-> x]
                       /\ Number[r.id] \in AnyInt => id = Number[r.id]
                       /\ Number[r.extraDataId] \in AnyInt => x = Number[r.extraDataId]
<1>1. Cardinality(Separators(Event(r))) = PARTEVENT_NUM
  BY DEF ParseArgv
<1>2. PICK sa \in StrToInt(Part(Event(r), 1)), id \in Atoi(Part(Event(r), 2)), x \in Atoi(Part(Event(r), 5)) :
        e = [saId |-> sa, eventMap |-> [eventId |-> id, name |-> Part(Event(r), 3),
                                        value |-> Part(Event(r), 4), extraDataId |-> x]]
  BY <1>1 DEF ParseArgv
<1>3. /\ Part(Event(r), 1) = <<r.sa>> /\ Part(Event(r), 2) = <<r.id>>
      /\ Part(Event(r), 3) = r.name /\ Part(Event(r), 4) = r.value
      /\ Part(Event(r), 5) = <<r.extraDataId>>
  BY <1>1, EventParts
<1>4. sa = r.sa
  BY <1>2, <1>3 DEF StrToInt
<1>5. r.id \in DOMAIN Number /\ r.extraDataId \in DOMAIN Number
  BY RequestType
<1>6. /\ Number[r.id] \in AnyInt => id = Number[r.id]
      /\ Number[r.extraDataId] \in AnyInt => x = Number[r.extraDataId]
  BY <1>2, <1>3, <1>5 DEF Atoi
<1>7. QED
  BY <1>2, <1>3, <1>4, <1>6

\* The event of a proper request parses.
LEMMA ProperParses ==
  ASSUME NEW r \in Requests, r.sa # None, Proper(r)
  PROVE  \E e \in ParseArgv(Event(r)) : CheckSaId(e.saId)
<1> DEFINE event == Event(r)
<1>1. r.sa \in SA \cup Elsewhere /\ Len(event) <= MAX_LENGTH
      /\ \A i \in DOMAIN (r.name \o r.value) : (r.name \o r.value)[i] # "#"
  BY DEF Proper, CheckSaId
<1>2. ~(Len(event) > MAX_LENGTH)
  BY <1>1, EventLaid, LenProperties, LimitAssumption
<1>3. Cardinality(Separators(event)) = PARTEVENT_NUM
  <2> DEFINE n == Len(r.name)
             v == Len(r.value)
             both == r.name \o r.value
  <2>1. r.name \in Seq(Token) /\ r.value \in Seq(Token) /\ n \in Nat /\ v \in Nat
    BY RequestType, LenProperties
  <2>2. Behind(both, Token, r.name, n, r.value, v)
    BY <2>1, Joined, Zenon
  <2>3. DOMAIN both = 1..n + v
    BY <2>2, LenProperties DEF Behind
  <2> HIDE DEF n, v, both
  <2>4. (\A i \in 1..n : r.name[i] # "#") /\ (\A i \in 1..v : r.value[i] # "#")
    <3>1. \A i \in 1..n + v : both[i] # "#"
      BY <1>1, <2>3 DEF both
    <3>2. ASSUME NEW i \in 1..n PROVE r.name[i] # "#"
      <4>1. i \in 1..n + v
        BY <2>1
      <4>2. QED
        BY <2>2, <3>1, <4>1 DEF Behind
    <3>3. ASSUME NEW i \in 1..v PROVE r.value[i] # "#"
      <4>1. n + i \in 1..n + v
        BY <2>1
      <4>2. QED
        BY <2>2, <3>1, <4>1 DEF Behind
    <3>4. QED
      BY <3>2, <3>3
  <2>5. QED
    BY <2>4, FiveSeparators DEF n, v
<1>4. r.sa \in StrToInt(Part(event, 1))
  BY <1>1, <1>3, EventParts DEF StrToInt
<1>5. \A token \in DOMAIN Number : Atoi(<<token>>) # {}
  <2>1. 0 \in AnyInt
    BY LimitAssumption DEF AnyInt
  <2>2. QED
    BY <2>1 DEF Atoi
<1>6. Atoi(Part(event, 2)) # {} /\ Atoi(Part(event, 5)) # {}
  BY <1>3, <1>5, EventParts, RequestType
<1>7. PICK id \in Atoi(Part(event, 2)), x \in Atoi(Part(event, 5)) : TRUE
  BY <1>6
<1> DEFINE e == [saId |-> r.sa, eventMap |-> [eventId |-> id, name |-> Part(event, 3),
                                              value |-> Part(event, 4), extraDataId |-> x]]
<1>8. e \in ParseArgv(event)
  BY <1>2, <1>3, <1>4, <1>7 DEF ParseArgv
<1>9. CheckSaId(e.saId)
  BY <1>1 DEF CheckSaId
<1>10. QED
  BY <1>8, <1>9

\* main reads what was asked of it.
LEMMA MainReads ==
  ASSUME NEW r \in Requests, argv = CommandLine(r), saId = None, MainArgs
  PROVE  Asked(r)'
<1> DEFINE k == Len(r.options)
           line == CommandLine(r)
<1>1. k \in Nat /\ LinePlaces(r, line, k) /\ InitMallopt(line) = k
  BY LineLaid, OptionsSkipped
<1> HIDE DEF k, line
<1>2. HasEvent(line) <=> r.sa # None
  <2>1. (r.sa = None => Len(line) = 2 + k) /\ (r.sa # None => Len(line) = 3 + k)
    BY <1>1 DEF LinePlaces
  <2>2. HasEvent(line) <=> Len(line) > 2 + k
    BY <1>1 DEF HasEvent, ONDEMAND_LOAD
  <2>3. QED
    BY <1>1, <2>1, <2>2
<1>3. r.sa # None => line[EVENT_INDEX + InitMallopt(line) + 1] = Event(r)
  BY <1>1 DEF EVENT_INDEX, LinePlaces
<1>4. Len(line) \in Nat /\ Len(line) >= 2 /\ ARGC_MAX_COUNT \in Nat
  BY <1>1, LimitAssumption DEF LinePlaces
<1>5. CASE Len(line) \notin ARGC_LIMIT..ARGC_MAX_COUNT
  <2>1. ~Proper(r)
    <3>1. ~(Len(line) <= ARGC_MAX_COUNT)
      BY <1>4, <1>5 DEF ARGC_LIMIT
    <3>2. QED
      BY <3>1 DEF Proper, line
  <2>2. pc' = "exit"
    BY <1>5 DEF MainArgs, line
  <2>3. QED
    BY <2>1, <2>2 DEF Asked
<1>6. CASE Len(line) \in ARGC_LIMIT..ARGC_MAX_COUNT /\ r.sa = None
  <2>1. pc' = "start" /\ saId' = None
    BY <1>2, <1>6 DEF MainArgs, line
  <2>2. QED
    BY <1>6, <2>1 DEF Asked
<1>7. CASE Len(line) \in ARGC_LIMIT..ARGC_MAX_COUNT /\ r.sa # None
  <2>1. \/ (\A e \in ParseArgv(Event(r)) : ~CheckSaId(e.saId)) /\ pc' = "exit"
        \/ \E e \in ParseArgv(Event(r)) : saId' = e.saId /\ startReason' = e.eventMap /\ pc' = "start"
    BY <1>2, <1>3, <1>7 DEF MainArgs, line
  <2>2. CASE (\A e \in ParseArgv(Event(r)) : ~CheckSaId(e.saId)) /\ pc' = "exit"
    BY <1>7, <2>2, ProperParses DEF Asked
  <2>3. ASSUME NEW e \in ParseArgv(Event(r)), saId' = e.saId, startReason' = e.eventMap, pc' = "start"
        PROVE  Asked(r)'
    <3>1. PICK id, x : /\ startReason' = [eventId |-> id, name |-> r.name, value |-> r.value, extraDataId |-> x]
                       /\ Number[r.id] \in AnyInt => id = Number[r.id]
                       /\ Number[r.extraDataId] \in AnyInt => x = Number[r.extraDataId]
      BY <1>7, <2>3, EventParsed
    <3>2. saId' = r.sa
      BY <1>7, <2>3, EventParsed
    <3>3. JsonToOnDemandReason(startReason') =
            {[id |-> id, name |-> r.name, value |-> r.value, extraDataId |-> x, extraData |-> NoExtraData]}
      BY <3>1 DEF JsonToOnDemandReason, Field
    <3>4. QED
      BY <2>3, <3>1, <3>2, <3>3 DEF Asked
  <2>4. QED
    BY <2>1, <2>2, <2>3
<1>8. QED
  BY <1>5, <1>6, <1>7

\* No other step touches the arguments or leads back to main.
LEMMA ArgumentsUnmoved ==
  ASSUME [Next]_vars, ~MainArgs, ~DoStartSAProcess
  PROVE  /\ UNCHANGED argVars
         /\ UNCHANGED pc \/ (pc \notin {"main", "start", "exit"} /\ pc' \notin {"main", "start"})
<1>1. CASE InitSystemAbilityProfiles \/ CheckSystemAbilityManagerReady \/ AddLocalAbilityManager
           \/ RegisterOnDemandSystemAbility
  BY <1>1
  DEF InitSystemAbilityProfiles, CheckSystemAbilityManagerReady, AddLocalAbilityManager,
      RegisterOnDemandSystemAbility, configVars
<1>2. CASE FindPhaseTasks \/ SkipPhase \/ EndPhaseTasks \/ WaitForTasks \/ WaitTimesOut \/ StopPool \/ JoinPool
  BY <1>2
  DEF FindPhaseTasks, SkipPhase, EndPhaseTasks, WaitForTasks, WaitTimesOut, StopPool, JoinPool, configVars
<1>3. ASSUME NEW s \in SA, CountTask(s) \/ AddTask(s) \/ Task(s) \/ LoadOnDemand(s)
      PROVE  /\ UNCHANGED argVars
             /\ UNCHANGED pc \/ (pc \notin {"main", "start", "exit"} /\ pc' \notin {"main", "start"})
  BY <1>3
  DEF CountTask, AddTask, Task, TakeTask, StartDependSaTask, StartAbility, FinishTask, LoadOnDemand,
      configVars, mainVars
<1>4. CASE (\E e \in Elsewhere : PublishElsewhere(e)) \/ UNCHANGED vars
  BY <1>4 DEF PublishElsewhere, vars, configVars, mainVars
<1>5. QED
  BY <1>1, <1>2, <1>3, <1>4 DEF Next, Main

\* Where the arguments are as they were given, and where nothing is left of them.
AskedInv ==
  /\ \A r \in Requests : argv = CommandLine(r) => Asked(r)
  /\ pc \notin {"main", "start", "exit"} => argv = <<>>
  /\ pc = "main" => saId = None

\* A process is started as it was asked to be, on every command line that init and
\* samgr write: it goes on only for the SA that it was started for, with the
\* reason of that start, and ends only on a request it cannot carry out.
THEOREM StartsAsAsked == Spec => []StartedAsAsked
<1>1. Init => AskedInv
  BY DEF Init, AskedInv, Asked
<1>2. AskedInv /\ [Next]_vars => AskedInv'
  <2> SUFFICES ASSUME AskedInv, [Next]_vars PROVE AskedInv'
    OBVIOUS
  <2>1. CASE MainArgs
    <3>1. pc = "main" /\ pc' \in {"start", "exit"} /\ argv' = argv
      BY <2>1 DEF MainArgs
    <3>2. ASSUME NEW r \in Requests, argv' = CommandLine(r) PROVE Asked(r)'
      BY <2>1, <3>1, <3>2, MainReads DEF AskedInv
    <3>3. QED
      BY <3>1, <3>2 DEF AskedInv
  <2>2. CASE DoStartSAProcess
    <3>1. CASE pc' = "profiles"
      <4>1. argv' = <<>>
        BY <2>2, <3>1 DEF DoStartSAProcess
      <4>2. QED
        BY <3>1, <4>1 DEF AskedInv, Asked
    <3>2. CASE pc' = "exit"
      <4>1. argv' = argv /\ ~(PathIsJson(argv[2]) /\ CheckAndGetProfilePath(argv[2]))
        BY <2>2, <3>2 DEF DoStartSAProcess
      <4>2. ASSUME NEW r \in Requests, argv' = CommandLine(r) PROVE ~Proper(r)
        BY <4>1, <4>2, LineLaid DEF LinePlaces, Proper
      <4>3. QED
        BY <3>2, <4>2 DEF AskedInv, Asked
    <3>3. QED
      BY <2>2, <3>1, <3>2 DEF DoStartSAProcess
  <2>3. CASE ~MainArgs /\ ~DoStartSAProcess
    <3>1. /\ UNCHANGED <<argv, startReason, saId>>
          /\ UNCHANGED pc \/ (pc \notin {"main", "start", "exit"} /\ pc' \notin {"main", "start"})
      BY <2>3, ArgumentsUnmoved DEF argVars
    <3>2. CASE UNCHANGED pc
      BY <3>1, <3>2 DEF AskedInv, Asked
    <3>3. CASE pc \notin {"main", "start", "exit"} /\ pc' \notin {"main", "start"}
      <4>1. argv' = <<>>
        BY <3>1, <3>3 DEF AskedInv
      <4>2. ASSUME NEW r \in Requests PROVE CommandLine(r) # <<>>
        <5>1. Len(CommandLine(r)) = 2 + Len(r.options) + IF r.sa = None THEN 0 ELSE 1
          BY LineLaid DEF LinePlaces
        <5>2. ASSUME NEW k \in Nat PROVE 2 + k + (IF r.sa = None THEN 0 ELSE 1) # 0
          OBVIOUS
        <5>3. Len(CommandLine(r)) # 0
          BY <5>1, <5>2, LineLaid, Zenon
        <5>4. QED
          BY <5>3
      <4>3. QED
        BY <3>3, <4>1, <4>2 DEF AskedInv
    <3>4. QED
      BY <3>1, <3>2, <3>3
  <2>4. QED
    BY <2>1, <2>2, <2>3
<1>3. AskedInv => StartedAsAsked
  BY DEF AskedInv, Asked, StartedAsAsked
<1>4. QED
  BY <1>1, <1>2, <1>3, PTL DEF Spec

-----------------------------------------------------------------------------
(* The reason and its extra data.                                          *)

\* The keys of a map are listed once each.
LEMMA KeyOrder ==
  ASSUME NEW want, IsFiniteSet(DOMAIN want)
  PROVE  LET n == Cardinality(DOMAIN want)
         IN /\ n \in Nat /\ Keys(want) \in [1..n -> DOMAIN want]
            /\ \A i, j \in 1..n : Keys(want)[i] = Keys(want)[j] => i = j
            /\ \A key \in DOMAIN want : \E i \in 1..n : Keys(want)[i] = key
<1> DEFINE n == Cardinality(DOMAIN want)
<1>1. n \in Nat /\ ExistsBijection(1..n, DOMAIN want)
  BY FS_CardinalityType
<1>2. Keys(want) \in Bijection(1..n, DOMAIN want)
  BY <1>1 DEF Keys, ExistsBijection
<1>3. QED
  BY <1>1, <1>2 DEF Bijection, Injection, Surjection, IsInjective

\* A list holds the keys of a map, once each, and their values behind them.
Laid(list, want, n, keys) ==
  /\ \A j, k \in 1..n : keys[j] = keys[k] => j = k
  /\ \A key \in DOMAIN want : \E j \in 1..n : keys[j] = key
  /\ \A j \in 1..n : list[2 * j - 1] = keys[j] /\ list[2 * j] = want[keys[j]]
  /\ KeyPlaces(list) = {2 * j - 1 : j \in 1..n}

\* Where the list of a want holds what.
LEMMA WantPlaces ==
  ASSUME NEW want, IsFiniteSet(DOMAIN want)
  PROVE  \E n \in Nat : \E keys \in [1..n -> DOMAIN want] : Laid(WantList(want), want, n, keys)
<1> DEFINE n == Cardinality(DOMAIN want)
           keys == Keys(want)
           list == WantList(want)
<1>1. /\ n \in Nat /\ keys \in [1..n -> DOMAIN want]
      /\ \A j, k \in 1..n : keys[j] = keys[k] => j = k
      /\ \A key \in DOMAIN want : \E j \in 1..n : keys[j] = key
  BY KeyOrder
<1>2. list = [i \in 1..2 * n |-> IF i % 2 = 1 THEN keys[(i + 1) \div 2] ELSE want[keys[i \div 2]]]
  BY DEF WantList
<1> HIDE DEF n, keys, list
<1>3. \A j \in 1..n : list[2 * j - 1] = keys[j] /\ list[2 * j] = want[keys[j]]
  <2> TAKE j \in 1..n
  <2>1. /\ 2 * j - 1 \in 1..2 * n /\ (2 * j - 1) % 2 = 1 /\ ((2 * j - 1) + 1) \div 2 = j
        /\ 2 * j \in 1..2 * n /\ (2 * j) % 2 # 1 /\ (2 * j) \div 2 = j
    BY <1>1
  <2>2. QED
    BY <1>2, <2>1
<1>4. Len(list) = 2 * n
  BY <1>1, <1>2
<1>5. {i \in 1..2 * n - 1 : i % 2 = 1} = {2 * j - 1 : j \in 1..n}
  <2>1. ASSUME NEW i \in 1..2 * n - 1, i % 2 = 1 PROVE \E j \in 1..n : i = 2 * j - 1
    <3>1. (i + 1) \div 2 \in 1..n /\ i = 2 * ((i + 1) \div 2) - 1
      BY <1>1, <2>1
    <3>2. QED
      BY <3>1
  <2>2. ASSUME NEW j \in 1..n PROVE 2 * j - 1 \in 1..2 * n - 1 /\ (2 * j - 1) % 2 = 1
    BY <1>1
  <2>3. QED
    BY <2>1, <2>2
<1>6. KeyPlaces(list) = {2 * j - 1 : j \in 1..n}
  BY <1>4, <1>5 DEF KeyPlaces
<1>7. QED
  BY <1>1, <1>3, <1>6 DEF list, Laid

\* A list made of a map is read back as that map, whichever of equal keys counts.
LEMMA WantReadBack ==
  ASSUME NEW want, want = [key \in DOMAIN want |-> want[key]], IsFiniteSet(DOMAIN want)
  PROVE  Want(WantList(want)) = want /\ InsertedWant(WantList(want)) = want
<1> DEFINE list == WantList(want)
<1>0. PICK n \in Nat : \E keys \in [1..n -> DOMAIN want] : Laid(list, want, n, keys)
  BY WantPlaces
<1>1. PICK keys \in [1..n -> DOMAIN want] : Laid(list, want, n, keys)
  BY <1>0
<1> HIDE DEF list
<1> USE DEF Laid
<1>2. {list[i] : i \in KeyPlaces(list)} = DOMAIN want
  <2>1. \A i \in KeyPlaces(list) : list[i] \in DOMAIN want
    BY <1>1
  <2>2. \A key \in DOMAIN want : \E i \in KeyPlaces(list) : list[i] = key
    BY <1>1
  <2>3. QED
    BY <2>1, <2>2
<1>3. {j + 1 : j \in KeyPlaces(list)} = {2 * j : j \in 1..n}
  <2>1. ASSUME NEW i \in KeyPlaces(list) PROVE i + 1 \in {2 * j : j \in 1..n}
    BY <1>1
  <2>2. ASSUME NEW j \in 1..n PROVE \E i \in KeyPlaces(list) : 2 * j = i + 1
    <3>1. 2 * j - 1 \in KeyPlaces(list) /\ 2 * j = (2 * j - 1) + 1
      BY <1>1
    <3>2. QED
      BY <3>1
  <2>3. QED
    BY <2>1, <2>2
<1>4. ASSUME NEW key \in DOMAIN want
      PROVE  \E i \in {j + 1 : j \in KeyPlaces(list)} :
               /\ list[i - 1] = key /\ list[i] = want[key]
               /\ \A j \in KeyPlaces(list) : list[j] = key => j < i /\ j >= i - 1
               /\ \A k \in {j + 1 : j \in KeyPlaces(list)} : list[k - 1] = key => k = i
  <2>1. PICK j \in 1..n : keys[j] = key
    BY <1>1
  <2>2. 2 * j \in {2 * k : k \in 1..n} /\ list[2 * j - 1] = key /\ list[2 * j] = want[key]
    BY <1>1, <2>1
  <2>3. ASSUME NEW i \in KeyPlaces(list), list[i] = key PROVE i < 2 * j /\ i >= 2 * j - 1
    <3>1. PICK k \in 1..n : i = 2 * k - 1
      BY <1>1
    <3>2. keys[k] = key
      BY <1>1, <2>3, <3>1
    <3>3. k = j
      BY <1>1, <2>1, <3>2
    <3>4. QED
      BY <3>1, <3>3
  <2>4. ASSUME NEW i \in {2 * k : k \in 1..n}, list[i - 1] = key PROVE i = 2 * j
    <3>1. PICK k \in 1..n : i = 2 * k
      OBVIOUS
    <3>2. keys[k] = key
      BY <1>1, <2>4, <3>1
    <3>3. QED
      BY <1>1, <2>1, <3>1, <3>2
  <2>5. QED
    BY <1>3, <2>2, <2>3, <2>4
<1>5. Want(list) = want
  <2>1. ASSUME NEW key \in DOMAIN want
        PROVE  list[CHOOSE i \in {j + 1 : j \in KeyPlaces(list)} :
                      /\ list[i - 1] = key
                      /\ \A j \in KeyPlaces(list) : list[j] = key => j < i] = want[key]
    BY <1>4
  <2>2. QED
    BY <1>2, <2>1 DEF Want
<1>6. InsertedWant(list) = want
  <2>1. ASSUME NEW key \in DOMAIN want
        PROVE  list[CHOOSE i \in {j + 1 : j \in KeyPlaces(list)} :
                      /\ list[i - 1] = key
                      /\ \A j \in KeyPlaces(list) : list[j] = key => j >= i - 1] = want[key]
    BY <1>4
  <2>2. QED
    BY <1>2, <2>1 DEF InsertedWant
<1>7. QED
  BY <1>5, <1>6 DEF list
\* The bindings for Rust hand on what they got.
LEMMA WrapperReadBack ==
  ASSUME NEW reason,
         LET want == reason.extraData.want
         IN want = [key \in DOMAIN want |-> want[key]] /\ IsFiniteSet(DOMAIN want)
  PROVE  LET wrapper == BuildReasonWrapper(reason)
         IN /\ Want(wrapper.extra_data.want) = reason.extraData.want
            /\ reason.id \in RustReasonId => deserialize(serialize(wrapper)) = <<wrapper>>
<1> DEFINE want == reason.extraData.want
           list == WantList(want)
           extra == [data |-> reason.extraData.data, code |-> reason.extraData.code, want |-> list]
           wrapper == BuildReasonWrapper(reason)
           parcel == Marshalling([code |-> extra.code, data |-> extra.data, want |-> want])
<1>1. wrapper = [name |-> reason.name, value |-> reason.value, reason_id |-> reason.id,
                 extra_data |-> extra, extra_data_id |-> reason.extraDataId]
  BY DEF BuildReasonWrapper
<1>2. SerializeOnDemandReasonExtraData(extra) = parcel
  BY WantReadBack DEF SerializeOnDemandReasonExtraData
<1>3. DeserializeOnDemandReasonExtraData(parcel) = extra
  <2> DEFINE data == [code |-> extra.code, data |-> extra.data, want |-> want]
  <2>1. data.code = extra.code /\ data.data = extra.data /\ data.want = want
    OBVIOUS
  <2>2. Unmarshalling(parcel) = <<data>>
    <3> HIDE DEF want, extra
    <3>1. QED
      BY DEF Marshalling, Unmarshalling
  <2> HIDE DEF data, parcel
  <2>3. QED
    BY <2>1, <2>2 DEF DeserializeOnDemandReasonExtraData
<1> HIDE DEF extra, wrapper, parcel
<1>4. serialize(wrapper) = <<reason.name, reason.value, reason.id, parcel, reason.extraDataId>>
  BY <1>1, <1>2 DEF serialize
<1>5. reason.id \in RustReasonId => deserialize(serialize(wrapper)) = <<wrapper>>
  BY <1>1, <1>3, <1>4 DEF deserialize
<1>6. wrapper.extra_data.want = list
  BY <1>1 DEF extra
<1>7. Want(list) = want
  BY WantReadBack
<1>8. QED
  BY <1>5, <1>6, <1>7 DEF wrapper

\* The reason and its extra data reach the SA, also one written in Rust, whatever
\* the reason is, whatever samgr keeps for it and whether or not it answers.
THEOREM ReasonsReachAbilities == Spec => []ReasonReachesAbility
<1>1. ReasonReachesAbility
  <2> SUFFICES ASSUME NEW reason \in JsonToOnDemandReason(startReason), NEW data \in ExtraDatas,
                      NEW answered \in BOOLEAN
               PROVE  LET got == GetOnDemandReasonExtraData(reason, IF answered THEN Marshalling(data) ELSE <<>>)
                          wrapper == BuildReasonWrapper(got)
                      IN /\ got = IF HasExtraData(reason) /\ answered THEN [reason EXCEPT !.extraData = data] ELSE reason
                         /\ Want(wrapper.extra_data.want) = got.extraData.want
                         /\ reason.id \in RustReasonId => deserialize(serialize(wrapper)) = <<wrapper>>
    BY DEF ReasonReachesAbility
  <2> DEFINE reply == IF answered THEN Marshalling(data) ELSE <<>>
             got == GetOnDemandReasonExtraData(reason, reply)
  <2>1. PICK id, name, value, x : reason = [id |-> id, name |-> name, value |-> value, extraDataId |-> x,
                                            extraData |-> NoExtraData]
    BY DEF JsonToOnDemandReason
  <2>2. /\ data = [code |-> data.code, data |-> data.data, want |-> data.want]
        /\ data.want = [key \in DOMAIN data.want |-> data.want[key]]
        /\ IsFiniteSet(DOMAIN data.want)
    BY ExtraAssumption
  <2>3. got = IF HasExtraData(reason) /\ answered THEN [reason EXCEPT !.extraData = data] ELSE reason
    <3>1. CASE answered
      <4>1. Unmarshalling(Marshalling(data)) = <<data>>
        BY <2>2 DEF Unmarshalling, Marshalling
      <4>2. QED
        BY <3>1, <4>1 DEF GetOnDemandReasonExtraData
    <3>2. CASE ~answered
      <4>1. Unmarshalling(<<>>) = <<>>
        BY DEF Unmarshalling
      <4>2. QED
        BY <3>2, <4>1 DEF GetOnDemandReasonExtraData
    <3>3. QED
      BY <3>1, <3>2
  <2> HIDE DEF got
  <2>4. got.id = reason.id /\ (got.extraData = data \/ got.extraData = NoExtraData)
    BY <2>1, <2>3
  <2>5. LET want == got.extraData.want
        IN want = [key \in DOMAIN want |-> want[key]] /\ IsFiniteSet(DOMAIN want)
    <3>1. CASE got.extraData = data
      BY <2>2, <3>1
    <3>2. CASE got.extraData = NoExtraData
      <4>1. got.extraData.want = <<>>
        BY <3>2 DEF NoExtraData
      <4>2. DOMAIN <<>> = {} /\ <<>> = [key \in {} |-> <<>>[key]]
        OBVIOUS
      <4>3. QED
        BY <4>1, <4>2, FS_EmptySet
    <3>3. QED
      BY <2>4, <3>1, <3>2
  <2>6. QED
    BY <2>3, <2>4, <2>5, WrapperReadBack DEF got
<1>2. QED
  BY <1>1, PTL
=============================================================================
