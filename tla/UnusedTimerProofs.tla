--------------------------- MODULE UnusedTimerProofs ---------------------------
(***************************************************************************)
(* Proofs about UnusedTimer, for any SAs, timeouts, limits and word width. *)
(***************************************************************************)
EXTENDS UnusedTimer, TLAPS

-----------------------------------------------------------------------------
(* Machine arithmetic                                                      *)

\* A word holds an integer, and differences of times as they are.
LEMMA Words ==
  /\ \A i \in Int : Signed(i) \in Int
  /\ \A i \in 0..MaxTime : Unsigned(i) = i
<1> DEFINE half == 2^(WordBits - 1)
           word == 2^WordBits
<1>1. half \in Nat \ {0} /\ word = 2 * half /\ MaxTime \in Nat /\ MaxTime < half
  BY WordAssumption, LimitAssumption
<1>2. \A i \in Int : Signed(i) = IF i % word >= half THEN (i % word) - word ELSE i % word
  BY DEF Signed
<1>3. \A i \in Int : Unsigned(i) = i % word
  BY DEF Unsigned
<1> HIDE DEF half, word
<1>4. \A i \in Int : i % word \in Int
  BY <1>1
<1>5. \A i \in 0..MaxTime : i % word = i
  BY <1>1
<1>6. QED
  BY <1>1, <1>2, <1>3, <1>4, <1>5

\* A threshold is within the limits, whatever the product has become.
LEMMA ThresholdInLimits ==
  ASSUME NEW timeout \in Timeouts
  PROVE  LimitUnusedTimeout(timeout) \in Interval..UpLimit
<1>1. timeout * TIME_S_TO_MS \in Int
  <2>1. timeout \in Int /\ TIME_S_TO_MS \in Int
    BY TimeoutAssumption, LimitAssumption
  <2>2. QED
    BY <2>1
<1>2. PICK m \in Int : m = Signed(timeout * TIME_S_TO_MS)
  BY <1>1, Words
<1>3. QED
  BY <1>2, LimitAssumption DEF LimitUnusedTimeout

-----------------------------------------------------------------------------
(* Types, and the times the clock cannot have passed                       *)

\* The clock is bounded, and the callback runs only while the timer is set.
Steady == now <= MaxTime /\ (timer # "set" => toScan = {} /\ reading = NoReading)

\* Types hold before the timer is set.
LEMMA InitTypeOK == Init => TypeOK /\ Steady
<1> SUFFICES ASSUME Init PROVE TypeOK /\ Steady
  OBVIOUS
<1>1. 0 \in Nat /\ 0 \in 0..0 /\ MaxTime \in Nat
  BY LimitAssumption
<1>2. DOMAIN unusedCfgMap = {}
  BY DEF Init
<1>3. QED
  BY <1>1, <1>2 DEF Init, TypeOK, Steady

\* A reading in progress is of a watched SA.
LEMMA ReadingOf ==
  ASSUME TypeOK, NEW s \in SA, reading.sa = {s}
  PROVE  s \in DOMAIN unusedCfgMap /\ reading.last \in 0..now
<1>1. reading # NoReading
  BY DEF NoReading
<1>2. PICK r \in DOMAIN unusedCfgMap : reading.sa = {r} /\ reading.last \in 0..now
  BY <1>1 DEF TypeOK
<1>3. QED
  BY <1>2

\* Every action keeps the types, the bound of the clock and the callback to the timer.
LEMMA NextTypeOK == TypeOK /\ Steady /\ [Next]_vars => TypeOK' /\ Steady'
<1> SUFFICES ASSUME TypeOK, Steady, [Next]_vars PROVE TypeOK' /\ Steady'
  OBVIOUS
<1> USE LimitAssumption DEF TypeOK, Steady, saVars, timerVars, scanVars
<1>1. CASE StartTimedQuery
  <2>1. DOMAIN unusedCfgMap' \subseteq SA
    BY <1>1 DEF StartTimedQuery, InitUnusedCfg
  <2>2. \A s \in DOMAIN unusedCfgMap' : unusedCfgMap'[s] \in Interval..UpLimit
    BY <1>1, ThresholdInLimits DEF StartTimedQuery, InitUnusedCfg
  <2>3. QED
    BY <1>1, <2>1, <2>2 DEF StartTimedQuery
<1>2. CASE StopTimedQuery
  BY <1>2 DEF StopTimedQuery, Scanning
<1>3. CASE IdentifyUnusedOndemand
  BY <1>3 DEF IdentifyUnusedOndemand, Scanning
<1>4. ASSUME NEW s \in SA, GetSaLastRequestTime(s) PROVE TypeOK' /\ Steady'
  BY <1>4 DEF GetSaLastRequestTime
<1>5. ASSUME NEW s \in SA, UnloadUnused(s) PROVE TypeOK' /\ Steady'
  BY <1>5 DEF UnloadUnused
<1>6. ASSUME NEW s \in SA, Publish(s) PROVE TypeOK' /\ Steady'
  BY <1>6 DEF Publish
<1>7. ASSUME NEW s \in SA, Request(s) PROVE TypeOK' /\ Steady'
  BY <1>7 DEF Request
<1>8. ASSUME NEW s \in SA, Unload(s) PROVE TypeOK' /\ Steady'
  BY <1>8 DEF Unload
<1>9. CASE Tick
  BY <1>9 DEF Tick
<1>10. CASE UNCHANGED vars
  BY <1>10 DEF vars
<1>11. QED
  BY <1>1, <1>2, <1>3, <1>4, <1>5, <1>6, <1>7, <1>8, <1>9, <1>10 DEF Next

\* The timer, its configuration and what its callback reads have their types.
THEOREM TypeCorrect == Spec => [](TypeOK /\ Steady)
  BY InitTypeOK, NextTypeOK, PTL DEF Spec

-----------------------------------------------------------------------------
(* An SA that is used is kept                                              *)

\* Request times only grow: what the callback has read is no older than what it
\* would have found when it began, and no younger than the last use of the SA.
ReadInv ==
  \A s \in SA :
    /\ lastAtFire[s] <= lastRequest[s] /\ lastRequest[s] <= busySince[s]
    /\ reading.sa = {s} => lastAtFire[s] <= reading.last /\ reading.last <= busySince[s]

\* Every action keeps what is known of the times read.
LEMMA NextReadInv == TypeOK /\ ReadInv /\ [Next]_vars => ReadInv'
<1> SUFFICES ASSUME TypeOK, ReadInv, [Next]_vars, NEW r \in SA
             PROVE  /\ lastAtFire'[r] <= lastRequest'[r] /\ lastRequest'[r] <= busySince'[r]
                    /\ reading'.sa = {r} =>
                         lastAtFire'[r] <= reading'.last /\ reading'.last <= busySince'[r]
  BY DEF ReadInv
<1>0. NoReading.sa # {r}
  BY DEF NoReading
<1> USE DEF TypeOK, ReadInv, saVars, timerVars, scanVars
<1>1. CASE StartTimedQuery \/ StopTimedQuery \/ Tick \/ UNCHANGED vars
  BY <1>1 DEF StartTimedQuery, StopTimedQuery, Tick, vars
<1>2. CASE IdentifyUnusedOndemand
  BY <1>0, <1>2 DEF IdentifyUnusedOndemand, Scanning
<1>3. ASSUME NEW s \in SA, GetSaLastRequestTime(s) \/ UnloadUnused(s)
      PROVE  /\ lastAtFire'[r] <= lastRequest'[r] /\ lastRequest'[r] <= busySince'[r]
             /\ reading'.sa = {r} =>
                  lastAtFire'[r] <= reading'.last /\ reading'.last <= busySince'[r]
  <2>1. UNCHANGED <<lastAtFire, lastRequest, busySince>>
    BY <1>3 DEF GetSaLastRequestTime, UnloadUnused
  <2>2. reading'.sa = {r} => reading'.last = lastRequest[r]
    <3>1. reading' = NoReading \/ reading' = [sa |-> {s}, last |-> lastRequest[s]]
      BY <1>3 DEF GetSaLastRequestTime, UnloadUnused
    <3>2. CASE reading' = NoReading
      BY <1>0, <3>2
    <3>3. CASE reading' = [sa |-> {s}, last |-> lastRequest[s]]
      <4>1. reading'.sa = {s} /\ reading'.last = lastRequest[s]
        BY <3>3
      <4>2. {s} = {r} => s = r
        OBVIOUS
      <4>3. QED
        BY <4>1, <4>2
    <3>4. QED
      BY <3>1, <3>2, <3>3
  <2>3. QED
    BY <2>1, <2>2
<1>4. ASSUME NEW s \in SA, Publish(s) \/ Request(s) \/ Unload(s)
      PROVE  /\ lastAtFire'[r] <= lastRequest'[r] /\ lastRequest'[r] <= busySince'[r]
             /\ reading'.sa = {r} =>
                  lastAtFire'[r] <= reading'.last /\ reading'.last <= busySince'[r]
  <2>1. UNCHANGED <<lastAtFire, reading>>
    BY <1>4 DEF Publish, Request, Unload
  <2>2. /\ lastRequest'[r] \in {lastRequest[r], busySince'[r]}
        /\ busySince'[r] = busySince[r] \/ busySince'[r] = now
        /\ busySince'[r] = busySince[r] => lastRequest'[r] \in {lastRequest[r], busySince[r]}
    BY <1>4 DEF Publish, Request, Unload
  <2>3. reading.sa = {r} => reading.last \in 0..now
    BY ReadingOf
  <2>4. QED
    BY <2>1, <2>2, <2>3
<1>5. QED
  BY <1>1, <1>2, <1>3, <1>4 DEF Next

\* Nothing has been read at first.
LEMMA InitReadInv == Init => ReadInv
<1> SUFFICES ASSUME Init, NEW s \in SA
             PROVE  lastAtFire[s] = 0 /\ lastRequest[s] = 0 /\ busySince[s] = 0 /\ reading.sa # {s}
  BY DEF ReadInv
<1>1. QED
  BY DEF Init, NoReading

\* samgr is asked to unload an SA only if nobody had used it for its threshold
\* when the timer fired.
THEOREM UsedSaIsKept == Spec => UsedIsKept
<1> DEFINE Asked == \A s \in unloading' \ unloading :
                      /\ currTime - lastAtFire[s] > unusedCfgMap[s]
                      /\ currTime - lastAtFire[s] > Interval
<1>1. TypeOK /\ Steady /\ ReadInv /\ [Next]_vars => Asked
  <2> SUFFICES ASSUME TypeOK, Steady, ReadInv, [Next]_vars, NEW r \in unloading' \ unloading
               PROVE  /\ currTime - lastAtFire[r] > unusedCfgMap[r]
                      /\ currTime - lastAtFire[r] > Interval
    OBVIOUS
  <2>1. PICK s \in SA : UnloadUnused(s)
    BY DEF Next, vars, saVars, StartTimedQuery, StopTimedQuery, IdentifyUnusedOndemand,
           GetSaLastRequestTime, Publish, Request, Unload, Tick
  <2>2. r = s /\ Unused(s, reading.last)
    BY <2>1 DEF UnloadUnused
  <2>3. s \in DOMAIN unusedCfgMap /\ reading.last \in 0..now /\ lastAtFire[s] <= reading.last
    BY <2>1, ReadingOf DEF UnloadUnused, ReadInv
  <2>4. PICK last \in 0..now : last = reading.last
    BY <2>3
  <2>5. currTime \in 0..now /\ now \in Nat /\ now <= MaxTime /\ MaxTime \in Nat
    BY LimitAssumption DEF TypeOK, Steady
  <2>6. currTime > last /\ Unsigned(currTime - last) > unusedCfgMap[s]
    BY <2>2, <2>4 DEF Unused
  <2>7. Unsigned(currTime - last) = currTime - last
    <3>1. currTime - last \in 0..MaxTime
      BY <2>5, <2>6
    <3>2. QED
      BY <3>1, Words
  <2>8. unusedCfgMap[s] \in Interval..UpLimit /\ lastAtFire[s] \in Nat /\ {Interval, UpLimit} \subseteq Nat
    BY <2>3, LimitAssumption DEF TypeOK
  <2>9. QED
    BY <2>2, <2>3, <2>4, <2>5, <2>6, <2>7, <2>8
<1>2. Spec => []ReadInv
  BY InitReadInv, NextReadInv, TypeCorrect, PTL DEF Spec
<1>3. QED
  BY <1>1, <1>2, TypeCorrect, PTL DEF Spec, UsedIsKept

-----------------------------------------------------------------------------
(* An SA that is not used is noticed                                       *)

\* The timer never lags, and its callback belongs to the last time it fired.
TimerInv ==
  timer = "set" =>
    /\ now <= fireAt /\ setAt <= fireAt - Interval /\ fireAt - Interval <= now
    /\ Scanning => fireAt = currTime + Interval /\ now <= currTime + ScanTime

\* Since when the SA has been idle, and whether the callback has still to judge it.
Since(s) == IF busySince[s] > setAt THEN busySince[s] ELSE setAt
Waits(s) == s \in toScan \/ reading.sa = {s}

\* The last callback to judge an SA found it in use, or had it unloaded.
Judged ==
  timer = "set" =>
    \A s \in up \cap DOMAIN unusedCfgMap :
      \/ s \in unloading
      \/ fireAt - Interval <= Since(s) + unusedCfgMap[s] + (IF Waits(s) THEN Interval ELSE 0)

NoticeInv == TimerInv /\ (~missed => Judged)

\* Every action keeps the timer and the scan in step.
LEMMA NextTimerInv == TypeOK /\ Steady /\ TimerInv /\ [Next]_vars => TimerInv'
<1> SUFFICES ASSUME TypeOK, Steady, TimerInv, [Next]_vars PROVE TimerInv'
  OBVIOUS
<1>0. {now, fireAt, setAt, currTime, Interval, ScanTime} \subseteq Nat /\ 0 < Interval /\ setAt <= now
  BY LimitAssumption DEF TypeOK
<1> USE <1>0 DEF TimerInv, Scanning, saVars, timerVars, scanVars
<1>1. CASE StartTimedQuery
  BY <1>1 DEF StartTimedQuery, Steady
<1>2. CASE StopTimedQuery \/ UNCHANGED vars
  BY <1>2 DEF StopTimedQuery, vars
<1>3. CASE IdentifyUnusedOndemand
  BY <1>3 DEF IdentifyUnusedOndemand
<1>4. ASSUME NEW s \in SA,
             GetSaLastRequestTime(s) \/ UnloadUnused(s) \/ Publish(s) \/ Request(s) \/ Unload(s)
      PROVE  TimerInv'
  <2>1. UNCHANGED <<now, timer, fireAt, setAt, currTime>>
    BY <1>4 DEF GetSaLastRequestTime, UnloadUnused, Publish, Request, Unload
  <2>2. Scanning' => Scanning
    <3>1. CASE GetSaLastRequestTime(s)
      BY <3>1 DEF GetSaLastRequestTime
    <3>2. CASE UnloadUnused(s)
      <4>1. reading # NoReading
        BY <3>2 DEF UnloadUnused, NoReading
      <4>2. QED
        BY <4>1
    <3>3. CASE Publish(s) \/ Request(s) \/ Unload(s)
      BY <3>3 DEF Publish, Request, Unload
    <3>4. QED
      BY <1>4, <3>1, <3>2, <3>3
  <2>3. QED
    BY <2>1, <2>2
<1>5. CASE Tick
  BY <1>5 DEF Tick
<1>6. QED
  BY <1>1, <1>2, <1>3, <1>4, <1>5 DEF Next

\* A callback that finds samgr looks at every SA it watches.
LEMMA NotMissed ==
  ASSUME [Next]_vars, ~missed'
  PROVE  ~missed /\ (IdentifyUnusedOndemand => toScan' = DOMAIN unusedCfgMap)
<1>1. CASE IdentifyUnusedOndemand
  <2>1. \/ toScan' = DOMAIN unusedCfgMap /\ missed' = missed
        \/ missed' = TRUE
    BY <1>1, Zenon DEF IdentifyUnusedOndemand
  <2>2. missed' # TRUE
    BY Zenon
  <2>3. toScan' = DOMAIN unusedCfgMap /\ missed' = missed
    BY <2>1, <2>2, Zenon
  <2>4. QED
    BY <2>3, Zenon
<1>2. CASE ~IdentifyUnusedOndemand
  <2>1. missed' = missed
    BY <1>2 DEF Next, vars, scanVars, StartTimedQuery, StopTimedQuery, GetSaLastRequestTime,
                UnloadUnused, Publish, Request, Unload, Tick
  <2>2. QED
    BY <1>2, <2>1, Zenon
<1>3. QED
  BY <1>1, <1>2, Zenon

\* Every action keeps what the scans have judged.
LEMMA NextJudged ==
  ASSUME TypeOK, Steady, ReadInv, TimerInv, Judged, [Next]_vars,
         IdentifyUnusedOndemand => toScan' = DOMAIN unusedCfgMap
  PROVE  Judged'
<1> SUFFICES ASSUME timer' = "set", NEW r \in up' \cap DOMAIN unusedCfgMap', r \notin unloading'
             PROVE  fireAt' - Interval <=
                      Since(r)' + unusedCfgMap'[r] + (IF Waits(r)' THEN Interval ELSE 0)
  BY DEF Judged
<1>1. /\ r \in SA /\ unusedCfgMap[r]' \in Nat /\ {busySince[r], busySince'[r]} \subseteq Nat
      /\ {now, fireAt, fireAt', setAt, setAt', Interval} \subseteq Nat /\ busySince[r] <= now
  <2>1. TypeOK'
    BY NextTypeOK
  <2>2. r \in SA
    BY <2>1 DEF TypeOK
  <2>3. QED
    BY <2>1, <2>2, LimitAssumption DEF TypeOK
<1>2. NoReading.sa # {r}
  BY DEF NoReading
<1>3. ASSUME r \in up, r \notin unloading, UNCHANGED timerVars
      PROVE  fireAt - Interval <= Since(r) + unusedCfgMap[r] + (IF Waits(r) THEN Interval ELSE 0)
  BY <1>3 DEF Judged, timerVars
<1> USE <1>1 DEF saVars, timerVars, scanVars, Since
<1>4. CASE StartTimedQuery
  BY <1>4 DEF StartTimedQuery
<1>5. CASE StopTimedQuery
  BY <1>5 DEF StopTimedQuery
<1>6. CASE IdentifyUnusedOndemand
  <2>1. ~Waits(r) /\ Waits(r)'
    BY <1>2, <1>6 DEF IdentifyUnusedOndemand, Scanning, Waits
  <2>2. fireAt - Interval <= Since(r) + unusedCfgMap[r]
    BY <1>6, <2>1 DEF IdentifyUnusedOndemand, Judged
  <2>3. QED
    BY <1>6, <2>1, <2>2 DEF IdentifyUnusedOndemand
<1>7. ASSUME NEW s \in SA, GetSaLastRequestTime(s)
      PROVE  fireAt' - Interval <= Since(r)' + unusedCfgMap'[r] + (IF Waits(r)' THEN Interval ELSE 0)
  <2>1. UNCHANGED <<up, unloading, timerVars, busySince>>
    BY <1>7 DEF GetSaLastRequestTime
  <2>2. Waits(r) => Waits(r)'
    <3>1. CASE r = s
      <4>1. r \in loaded /\ r \in published
        BY <2>1 DEF TypeOK
      <4>2. QED
        BY <1>7, <3>1, <4>1 DEF GetSaLastRequestTime, Waits
    <3>2. CASE r # s
      BY <1>2, <1>7, <3>2 DEF GetSaLastRequestTime, Waits
    <3>3. QED
      BY <3>1, <3>2
  <2>3. QED
    BY <1>3, <2>1, <2>2
<1>8. ASSUME NEW s \in SA, UnloadUnused(s)
      PROVE  fireAt' - Interval <= Since(r)' + unusedCfgMap'[r] + (IF Waits(r)' THEN Interval ELSE 0)
  <2>1. UNCHANGED <<up, timerVars, busySince, toScan>> /\ unloading \subseteq unloading'
    BY <1>8 DEF UnloadUnused
  <2>2. CASE r = s
    <3>1. ~Unused(s, reading.last)
      BY <1>8, <2>1, <2>2 DEF UnloadUnused
    <3>2. PICK last \in 0..now : last = reading.last /\ last <= busySince[s]
      BY <1>8, ReadingOf DEF UnloadUnused, ReadInv
    <3>3. currTime \in 0..now /\ now <= MaxTime /\ MaxTime \in Nat
      BY LimitAssumption DEF TypeOK, Steady
    <3>4. ~(currTime > last /\ Unsigned(currTime - last) > unusedCfgMap[s])
      BY <3>1, <3>2 DEF Unused
    <3>5. currTime > last => Unsigned(currTime - last) = currTime - last
      <4>1. currTime > last => currTime - last \in 0..MaxTime
        BY <3>3
      <4>2. QED
        BY <4>1, Words
    <3>6. fireAt = currTime + Interval
      <4>1. Scanning
        BY <1>8 DEF UnloadUnused, Scanning, NoReading
      <4>2. QED
        BY <2>1, <4>1 DEF TimerInv
    <3>7. QED
      BY <2>1, <2>2, <3>2, <3>3, <3>4, <3>5, <3>6
  <2>3. CASE r # s
    <3>1. Waits(r) => Waits(r)'
      BY <1>8, <2>1, <2>3 DEF UnloadUnused, Waits
    <3>2. QED
      BY <1>3, <2>1, <3>1
  <2>4. QED
    BY <2>2, <2>3
<1>9. ASSUME NEW s \in SA, Publish(s) \/ Request(s) \/ Unload(s)
      PROVE  fireAt' - Interval <= Since(r)' + unusedCfgMap'[r] + (IF Waits(r)' THEN Interval ELSE 0)
  <2>1. UNCHANGED <<timerVars, toScan, reading>>
    BY <1>9 DEF Publish, Request, Unload
  <2>2. CASE busySince'[r] = now
    BY <2>1, <2>2 DEF TimerInv
  <2>3. CASE busySince'[r] # now
    <3>1. r \in up /\ r \notin unloading /\ busySince'[r] = busySince[r]
      BY <1>9, <2>3 DEF Publish, Request, Unload, TypeOK
    <3>2. Waits(r)' = Waits(r)
      BY <2>1 DEF Waits
    <3>3. QED
      BY <1>3, <2>1, <3>1, <3>2
  <2>4. QED
    BY <2>2, <2>3
<1>10. CASE Tick \/ UNCHANGED vars
  <2>1. UNCHANGED <<up, unloading, timerVars, busySince, toScan, reading>>
    BY <1>10 DEF Tick, vars
  <2>2. Waits(r)' = Waits(r)
    BY <2>1 DEF Waits
  <2>3. QED
    BY <1>3, <2>1, <2>2
<1>11. QED
  BY <1>4, <1>5, <1>6, <1>7, <1>8, <1>9, <1>10 DEF Next

\* One interval and one scan after its threshold an unused SA is on its way out,
\* for any number of SAs in any order of the scan.
THEOREM UnusedSaIsNoticed == Spec => []UnusedIsNoticed
<1>1. Init => NoticeInv
  BY DEF Init, NoticeInv, TimerInv, Judged
<1>2. TypeOK /\ Steady /\ ReadInv /\ NoticeInv /\ [Next]_vars => NoticeInv'
  BY NextTimerInv, NotMissed, NextJudged DEF NoticeInv
<1>3. TypeOK /\ NoticeInv => UnusedIsNoticed
  <2> SUFFICES ASSUME TypeOK, TimerInv, Judged, timer = "set",
                      NEW s \in up \cap DOMAIN unusedCfgMap, s \notin unloading
               PROVE  IdleTime(s) <= unusedCfgMap[s] + Interval + ScanTime
    BY DEF NoticeInv, UnusedIsNoticed
  <2>1. /\ s \in SA /\ unusedCfgMap[s] \in Nat /\ busySince[s] \in Nat
        /\ {now, fireAt, setAt, currTime, Interval, ScanTime} \subseteq Nat
    BY LimitAssumption DEF TypeOK
  <2>2. fireAt - Interval <= Since(s) + unusedCfgMap[s] + (IF Waits(s) THEN Interval ELSE 0)
    BY DEF Judged
  <2>3. IdleTime(s) = now - Since(s) /\ Since(s) \in Nat
    BY <2>1 DEF IdleTime, Since
  <2>4. Waits(s) => Scanning
    BY DEF Waits, Scanning, NoReading
  <2>5. QED
    BY <2>1, <2>2, <2>3, <2>4 DEF TimerInv
<1>4. Spec => []ReadInv
  BY InitReadInv, NextReadInv, TypeCorrect, PTL DEF Spec
<1>5. QED
  BY <1>1, <1>2, <1>3, <1>4, TypeCorrect, PTL DEF Spec
=============================================================================
