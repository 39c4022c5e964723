------------------------------ MODULE UnusedTimer ------------------------------
(***************************************************************************)
(* The timer of a non-resident process that asks samgr to unload SAs which *)
(* have not been requested for long: StartTimedQuery and                   *)
(* IdentifyUnusedOndemand of services/safwk/src/local_ability_manager.cpp. *)
(* Times are in milliseconds of the steady clock.  Machine integers have   *)
(* WordBits bits, 32 for the signed and 64 for the unsigned ones of the    *)
(* code; everything else is to scale.                                      *)
(***************************************************************************)
EXTENDS Integers, FiniteSets

CONSTANTS
  SA,             \* SAs of the process
  Timeouts,       \* values of unusedTimeout in the profiles, in seconds
  WordBits,       \* width of the machine integers
  TIME_S_TO_MS,   \* milliseconds in a second
  Interval,       \* UNUSED_ONDEMAND_TIMER_INTERVAL_MSECONDS, also the low limit
  UpLimit,        \* ONDEMAND_SA_UNUSED_TIMEOUT_UPLIMIT
  ScanTime,       \* longest run of the timer's callback
  Faults,         \* TRUE: samgr's proxy may be missing
  MaxTime         \* bound on the clock

ASSUME TimeoutAssumption ==
  Timeouts \subseteq (-(2^(WordBits - 1))) .. (2^(WordBits - 1) - 1)
ASSUME LimitAssumption ==
  /\ {WordBits, TIME_S_TO_MS, Interval, UpLimit, ScanTime, MaxTime} \subseteq Nat
  /\ 0 < Interval /\ Interval <= UpLimit /\ UpLimit < 2^(WordBits - 1)
  /\ ScanTime < Interval /\ MaxTime < 2^(WordBits - 1)
ASSUME FaultAssumption == Faults \in BOOLEAN
\* What the proofs use of the powers of two.
ASSUME WordAssumption ==
  2^(WordBits - 1) \in Nat \ {0} /\ 2^WordBits = 2 * 2^(WordBits - 1)

VARIABLES
  profile,        \* runOnCreate and unusedTimeout of each SA, never changed
  loaded,         \* the SAs of localAbilityMap_
  published,      \* SAs whose publishObj_ is set; it is never cleared
  up,             \* samgr: SAs it holds
  unloading,      \* samgr: SAs it was asked to unload
  lastRequest,    \* time of the last request the object of each SA has seen
  now,            \* the steady clock
  timer,          \* idleTimer_: "unstarted", "none" or "set"
  unusedCfgMap,   \* the SAs to watch, with their thresholds
  fireAt,         \* when the timer fires next
  currTime,       \* when the callback began
  toScan,         \* SAs the callback has still to look at
  reading,        \* the SA whose request time it has read, and that time
  setAt,          \* history: when the timer was set
  busySince,      \* history: when each SA was last published or requested
  lastAtFire,     \* history: lastRequest when the callback began
  missed          \* history: a callback found no proxy of samgr

saVars    == <<profile, loaded, published, up, unloading, lastRequest, busySince>>
timerVars == <<timer, unusedCfgMap, fireAt, setAt>>
scanVars  == <<currTime, toScan, reading, lastAtFire, missed>>
vars == <<saVars, now, timerVars, scanVars>>

\* The value a machine keeps of an integer, in a signed and an unsigned word.
Signed(i) ==
  LET w == i % (2^WordBits) IN IF w >= 2^(WordBits - 1) THEN w - 2^WordBits ELSE w
Unsigned(i) == i % (2^WordBits)

NoReading == [sa |-> {}, last |-> 0]
Scanning == toScan # {} \/ reading # NoReading

Init ==
  /\ profile \in [SA -> [runOnCreate : BOOLEAN, unusedTimeout : Timeouts]]
  /\ loaded \in SUBSET SA
  /\ published = {}
  /\ up = {}
  /\ unloading = {}
  /\ lastRequest = [s \in SA |-> 0]
  /\ now = 0
  /\ timer = "unstarted"
  /\ unusedCfgMap = [s \in {} |-> 0]
  /\ fireAt = 0
  /\ setAt = 0
  /\ currTime = 0
  /\ toScan = {}
  /\ reading = NoReading
  /\ busySince = [s \in SA |-> 0]
  /\ lastAtFire = [s \in SA |-> 0]
  /\ missed = FALSE

-----------------------------------------------------------------------------
(* Setting the timer                                                       *)

\* Mutant: short timeouts are not lengthened.
LimitUnusedAbove(timeout) ==
  LET millisecTimeout == Signed(timeout * TIME_S_TO_MS)
  IN IF millisecTimeout > UpLimit THEN UpLimit ELSE millisecTimeout

\* The product is computed in 32 bits and widened afterwards.
LimitUnusedTimeout(timeout) ==
  LET millisecTimeout == Signed(timeout * TIME_S_TO_MS)
  IN CASE millisecTimeout < Interval -> Interval
       [] millisecTimeout > UpLimit -> UpLimit
       [] OTHER -> millisecTimeout

InitUnusedCfg ==
  [s \in {r \in SA : ~profile[r].runOnCreate /\ profile[r].unusedTimeout # -1} |->
     LimitUnusedTimeout(profile[s].unusedTimeout)]

IsResident == \E s \in loaded : profile[s].runOnCreate

\* Once, at the end of the boot.  (The white list of SAs is empty.)
StartTimedQuery ==
  /\ timer = "unstarted"
  /\ unusedCfgMap' = IF IsResident THEN unusedCfgMap ELSE InitUnusedCfg
  /\ timer' = IF DOMAIN unusedCfgMap' = {} THEN "none" ELSE "set"
  /\ fireAt' = now + Interval
  /\ setAt' = now
  /\ UNCHANGED <<saVars, now, scanVars>>

\* The process ends: Shutdown waits for a callback that runs.
StopTimedQuery ==
  /\ timer = "set"
  /\ ~Scanning
  /\ timer' = "none"
  /\ UNCHANGED <<saVars, now, unusedCfgMap, fireAt, setAt, scanVars>>

-----------------------------------------------------------------------------
(* The callback                                                            *)

\* The timer fires: the time is taken, then samgr's proxy.
IdentifyUnusedOndemand ==
  /\ timer = "set"
  /\ now = fireAt
  /\ ~Scanning
  /\ fireAt' = fireAt + Interval
  /\ currTime' = now
  /\ \/ toScan' = DOMAIN unusedCfgMap /\ UNCHANGED missed
     \/ Faults /\ toScan' = {} /\ missed' = TRUE
  /\ lastAtFire' = lastRequest
  /\ UNCHANGED <<saVars, now, timer, unusedCfgMap, setAt, reading>>

\* Mutant: the scan ends at the first SA that was never published.
GetSaLastRequestTimeEnds(s) ==
  /\ s \in toScan
  /\ reading = NoReading
  /\ toScan' = IF s \in loaded /\ s \in published THEN toScan \ {s} ELSE {}
  /\ reading' = IF s \in loaded /\ s \in published
                THEN [sa |-> {s}, last |-> lastRequest[s]] ELSE NoReading
  /\ UNCHANGED <<saVars, now, timerVars, currTime, lastAtFire, missed>>

\* An SA that was never published is passed over.
GetSaLastRequestTime(s) ==
  /\ s \in toScan
  /\ reading = NoReading
  /\ toScan' = toScan \ {s}
  /\ reading' = IF s \in loaded /\ s \in published
                THEN [sa |-> {s}, last |-> lastRequest[s]] ELSE NoReading
  /\ UNCHANGED <<saVars, now, timerVars, currTime, lastAtFire, missed>>

\* Mutant: a request after the timer fired is not looked for.
UnusedUnchecked(s, last) == Unsigned(currTime - last) > unusedCfgMap[s]

Unused(s, last) ==
  /\ currTime > last
  /\ Unsigned(currTime - last) > unusedCfgMap[s]

\* samgr is asked to unload the SA; it refuses one it does not hold.
UnloadUnused(s) ==
  /\ reading.sa = {s}
  /\ reading' = NoReading
  /\ unloading' = IF Unused(s, reading.last) THEN unloading \cup ({s} \cap up) ELSE unloading
  /\ UNCHANGED <<profile, loaded, published, up, lastRequest, busySince, now, timerVars,
                 currTime, toScan, lastAtFire, missed>>

-----------------------------------------------------------------------------
(* The SAs, samgr and time                                                 *)

\* An SA is loaded and publishes a new object, or the one it had.
Publish(s) ==
  /\ s \notin up
  /\ loaded' = loaded \cup {s}
  /\ published' = published \cup {s}
  /\ up' = up \cup {s}
  /\ \/ lastRequest' = [lastRequest EXCEPT ![s] = now]
     \/ s \in published /\ UNCHANGED lastRequest
  /\ busySince' = [busySince EXCEPT ![s] = now]
  /\ UNCHANGED <<profile, unloading, now, timerVars, scanVars>>

Request(s) ==
  /\ s \in up
  /\ lastRequest' = [lastRequest EXCEPT ![s] = now]
  /\ busySince' = [busySince EXCEPT ![s] = now]
  /\ UNCHANGED <<profile, loaded, published, up, unloading, now, timerVars, scanVars>>

\* samgr has the SA stopped.
Unload(s) ==
  /\ s \in unloading
  /\ unloading' = unloading \ {s}
  /\ up' = up \ {s}
  /\ UNCHANGED <<profile, loaded, published, lastRequest, busySince, now, timerVars, scanVars>>

\* The timer fires on time and its callback takes at most ScanTime.
Tick ==
  /\ now < MaxTime
  /\ timer = "set" => now < fireAt
  /\ Scanning => now < currTime + ScanTime
  /\ now' = now + 1
  /\ UNCHANGED <<saVars, timerVars, scanVars>>

Next ==
  \/ StartTimedQuery
  \/ StopTimedQuery
  \/ IdentifyUnusedOndemand
  \/ \E s \in SA : \/ GetSaLastRequestTime(s) \/ UnloadUnused(s)
                   \/ Publish(s) \/ Request(s) \/ Unload(s)
  \/ Tick

Spec == Init /\ [][Next]_vars

-----------------------------------------------------------------------------
(* Properties                                                              *)

\* Type invariant: what the members of the code, samgr and the threads may hold.
TypeOK ==
  /\ profile \in [SA -> [runOnCreate : BOOLEAN, unusedTimeout : Timeouts]]
  /\ loaded \subseteq SA
  /\ published \subseteq loaded
  /\ up \subseteq published
  /\ unloading \subseteq up
  /\ lastRequest \in [SA -> 0..now]
  /\ busySince \in [SA -> 0..now]
  /\ now \in Nat
  /\ timer \in {"unstarted", "none", "set"}
  /\ DOMAIN unusedCfgMap \subseteq SA
  /\ \A s \in DOMAIN unusedCfgMap : unusedCfgMap[s] \in Interval..UpLimit
  /\ fireAt \in Nat
  /\ setAt \in 0..now
  /\ currTime \in 0..now
  /\ toScan \subseteq DOMAIN unusedCfgMap
  /\ reading \in {NoReading} \cup [sa : {{s} : s \in DOMAIN unusedCfgMap}, last : 0..now]
  /\ lastAtFire \in [SA -> Nat]

\* The callback compares a time taken before it began to scan with request
\* times read during the scan, in unsigned arithmetic.  However requests fall
\* between the two, samgr is asked to unload an SA only when, at the time the
\* timer fired, the SA's object had seen no request for longer than the
\* threshold of the SA, which is never below one interval.
UsedIsKept ==
  [][\A s \in unloading' \ unloading :
       /\ currTime - lastAtFire[s] > unusedCfgMap[s]
       /\ currTime - lastAtFire[s] > Interval]_vars

\* How long the timer has been set and the SA neither published nor requested.
IdleTime(s) == now - (IF busySince[s] > setAt THEN busySince[s] ELSE setAt)

\* An SA that the timer watches does not stay with samgr unused: one interval
\* and one scan after its threshold, samgr has been asked to unload it, even if
\* other watched SAs are not published or are in use, unless a callback found no
\* samgr to ask.
UnusedIsNoticed ==
  timer = "set" /\ ~missed =>
    \A s \in up \cap DOMAIN unusedCfgMap :
      \/ s \in unloading
      \/ IdleTime(s) <= unusedCfgMap[s] + Interval + ScanTime

\* InitUnusedCfg001 expects a timeout above the upper limit to be cut down to
\* the limit: an SA configured to be kept that long is kept that long.
LongTimeoutIsUpLimit ==
  \A s \in DOMAIN unusedCfgMap :
    profile[s].unusedTimeout * TIME_S_TO_MS > UpLimit => unusedCfgMap[s] = UpLimit
=============================================================================
