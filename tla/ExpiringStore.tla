---------------------------- MODULE ExpiringStore ----------------------------
(***************************************************************************)
(* What ExpireLruCache promises, without its lists and maps: a store of at *)
(* most Size entries, each with its value, the time it was added and its   *)
(* last use.  An entry that is too old is never returned; a full store     *)
(* drops the entries that are too old or, if none is, the one whose last   *)
(* use is the longest ago, and no other.                                   *)
(***************************************************************************)
EXTENDS Integers, FiniteSets, Functions

CONSTANTS Key, Value, Nothing, Size, Expires

VARIABLES
  expire,  \* the age up to which an entry is good, 0 for any age
  store,   \* the entries, a function from the keys held
  now,     \* the clock
  uses,    \* uses so far, to date the last use of an entry
  answer   \* the result of the last Get

vars == <<expire, store, now, uses, answer>>

Held == DOMAIN store
TooOld == {k \in Held : expire > 0 /\ now - store[k].born > expire}
LeastUsed == {k \in Held : \A j \in Held : store[k].used <= store[j].used}

Init ==
  /\ expire \in Expires
  /\ store = <<>>
  /\ now = 0
  /\ uses = 0
  /\ answer = Nothing

Victims(k) ==
  CASE k \in Held \/ Cardinality(Held) < Size -> {}
    [] k \notin Held /\ Cardinality(Held) >= Size /\ TooOld # {} -> TooOld
    [] OTHER -> LeastUsed

Add(k, v) ==
  /\ store' = [j \in (Held \ Victims(k)) \cup {k} |->
                 IF j = k THEN [value |-> v, born |-> now, used |-> uses + 1] ELSE store[j]]
  /\ uses' = uses + 1
  /\ UNCHANGED <<expire, now, answer>>

Get(k) ==
  /\ \/ /\ k \in Held \ TooOld
        /\ store' = [store EXCEPT ![k].used = uses + 1]
        /\ answer' = store[k].value
     \/ /\ k \notin Held \ TooOld
        /\ store' = Restrict(store, Held \ {k})
        /\ answer' = Nothing
  /\ uses' = uses + 1
  /\ UNCHANGED <<expire, now>>

Remove(k) ==
  /\ store' = Restrict(store, Held \ {k})
  /\ uses' = uses + 1
  /\ UNCHANGED <<expire, now, answer>>

Clear ==
  /\ store' = <<>>
  /\ uses' = uses + 1
  /\ UNCHANGED <<expire, now, answer>>

Tick ==
  /\ now' = now + 1
  /\ UNCHANGED <<expire, store, uses, answer>>

Next ==
  \/ \E k \in Key : \/ \E v \in Value : Add(k, v)
                    \/ Get(k)
                    \/ Remove(k)
  \/ Clear
  \/ Tick

Spec == Init /\ [][Next]_vars
=============================================================================
