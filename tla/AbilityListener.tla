--------------------------- MODULE AbilityListener ---------------------------
(***************************************************************************)
(* How the SAs of one process listen to another SA: the list of            *)
(* LocalAbilityManager::localListenerMap_ for that SA, its one             *)
(* subscription at samgr, and the callbacks OnAddSystemAbility and         *)
(* OnRemoveSystemAbility.  The lists of different SAs are independent, so  *)
(* one watched SA is modelled.  listenerLock_ is held for a whole step;    *)
(* the calls to samgr and the callbacks that follow it are other steps.    *)
(* Nothing else keeps calls apart: any number of them may be under way, of *)
(* one listener too, made by different threads of it.                      *)
(***************************************************************************)
EXTENDS Naturals, Sequences, FiniteSets

CONSTANTS
  Listener,    \* SAs of the process that may listen
  MayRemove,   \* TRUE: listeners may stop listening
  MayFail,     \* TRUE: calls to samgr may fail
  MaxCalls,    \* bound on the calls the listeners make
  MaxChanges   \* bound on the times the watched SA comes and goes

ASSUME FlagAssumption == {MayRemove, MayFail} \subseteq BOOLEAN
ASSUME BoundAssumption == MaxCalls \in Nat /\ MaxChanges \in Nat

VARIABLES
  list,        \* localListenerMap_[sa]: ABSENT, or the state in the list
  up,          \* samgr: the watched SA is registered
  subscribed,  \* samgr: this process is subscribed to the watched SA
  events,      \* samgr's notifications on their way, in order
  handling,    \* the notification being handled
  todo,        \* listeners whose callback it has still to make
  pending,     \* how many calls of each listener have released listenerLock_
               \* and have still to subscribe, to unsubscribe or to notify
  accepted,    \* AddSystemAbilityListener returned true, and not removed since
  told,        \* the last callback of each listener since it left the list
  leaked,      \* history: the last call to unsubscribe failed
  removed,     \* history: some listener has been removed
  overtaken,   \* history: a listener was removed while it was about to subscribe
  failed,      \* history: some call to samgr has failed
  calls,       \* calls made so far
  changes      \* comings and goings of the watched SA so far

historyVars == <<removed, overtaken, failed>>
samgrVars == <<up, subscribed, events, leaked, changes>>
handlerVars == <<handling, todo>>
listenerVars == <<pending, accepted, told, calls>>
vars == <<list, samgrVars, handlerVars, listenerVars, historyVars>>

Event == {"ADD", "REMOVE"}
Errand == {"subscribe", "unsubscribe", "notify"}
InList == {l \in Listener : list[l] # "ABSENT"}

Init ==
  /\ list = [l \in Listener |-> "ABSENT"]
  /\ up \in BOOLEAN
  /\ subscribed = FALSE
  /\ leaked = FALSE
  /\ removed = FALSE
  /\ overtaken = FALSE
  /\ failed = FALSE
  /\ events = <<>>
  /\ handling = "NONE"
  /\ todo = {}
  /\ pending = [l \in Listener |-> [e \in Errand |-> 0]]
  /\ accepted = [l \in Listener |-> FALSE]
  /\ told = [l \in Listener |-> "NONE"]
  /\ calls = 0
  /\ changes = 0

\* A call of l releases the lock and has still to run the errand e.
Begin(l, e) == pending' = [pending EXCEPT ![l][e] = @ + 1]

About(l, e) == pending[l][e] > 0

End(l, e) ==
  /\ About(l, e)
  /\ pending' = [pending EXCEPT ![l][e] = @ - 1]

\* AddSystemAbilityListener returns true.
Accept(l) == accepted' = [accepted EXCEPT ![l] = l \in InList]

-----------------------------------------------------------------------------
(* samgr                                                                   *)

\* The watched SA is registered or removed; a subscriber is told.
Change ==
  /\ changes < MaxChanges
  /\ changes' = changes + 1
  /\ up' = ~up
  /\ events' = IF subscribed THEN Append(events, IF up THEN "REMOVE" ELSE "ADD") ELSE events
  /\ UNCHANGED <<list, subscribed, leaked, handlerVars, listenerVars, historyVars>>

\* samgr tells a new subscriber of an SA that is there; it may tell an old one.
TellSubscriber ==
  \/ up /\ events' = Append(events, "ADD")
  \/ (up => subscribed) /\ UNCHANGED events

-----------------------------------------------------------------------------
(* AddSystemAbilityListener.  A call with an invalid id or without a samgr *)
(* proxy returns false and changes nothing: it is not modelled.            *)

Count == calls < MaxCalls /\ calls' = calls + 1

\* CheckSystemAbility tells whether the watched SA is there, or fails.
CheckSystemAbility(object) ==
  \/ object = up /\ UNCHANGED failed
  \/ MayFail /\ up /\ ~object /\ failed' = TRUE

\* Joins the list.
Join(l, state) == list' = IF l \in InList THEN list ELSE [list EXCEPT ![l] = state]

\* Mutant: every listener but the first is put in the list as INIT, and only
\* subscribers are told.
AddNeverNotifies(l) ==
  /\ Count
  /\ Join(l, "INIT")
  /\ \/ InList \subseteq {l} /\ Begin(l, "subscribe") /\ UNCHANGED accepted
     \/ ~(InList \subseteq {l}) /\ accepted' = [accepted EXCEPT ![l] = TRUE] /\ UNCHANGED pending
  /\ UNCHANGED <<samgrVars, handlerVars, told, historyVars>>

\* Mutant: a listener of an empty list returns as the others do.
AddNeverSubscribes(l) ==
  /\ Count
  /\ \E isNeedNotify \in {InList # {} /\ up} :
       /\ Join(l, IF isNeedNotify THEN "NOTIFIED" ELSE "INIT")
       /\ \/ isNeedNotify /\ Begin(l, "notify") /\ UNCHANGED accepted
          \/ ~isNeedNotify /\ accepted' = [accepted EXCEPT ![l] = TRUE] /\ UNCHANGED pending
  /\ UNCHANGED <<samgrVars, handlerVars, told, historyVars>>

\* Under listenerLock_: join the list and, when it has members, ask samgr
\* whether the SA is there.  The first listener subscribes; a later one is told
\* directly of an SA that is there.
AddSystemAbilityListener(l) ==
  /\ Count
  /\ \E isNeedNotify \in BOOLEAN :
       /\ \/ InList = {} /\ ~isNeedNotify /\ UNCHANGED failed
          \/ InList # {} /\ CheckSystemAbility(isNeedNotify)
       /\ Join(l, IF isNeedNotify THEN "NOTIFIED" ELSE "INIT")
       /\ \/ InList \subseteq {l} /\ Begin(l, "subscribe") /\ UNCHANGED accepted
          \/ ~(InList \subseteq {l}) /\ isNeedNotify /\ Begin(l, "notify") /\ UNCHANGED accepted
          \/ /\ ~(InList \subseteq {l}) /\ ~isNeedNotify
             /\ accepted' = [accepted EXCEPT ![l] = TRUE] /\ UNCHANGED pending
  /\ UNCHANGED <<samgrVars, handlerVars, told, removed, overtaken>>

NotifyAdded(l) ==
  /\ End(l, "notify")
  /\ told' = [told EXCEPT ![l] = "ADD"]
  /\ Accept(l)
  /\ UNCHANGED <<list, samgrVars, handlerVars, calls, historyVars>>

Subscribe(l) ==
  /\ End(l, "subscribe")
  /\ subscribed' = TRUE
  /\ TellSubscriber
  /\ Accept(l)
  /\ UNCHANGED <<list, up, leaked, changes, handlerVars, told, calls, historyVars>>

\* SubscribeSystemAbility returns an error: so does the call, but the listener
\* stays in the list.
SubscribeFail(l) ==
  /\ MayFail
  /\ End(l, "subscribe")
  /\ failed' = TRUE
  /\ UNCHANGED <<list, samgrVars, handlerVars, accepted, told, calls, removed, overtaken>>

-----------------------------------------------------------------------------
(* RemoveSystemAbilityListener                                             *)

\* Mutant: only a list that was empty before is unsubscribed.
RemoveNeverUnsubscribes(l) ==
  /\ MayRemove
  /\ InList # {}
  /\ Count
  /\ list' = [list EXCEPT ![l] = "ABSENT"]
  /\ accepted' = [accepted EXCEPT ![l] = FALSE]
  /\ told' = [told EXCEPT ![l] = "NONE"]
  /\ removed' = TRUE
  /\ overtaken' = (overtaken \/ About(l, "subscribe"))
  /\ IF InList = {} THEN Begin(l, "unsubscribe") ELSE UNCHANGED pending
  /\ UNCHANGED <<samgrVars, handlerVars, failed>>

\* Under listenerLock_: leave the list; whoever empties it unsubscribes.
RemoveSystemAbilityListener(l) ==
  /\ MayRemove
  /\ InList # {}
  /\ Count
  /\ list' = [list EXCEPT ![l] = "ABSENT"]
  /\ accepted' = [accepted EXCEPT ![l] = FALSE]
  /\ told' = [told EXCEPT ![l] = "NONE"]
  /\ removed' = TRUE
  /\ overtaken' = (overtaken \/ About(l, "subscribe"))
  /\ IF InList \subseteq {l} THEN Begin(l, "unsubscribe") ELSE UNCHANGED pending
  /\ UNCHANGED <<samgrVars, handlerVars, failed>>

\* UnSubscribeSystemAbility, after listenerLock_ is released; it may fail.
Unsubscribe(l) ==
  /\ End(l, "unsubscribe")
  /\ \/ subscribed' = FALSE /\ leaked' = FALSE /\ UNCHANGED failed
     \/ MayFail /\ leaked' = TRUE /\ failed' = TRUE /\ UNCHANGED subscribed
  /\ UNCHANGED <<list, up, events, changes, handlerVars, accepted, told, calls, removed, overtaken>>

-----------------------------------------------------------------------------
(* FindAndNotifyAbilityListeners, run for one notification at a time       *)

\* Mutant: the state of a listener told of the removal is not reset.
FindListenersNoReset ==
  /\ todo = {}
  /\ events # <<>>
  /\ handling' = Head(events)
  /\ events' = Tail(events)
  /\ \/ /\ Head(events) = "ADD"
        /\ todo' = {l \in InList : list[l] = "INIT"}
        /\ list' = [l \in Listener |-> IF l \in todo' THEN "NOTIFIED" ELSE list[l]]
     \/ /\ Head(events) = "REMOVE"
        /\ todo' = InList
        /\ UNCHANGED list
  /\ UNCHANGED <<up, subscribed, leaked, changes, listenerVars, historyVars>>

\* Under listenerLock_: choose whom to call back and update the states.
FindListeners ==
  /\ todo = {}
  /\ events # <<>>
  /\ handling' = Head(events)
  /\ events' = Tail(events)
  /\ \/ /\ Head(events) = "ADD"
        /\ todo' = {l \in InList : list[l] = "INIT"}
        /\ list' = [l \in Listener |-> IF l \in todo' THEN "NOTIFIED" ELSE list[l]]
     \/ /\ Head(events) = "REMOVE"
        /\ todo' = InList
        /\ list' = [l \in Listener |-> IF list[l] = "NOTIFIED" THEN "INIT" ELSE list[l]]
  /\ UNCHANGED <<up, subscribed, leaked, changes, listenerVars, historyVars>>

\* One callback, without the lock.  GetAbility finds the listener: it called
\* AddSystemAbilityListener itself, and nothing takes an SA out of
\* localAbilityMap_.
NotifyAbilityListener(l) ==
  /\ l \in todo
  /\ told' = [told EXCEPT ![l] = handling]
  /\ todo' = todo \ {l}
  /\ UNCHANGED <<list, samgrVars, handling, pending, accepted, calls, historyVars>>

-----------------------------------------------------------------------------
Return(l) == NotifyAdded(l) \/ Subscribe(l) \/ SubscribeFail(l) \/ Unsubscribe(l)

Next ==
  \/ Change
  \/ FindListeners
  \/ \E l \in Listener :
       \/ AddSystemAbilityListener(l)
       \/ RemoveSystemAbilityListener(l)
       \/ Return(l)
       \/ NotifyAbilityListener(l)

Spec == Init /\ [][Next]_vars

\* Calls in progress and notifications on their way come to an end.
Fairness ==
  /\ WF_vars(FindListeners)
  /\ \A l \in Listener : WF_vars(Return(l)) /\ WF_vars(NotifyAbilityListener(l))

FairSpec == Spec /\ Fairness

-----------------------------------------------------------------------------
(* Properties                                                              *)

\* Type invariant: what the members of the code, samgr and the threads may hold.
TypeOK ==
  /\ list \in [Listener -> {"ABSENT", "INIT", "NOTIFIED"}]
  /\ up \in BOOLEAN
  /\ subscribed \in BOOLEAN
  /\ leaked \in BOOLEAN
  /\ removed \in BOOLEAN
  /\ overtaken \in BOOLEAN
  /\ failed \in BOOLEAN
  /\ events \in Seq(Event)
  /\ handling \in Event \cup {"NONE"}
  /\ todo \subseteq Listener
  /\ pending \in [Listener -> [Errand -> Nat]]
  /\ accepted \in [Listener -> BOOLEAN]
  /\ told \in [Listener -> Event \cup {"NONE"}]
  /\ calls \in Nat
  /\ changes \in Nat

\* An OnAddSystemAbility is on its way to the listener.
AddPending(l) == About(l, "notify") \/ (l \in todo /\ handling = "ADD")

\* FindAndNotifyAbilityListeners skips listeners marked NOTIFIED.  That loses
\* nothing as long as no listener has been removed: the last callback of such a
\* listener was OnAddSystemAbility, or one is on its way, however calls,
\* notifications and callbacks overlap.
NotifiedIsTold ==
  ~removed => \A l \in Listener : list[l] = "NOTIFIED" => told[l] = "ADD" \/ AddPending(l)

\* Only the first listener subscribes, after it has left listenerLock_.  Until
\* one is removed or a call fails, a list with members is subscribed, or its
\* first member is about to subscribe.
ListIsSubscribed ==
  ~removed /\ ~failed /\ InList # {}
    => subscribed \/ \E l \in InList : About(l, "subscribe")

\* Whoever empties the list unsubscribes after it has left listenerLock_, while
\* others join, subscribe and leave.  There are two ways to leave a subscription
\* behind with an empty list: the call to unsubscribe fails, or a listener is
\* removed by one thread while another has added it and not yet subscribed.
NoLeakedSubscription ==
  subscribed /\ InList = {} => leaked \/ overtaken \/ \E l \in Listener : About(l, "unsubscribe")

\* "OnAddSystemAbility will be called when the listening SA starts": a listener
\* whose AddSystemAbilityListener returned true is told of an SA that is there
\* and stays.
ListenerToldAdd ==
  \A l \in Listener :
    (accepted[l] /\ up) ~> (told[l] = "ADD" \/ ~up \/ ~accepted[l])

\* Until a listener is removed or a call to samgr fails, every listener is told
\* of an SA that is there and stays: the ones that subscribe, the ones that join
\* later and are told directly, and the ones between the two.
UndisturbedToldAdd ==
  \A l \in Listener :
    (accepted[l] /\ up) ~> (told[l] = "ADD" \/ ~up \/ ~accepted[l] \/ removed \/ failed)
=============================================================================
