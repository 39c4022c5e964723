------------------------ MODULE AbilityListenerProofs ------------------------
(***************************************************************************)
(* Proofs about AbilityListener, for any set of listeners and any number   *)
(* of calls and of comings and goings of the watched SA.                   *)
(***************************************************************************)
EXTENDS AbilityListener, TLAPS

\* The initial state is of the right type.
LEMMA InitTypeOK == Init => TypeOK
<1> SUFFICES ASSUME Init PROVE TypeOK
  OBVIOUS
<1>1. /\ up \in BOOLEAN /\ subscribed \in BOOLEAN /\ leaked \in BOOLEAN
      /\ removed \in BOOLEAN /\ overtaken \in BOOLEAN /\ failed \in BOOLEAN
  BY Zenon DEF Init
<1>2. accepted \in [Listener -> BOOLEAN]
  BY DEF Init
<1>3. QED
  BY <1>1, <1>2 DEF Init, TypeOK, Event

\* A call that has still to run an errand, or has run it, is counted.
LEMMA PendingType ==
  ASSUME TypeOK, NEW l \in Listener, NEW e \in Errand, Begin(l, e) \/ End(l, e)
  PROVE  pending' \in [Listener -> [Errand -> Nat]]
<1>1. pending \in [Listener -> [Errand -> Nat]]
  BY DEF TypeOK
<1>2. pending[l] \in [Errand -> Nat] /\ pending[l][e] \in Nat
  BY <1>1
<1>3. CASE Begin(l, e)
  BY <1>1, <1>2, <1>3 DEF Begin
<1>4. CASE End(l, e)
  BY <1>1, <1>2, <1>4 DEF End, About
<1>5. QED
  BY <1>3, <1>4

\* A call that releases the lock for an errand adds that errand, and no other.
LEMMA BeginAbout ==
  ASSUME TypeOK, NEW l \in Listener, NEW e \in Errand, Begin(l, e)
  PROVE  \A m \in Listener, f \in Errand : About(m, f)' <=> About(m, f) \/ (m = l /\ f = e)
<1>1. pending \in [Listener -> [Errand -> Nat]]
  BY DEF TypeOK
<1>2. pending[l] \in [Errand -> Nat] /\ pending[l][e] \in Nat
  BY <1>1
<1>3. QED
  BY <1>1, <1>2 DEF Begin, About

\* A call that returns leaves no errand behind that was not there.
LEMMA EndAbout ==
  ASSUME TypeOK, NEW l \in Listener, NEW e \in Errand, End(l, e)
  PROVE  \A m \in Listener, f \in Errand :
           /\ About(m, f)' => About(m, f)
           /\ About(m, f) /\ (m # l \/ f # e) => About(m, f)'
<1>1. pending \in [Listener -> [Errand -> Nat]]
  BY DEF TypeOK
<1>2. pending[l] \in [Errand -> Nat] /\ pending[l][e] \in Nat
  BY <1>1
<1>3. QED
  BY <1>1, <1>2 DEF End, About

\* The result of AddSystemAbilityListener is a Boolean.
LEMMA AcceptedType ==
  ASSUME TypeOK, NEW l \in Listener, Accept(l)
  PROVE  accepted' \in [Listener -> BOOLEAN]
<1>1. (l \in InList) \in BOOLEAN
  OBVIOUS
<1>2. accepted \in [Listener -> BOOLEAN]
  BY DEF TypeOK
<1>3. QED
  BY <1>1, <1>2, Zenon DEF Accept

\* What TellSubscriber may do to the notifications on their way.
LEMMA TellSubscriberType ==
  ASSUME events \in Seq(Event), TellSubscriber
  PROVE  events' \in Seq(Event)
  BY DEF TellSubscriber, Event

\* Every step keeps the types.
LEMMA NextTypeOK == TypeOK /\ [Next]_vars => TypeOK'
<1> SUFFICES ASSUME TypeOK, [Next]_vars PROVE TypeOK'
  OBVIOUS
<1> USE DEF TypeOK, Event, Count, Join, InList, samgrVars, handlerVars, listenerVars, historyVars
<1>1. CASE Change
  <2>1. up' \in BOOLEAN /\ events' \in Seq(Event)
    BY <1>1 DEF Change
  <2>2. QED
    BY <1>1, <2>1 DEF Change
<1>2. CASE FindListeners
  <2>1. Head(events) \in Event /\ Tail(events) \in Seq(Event)
    BY <1>2 DEF FindListeners
  <2>2. QED
    BY <1>2, <2>1 DEF FindListeners
<1>3. ASSUME NEW l \in Listener, AddSystemAbilityListener(l) PROVE TypeOK'
  <2>1. accepted' \in [Listener -> BOOLEAN]
    BY <1>3 DEF AddSystemAbilityListener
  <2>2. list' \in [Listener -> {"ABSENT", "INIT", "NOTIFIED"}]
    BY <1>3 DEF AddSystemAbilityListener
  <2>3. pending' \in [Listener -> [Errand -> Nat]]
    BY <1>3, PendingType DEF AddSystemAbilityListener, Errand
  <2>4. failed' \in BOOLEAN
    BY <1>3, Zenon DEF AddSystemAbilityListener, CheckSystemAbility
  <2>5. QED
    BY <1>3, <2>1, <2>2, <2>3, <2>4 DEF AddSystemAbilityListener
<1>4. ASSUME NEW l \in Listener, RemoveSystemAbilityListener(l) PROVE TypeOK'
  <2>1. pending' \in [Listener -> [Errand -> Nat]]
    BY <1>4, PendingType DEF RemoveSystemAbilityListener, Errand
  <2>2. removed' \in BOOLEAN /\ overtaken' \in BOOLEAN
    BY <1>4, Zenon DEF RemoveSystemAbilityListener
  <2>3. /\ list' \in [Listener -> {"ABSENT", "INIT", "NOTIFIED"}]
        /\ told' \in [Listener -> Event \cup {"NONE"}]
        /\ calls' \in Nat
    BY <1>4 DEF RemoveSystemAbilityListener
  <2>4. accepted' \in [Listener -> BOOLEAN]
    BY <1>4 DEF RemoveSystemAbilityListener
  <2>5. UNCHANGED <<samgrVars, handlerVars, failed>>
    BY <1>4 DEF RemoveSystemAbilityListener
  <2>6. QED
    BY <2>1, <2>2, <2>3, <2>4, <2>5
<1>5. ASSUME NEW l \in Listener, NotifyAdded(l) PROVE TypeOK'
  <2>1. pending' \in [Listener -> [Errand -> Nat]]
    BY <1>5, PendingType DEF NotifyAdded, Errand
  <2>2. accepted' \in [Listener -> BOOLEAN]
    BY <1>5, AcceptedType DEF NotifyAdded
  <2>3. QED
    BY <1>5, <2>1, <2>2 DEF NotifyAdded
<1>6. ASSUME NEW l \in Listener, Subscribe(l) PROVE TypeOK'
  <2>1. events' \in Seq(Event)
    BY <1>6, TellSubscriberType DEF Subscribe
  <2>2. pending' \in [Listener -> [Errand -> Nat]]
    BY <1>6, PendingType DEF Subscribe, Errand
  <2>3. accepted' \in [Listener -> BOOLEAN]
    BY <1>6, AcceptedType DEF Subscribe
  <2>4. QED
    BY <1>6, <2>1, <2>2, <2>3 DEF Subscribe
<1>7. ASSUME NEW l \in Listener, SubscribeFail(l) PROVE TypeOK'
  <2>1. pending' \in [Listener -> [Errand -> Nat]]
    BY <1>7, PendingType DEF SubscribeFail, Errand
  <2>2. QED
    BY <1>7, <2>1 DEF SubscribeFail
<1>8. ASSUME NEW l \in Listener, Unsubscribe(l) PROVE TypeOK'
  <2>1. subscribed' \in BOOLEAN /\ leaked' \in BOOLEAN /\ failed' \in BOOLEAN
    BY <1>8, Zenon DEF Unsubscribe
  <2>2. pending' \in [Listener -> [Errand -> Nat]]
    BY <1>8, PendingType DEF Unsubscribe, Errand
  <2>3. QED
    BY <1>8, <2>1, <2>2 DEF Unsubscribe
<1>9. ASSUME NEW l \in Listener, NotifyAbilityListener(l) PROVE TypeOK'
  BY <1>9 DEF NotifyAbilityListener
<1>10. CASE UNCHANGED vars
  BY <1>10 DEF vars
<1>11. QED
  BY <1>1, <1>2, <1>3, <1>4, <1>5, <1>6, <1>7, <1>8, <1>9, <1>10 DEF Next, Return

\* Every variable keeps its type.
THEOREM TypeCorrect == Spec => []TypeOK
<1>1. Init => TypeOK
  BY InitTypeOK
<1>2. TypeOK /\ [Next]_vars => TypeOK'
  BY NextTypeOK
<1>3. QED
  BY <1>1, <1>2, PTL DEF Spec

-----------------------------------------------------------------------------
\* A listener about to subscribe is in the list, unless a removal overtook it;
\* nobody is about to unsubscribe before a listener has been removed.
CallInv ==
  /\ overtaken => removed
  /\ \A l \in Listener : /\ About(l, "subscribe") => overtaken \/ list[l] # "ABSENT"
                         /\ About(l, "unsubscribe") => removed

SubscriptionInv == CallInv /\ ListIsSubscribed /\ NoLeakedSubscription

\* The subscription follows the list in every step.
LEMMA NextSubscriptionInv ==
  TypeOK /\ SubscriptionInv /\ [Next]_vars => SubscriptionInv'
<1> SUFFICES ASSUME TypeOK, SubscriptionInv, [Next]_vars PROVE SubscriptionInv'
  OBVIOUS
<1> USE DEF SubscriptionInv, CallInv, ListIsSubscribed, NoLeakedSubscription,
            InList, samgrVars, handlerVars, listenerVars, historyVars
<1> DEFINE SameErrands == \A m \in Listener, e \in Errand : About(m, e)' <=> About(m, e)
<1>e. {"subscribe", "unsubscribe", "notify"} \subseteq Errand
  BY DEF Errand
<1>s. ASSUME UNCHANGED pending PROVE SameErrands
  BY <1>s DEF About
<1>t. list \in [Listener -> {"ABSENT", "INIT", "NOTIFIED"}]
  BY DEF TypeOK
<1> HIDE DEF SameErrands
<1>1. CASE Change
  BY <1>1, <1>s, <1>e DEF Change, SameErrands
<1>2. CASE FindListeners
  BY <1>2, <1>s, <1>e, <1>t DEF FindListeners, SameErrands
<1>3. ASSUME NEW l \in Listener, AddSystemAbilityListener(l) PROVE SubscriptionInv'
  <2>1. CASE InList \subseteq {l}
    <3>1. Begin(l, "subscribe")
      BY <1>3, <2>1 DEF AddSystemAbilityListener
    <3>2. \A m \in Listener, e \in Errand : About(m, e)' <=> About(m, e) \/ (m = l /\ e = "subscribe")
      BY <3>1, <1>e, BeginAbout
    <3>3. list'[l] # "ABSENT" /\ \A m \in Listener : list[m] # "ABSENT" => list'[m] # "ABSENT"
      BY <1>3, <1>t DEF AddSystemAbilityListener, Join
    <3>4. QED
      BY <1>3, <1>e, <3>2, <3>3 DEF AddSystemAbilityListener
  <2>2. CASE ~(InList \subseteq {l})
    <3>1. UNCHANGED pending \/ Begin(l, "notify")
      BY <1>3, <2>2 DEF AddSystemAbilityListener
    <3>2. \A m \in Listener, e \in {"subscribe", "unsubscribe"} : About(m, e)' <=> About(m, e)
      BY <3>1, <1>e, <1>s, BeginAbout DEF SameErrands
    <3>3. \A m \in Listener : list[m] # "ABSENT" => list'[m] # "ABSENT"
      BY <1>3, <1>t DEF AddSystemAbilityListener, Join
    <3>4. InList # {}
      BY <2>2
    <3>5. /\ UNCHANGED <<subscribed, leaked, removed, overtaken>>
          /\ failed' \/ ~failed
      <4>1. UNCHANGED <<subscribed, leaked, removed, overtaken>>
        BY <1>3 DEF AddSystemAbilityListener
      <4>2. failed' \/ ~failed
        BY <1>3, Zenon DEF AddSystemAbilityListener, CheckSystemAbility
      <4>3. QED
        BY <4>1, <4>2
    <3>6. QED
      BY <1>e, <3>2, <3>3, <3>4, <3>5
  <2>3. QED
    BY <2>1, <2>2
<1>4. ASSUME NEW l \in Listener, RemoveSystemAbilityListener(l) PROVE SubscriptionInv'
  <2>1. /\ removed' = TRUE
        /\ overtaken' = (overtaken \/ About(l, "subscribe"))
        /\ \A m \in Listener : m # l => list'[m] = list[m]
        /\ UNCHANGED subscribed
    BY <1>4, <1>t DEF RemoveSystemAbilityListener
  <2>2. \A m \in Listener, e \in {"subscribe", "unsubscribe"} :
          About(m, e)' <=> About(m, e) \/ (m = l /\ e = "unsubscribe" /\ InList \subseteq {l})
    BY <1>4, <1>e, <1>s, BeginAbout DEF RemoveSystemAbilityListener, SameErrands
  <2>3. CallInv'
    BY <1>e, <2>1, <2>2
  <2>4. NoLeakedSubscription'
    <3>1. CASE InList \subseteq {l}
      BY <1>e, <2>2, <3>1
    <3>2. CASE ~(InList \subseteq {l})
      BY <2>1, <3>2
    <3>3. QED
      BY <3>1, <3>2
  <2>5. QED
    BY <2>1, <2>3, <2>4
<1>5. ASSUME NEW l \in Listener, NotifyAdded(l) PROVE SubscriptionInv'
  <2>1. \A m \in Listener, e \in {"subscribe", "unsubscribe"} : About(m, e)' <=> About(m, e)
    BY <1>5, <1>e, EndAbout DEF NotifyAdded
  <2>2. QED
    BY <1>5, <2>1 DEF NotifyAdded
<1>6. ASSUME NEW l \in Listener, Subscribe(l) PROVE SubscriptionInv'
  <2>1. \A m \in Listener, e \in Errand : About(m, e)' => About(m, e)
    BY <1>6, <1>e, EndAbout DEF Subscribe
  <2>2. About(l, "subscribe")
    BY <1>6 DEF Subscribe, End
  <2>3. QED
    BY <1>6, <1>e, <2>1, <2>2 DEF Subscribe
<1>7. ASSUME NEW l \in Listener, SubscribeFail(l) PROVE SubscriptionInv'
  <2>1. \A m \in Listener, e \in {"subscribe", "unsubscribe"} :
          /\ About(m, e)' => About(m, e)
          /\ e = "unsubscribe" => (About(m, e)' <=> About(m, e))
    BY <1>7, <1>e, EndAbout DEF SubscribeFail
  <2>2. QED
    BY <1>7, <2>1 DEF SubscribeFail
<1>8. ASSUME NEW l \in Listener, Unsubscribe(l) PROVE SubscriptionInv'
  <2>1. \A m \in Listener, e \in Errand : About(m, e)' => About(m, e)
    BY <1>8, <1>e, EndAbout DEF Unsubscribe
  <2>2. About(l, "unsubscribe")
    BY <1>8 DEF Unsubscribe, End
  <2>3. QED
    BY <1>8, <1>e, <2>1, <2>2 DEF Unsubscribe
<1>9. ASSUME NEW l \in Listener, NotifyAbilityListener(l) PROVE SubscriptionInv'
  BY <1>9, <1>s, <1>e DEF NotifyAbilityListener, SameErrands
<1>10. CASE UNCHANGED vars
  BY <1>10, <1>s, <1>e DEF vars, SameErrands
<1>11. QED
  BY <1>1, <1>2, <1>3, <1>4, <1>5, <1>6, <1>7, <1>8, <1>9, <1>10 DEF Next, Return

\* The subscription follows the list in every reachable state.
THEOREM SubscriptionInvariant == Spec => []SubscriptionInv
<1>1. Init => SubscriptionInv
  BY DEF Init, SubscriptionInv, CallInv, ListIsSubscribed, NoLeakedSubscription, InList, About, Errand
<1>2. TypeOK /\ SubscriptionInv /\ [Next]_vars => SubscriptionInv'
  BY NextSubscriptionInv
<1>3. QED
  BY <1>1, <1>2, TypeCorrect, PTL DEF Spec

\* Until a listener is removed or a call fails, the list is subscribed.
THEOREM MembersAreSubscribed == Spec => []ListIsSubscribed
<1>1. SubscriptionInv => ListIsSubscribed
  BY DEF SubscriptionInv
<1>2. QED
  BY <1>1, SubscriptionInvariant, PTL

\* No subscription is left behind, whatever overlaps, unless unsubscribing failed
\* or a removal overtook the subscription.
THEOREM SubscriptionIsNotLeaked == Spec => []NoLeakedSubscription
<1>1. SubscriptionInv => NoLeakedSubscription
  BY DEF SubscriptionInv
<1>2. QED
  BY <1>1, SubscriptionInvariant, PTL

-----------------------------------------------------------------------------
\* A listener that a REMOVE notification has still to call back is marked INIT,
\* until a listener is removed.
RemovePendingIsInit ==
  ~removed => \A l \in todo : handling = "REMOVE" => list[l] = "INIT"

\* Callbacks are made for a notification.
HandlingKnown == todo # {} => handling \in Event

NotifiedInv == HandlingKnown /\ RemovePendingIsInit /\ NotifiedIsTold

\* The marks in the list follow the callbacks in every step.
LEMMA NextNotifiedInv == TypeOK /\ NotifiedInv /\ [Next]_vars => NotifiedInv'
<1> SUFFICES ASSUME TypeOK, NotifiedInv, [Next]_vars PROVE NotifiedInv'
  OBVIOUS
<1> USE DEF TypeOK, Event, NotifiedInv, HandlingKnown, RemovePendingIsInit, NotifiedIsTold, AddPending,
            Count, Join, Accept, Begin, End, About, Errand, InList, samgrVars, handlerVars, listenerVars, historyVars
<1>1. CASE Change
  BY <1>1 DEF Change
<1>2. CASE FindListeners
  BY <1>2 DEF FindListeners
<1>3. ASSUME NEW l \in Listener, AddSystemAbilityListener(l) PROVE NotifiedInv'
  <2>1. UNCHANGED <<told, todo, handling, removed>>
    BY <1>3 DEF AddSystemAbilityListener
  <2>2. PICK state \in {"INIT", "NOTIFIED"} :
          /\ Join(l, state)
          /\ state = "NOTIFIED" /\ ~(InList \subseteq {l}) => Begin(l, "notify")
          /\ state = "NOTIFIED" => InList # {}
    BY <1>3, Zenon DEF AddSystemAbilityListener
  <2>3. \A m \in Listener : About(m, "notify") => About(m, "notify")'
    BY <1>3, BeginAbout DEF AddSystemAbilityListener
  <2>4. ASSUME NEW m \in Listener, list'[m] # list[m]
        PROVE  m = l /\ list'[m] = state /\ l \notin InList
    BY <2>2, <2>4
  <2>5. ASSUME NEW m \in Listener, list'[m] = "NOTIFIED", list[m] # "NOTIFIED"
        PROVE  About(m, "notify")'
    <3>1. Begin(m, "notify")
      BY <2>2, <2>4, <2>5
    <3>2. QED
      BY <3>1, BeginAbout
  <2>6. HandlingKnown'
    BY <2>1
  <2>7. RemovePendingIsInit'
    BY <2>1, <2>4
  <2>8. NotifiedIsTold'
    BY <2>1, <2>3, <2>5
  <2>9. QED
    BY <2>6, <2>7, <2>8
<1>4. ASSUME NEW l \in Listener, RemoveSystemAbilityListener(l) PROVE NotifiedInv'
  BY <1>4 DEF RemoveSystemAbilityListener
<1>5. ASSUME NEW l \in Listener, NotifyAdded(l) PROVE NotifiedInv'
  BY <1>5 DEF NotifyAdded
<1>6. ASSUME NEW l \in Listener, Subscribe(l) PROVE NotifiedInv'
  BY <1>6 DEF Subscribe
<1>7. ASSUME NEW l \in Listener, SubscribeFail(l) PROVE NotifiedInv'
  BY <1>7 DEF SubscribeFail
<1>8. ASSUME NEW l \in Listener, Unsubscribe(l) PROVE NotifiedInv'
  BY <1>8 DEF Unsubscribe
<1>9. ASSUME NEW l \in Listener, NotifyAbilityListener(l) PROVE NotifiedInv'
  BY <1>9 DEF NotifyAbilityListener
<1>10. CASE UNCHANGED vars
  BY <1>10 DEF vars
<1>11. QED
  BY <1>1, <1>2, <1>3, <1>4, <1>5, <1>6, <1>7, <1>8, <1>9, <1>10 DEF Next, Return

\* A listener marked NOTIFIED has been told, or is about to be.
THEOREM NotifiedListenerIsTold == Spec => []NotifiedIsTold
<1>1. Init => NotifiedInv
  BY DEF Init, NotifiedInv, HandlingKnown, RemovePendingIsInit, NotifiedIsTold
<1>2. TypeOK /\ NotifiedInv /\ [Next]_vars => NotifiedInv'
  BY NextNotifiedInv
<1>3. NotifiedInv => NotifiedIsTold
  BY DEF NotifiedInv
<1>4. QED
  BY <1>1, <1>2, <1>3, TypeCorrect, PTL DEF Spec
=============================================================================
