# A TLA+ model of safwk

safwk is the framework in which system abilities (SAs) of OpenHarmony run. An SA
process (`sa_main`) loads the SAs its profiles name, starts and publishes them at
samgr, the system ability manager, which is another process, and then starts,
idles, activates and stops them as samgr asks. This directory holds TLA+ modules
for the parts of the framework that have state, TLC runs on small instances and
TLAPS proofs for every size. Paths are relative to the repository, `src/` in
front; `S/` stands for `src/services/safwk/src/`.

## Inventory: the parts of the system

| Part | Code | Module |
| --- | --- | --- |
| Life cycle of an SA: Start, Stop, Idle, Active, Publish, CancelIdle | `S/system_ability.cpp`, the request handlers of `S/local_ability_manager.cpp` | `SystemAbility`, `AbilityLifecycle` (abstract) |
| Start and stop reasons | `S/system_ability_ondemand_reason.cpp`, `S/system_ability.cpp`, `S/local_ability_manager.cpp` | `OnDemandReason` (contents), `SystemAbility` (slots) |
| Listeners to other SAs | `S/local_ability_manager.cpp` | `AbilityListener` |
| Boot of an SA process | `S/local_ability_manager.cpp` | `BootPhases` |
| Timer that unloads unused on-demand SAs | `S/local_ability_manager.cpp` | `UnusedTimer` |
| LRU cache with expiry | `src/interfaces/innerkits/safwk/expire_lru_cache.h` | `LruCacheOps`, `ExpireLruCache`, `ExpiringStore` |
| Cache of API replies in client processes | `S/api_cache_manager.cpp` | `ApiCacheManager` |
| FFRT statistics and the handler of delayed tasks | `S/local_ability_manager_dumper.cpp`, `S/ffrt_handler.cpp` | `FfrtStatistics`, `FfrtReport` |
| IPC stub, with the operations it calls | `S/local_ability_manager_stub.cpp`, `S/local_ability_manager.cpp` | `LocalAbilityManagerStub` |
| Process entry, arguments | `S/main.cpp`, `S/system_ability_start.cpp` | `SaMain` |
| svc command line | `src/svc/src/svc_control.cpp` | `SvcControl` |
| Rust bindings | `src/interfaces/innerkits/safwk/rust` | `OnDemandReason` (reasons and extra data); the rest forwards |
| samgr, the thread pool, FFRT, the profile parser, `Timer` | other repositories | external, from how `src/` uses them |

How they interact: a process is started with the path of its profile and, for a
start on demand, with an event that names the SA and the reason. The boot loads
SAs, puts one start task per SA into a pool and
each task calls Start of its SA, which calls OnStart, which publishes. samgr's
calls arrive on IPC threads through the stub; StartAbility and StopAbility store
the reason and create a detached thread that calls Start or Stop; Idle and Active
run in the IPC thread. An SA that listens to another one is told by samgr's
notifications. After the boot the timer reads the last request time of every
published on-demand SA and asks samgr to unload those unused, which comes back as
a stop. The stub serves the other requests too: FFRT and IPC statistics, whose text
goes to a descriptor of the caller, and the commands that svc sends to an SA. The
API cache lives in the processes of clients and meets none of these.

## The modules

Variables carry the names of the members they stand for (`abilityState_` is
`abilityState`). One step is a stretch of code between two points where other
threads can be seen to act: taking a lock, a callback, a call to samgr. Every
module's properties come last; definitions named in a comment as `Mutant:` are
plausible bugs of the definition that follows and are used by no specification.

**SystemAbility.** One SA, any number of threads. A thread is free or runs one
call, its place in it is `pc`, and `call` has the operation, the number of the
request and of the reason it received. `abilityLock` is recursive, so a Publish
from a callback that holds it would not block; no callback does hold it.
`registered` is samgr's table, `samgr` is samgr's own record of the SA. Three
constants choose the environment: `Ordered` (samgr makes only calls its record
allows, which is how the code's comments describe it, or any call at any time),
`Faults` (every call to samgr, the library and OnStart's publication may fail)
and `Outside` (another SA removes this one with the static `StopAbility`, which
does not tell the SA). Reasons are request numbers.

**AbilityLifecycle.** What SystemAbility implements with an ordered samgr, no
faults and no removal from outside: one state, the object clients get, and the
callbacks that run. A publication and a stop are one step each; OnIdle, OnActive
and OnStop begin only in a state that asks for them, while no other one runs. The
mapping sees a publication when samgr has the object and a stop when
`abilityState_` is reset: `abilityLock` hides the other half of each.

**AbilityListener.** One watched SA, the list of its listeners, the one
subscription of the process and samgr's notifications in order. A step under
`listenerLock_` is atomic; SubscribeSystemAbility, UnSubscribeSystemAbility and
the callbacks happen after it, at any later time. A call that has left the lock is an
`Errand`, and there are any number of them: nothing keeps two threads of an SA from
adding and removing the same listener at once. CheckSystemAbility may fail, and then
says of an SA that is there that it is not.

**SaMain, OnDemandReason.** Operators. An argument is a sequence of tokens, of
which `#` and the numerals matter: the options counted by InitMallopt, the cut of
the event into parts, StrToInt and atoi (any int where atoi is undefined). A
reason goes from the JSON over samgr's extra data to the SA, and for an SA written
in Rust to the wrapper's types and through a parcel. `reasonId_` has no
initializer, so without an event it is any int.

**BootPhases.** The main thread from the command line to the stop of the pool, a
task per SA, and the count `startTaskNum`. Command lines are made from the
requests in the constant `Requests` the way samgr and init make them. Profiles
(phase, run-on-create, dependencies) are chosen from the constant `Profiles`, the
trusted SAs nondeterministically. The phases are 1 to 3; 4 stands for every number
above OTHER_START, for which the code has no list. The pool queues `MaxTask` tasks and AddTask
waits while the queue is full, as the pool's SetMaxTaskNum makes it. Start is one
step here; `SystemAbility` has its inside.

**UnusedTimer.** The configuration with its limits, the timer, and its callback,
which takes the time, then reads each SA's request time and decides. Requests,
publications and unloads fall anywhere in between. Time is in ticks; `int32_t` is
a word of `WordBits` bits, with the other constants of the code scaled with it.
An IPC object made anew counts its requests from its publication; one that is
published again keeps its time.

**LruCacheOps, ExpireLruCache, ExpiringStore, ApiCacheManager.** The methods of
the cache class as operators on a record of its three members; a specification of
one cache; the abstract store it is shown to implement; and the manager's caches
with clients that ask before sending and offer the reply afterwards.

**FfrtStatistics, FfrtReport.** START, STOP, GET, the delayed task from the moment
FFRT begins it, and the FFRTHandler. Buffers and tasks have the number of their
collection. `ffrtMetricLock` is held for a whole command. FFRT may refuse to start
or stop, and the queue to take the task. FfrtReport is the parser of the buffer:
its loop is a recursive function over the entries, and the empty name, which ends it,
is `nil`.

**LocalAbilityManagerStub.** IPC threads, each with a request: token and
permission, lookup of the handler, what the handler reads, the call, saving the
result, closing the descriptor. The statistics are those of FfrtStatistics, which
this module extends; several threads give commands at once. The table of
descriptors is the kernel's: a number is free again as soon as it is closed, and
the SAs of the process take numbers from the same table. Reading from and writing
to a parcel, and saving, may fail at each place. `loaded` says whether the SA asked
for is in `localAbilityMap_`.

**SvcControl.** svc composed with the process it calls: parsing of its line, the
proxy, one attempt to load the SA, and the call, which is a request to the stub.

## What the runs check

| Run | Shows | States |
| --- | --- | --- |
| `sa_any` | With any samgr, any fault and removal from outside: OnStart is exclusive, a registered SA is loaded when the lock is free, no stale reason. | 881 253 |
| `sa_live` | With an ordered samgr and no faults: the threads implement AbilityLifecycle, although Idle and Active do not look at the state again after their callback; state and samgr's table agree; OnIdle, OnActive and OnStop keep apart; GetAbilityRemoteObject is what samgr holds; calls return and starts are served. | 121 309 |
| `listener_any` | Overlapping, failing calls, listeners that leave: no subscription to an empty list, unless a listener left before it had subscribed; and, until one leaves or a call fails, a list with members is subscribed, NOTIFIED means told, and listeners are told. | 643 867 |
| `boot_any` | Command lines with options and events, all phases, dependencies with cycles, any fault and timeout: the process goes on for the SA and with the reason asked for, and extra data reach the SA; no wait counts on a task that will not come; order of phases; there is an SA to serve, the one asked for if any, and every SA is started or registered on demand; the boot comes to its end. | 939 350 |
| `timer_any` | An SA is unloaded only if unused for its threshold when the timer fired, and then is noticed in time, whatever the others do. | 3 946 119 |
| `stub_any` | Requests of every code on two threads, FFRT that refuses, parcels and files that fail, svc: descriptors are closed once and have one owner; GET reads a buffer nobody writes to and hands it out once; an answer of success means that the thing was done, and so does what svc prints; buffer, delayed task and FFRT's writes go together; a collection nobody stops ends, and so does svc. The report is right for every buffer of three entries. | 610 408 |
| `lru_any` | The three members agree; the cache implements the store, with and without expiry. | 210 660 |
| `api_any` | Answers are recent, are the request's own and do not survive a clear. | 1 045 871 |

Four runs end in a counterexample: the code does something else than a line of
its documentation, comments or tests says.

| Run | What happens |
| --- | --- |
| `listener_race` | The last listener leaves the list; a new one joins and subscribes; then the first one's UnSubscribe, made outside the lock, takes the subscription away. |
| `boot_late` | A task outlives its phase's timeout and counts itself off in the next phase, whose wait ends early. |
| `boot_full` | StartPhaseTasks holds `startPhaseLock_` while AddTask waits for room; the tasks need that lock to finish. |
| `timer_long` | `timeout * TIME_S_TO_MS` is computed in 32 bits: a very long timeout becomes the shortest. |

Some limits of the code show in what the passing properties do not say. OnStop
may begin while an OnStart that has already published still runs, since Stop does
not take `onStartLock_`: `CallbacksExclusive` leaves OnStart out, and IsRunning() may
then be true of a stopped SA. A listener removed by one thread while another thread,
adding it, is between the lock and SubscribeSystemAbility leaves a subscription for an
empty list: `NoLeakedSubscription` excuses this case by the history variable
`overtaken`. A removed listener may still be called back. A reply asked for before a
clear of the API cache may be cached after it: `ClearForgets` speaks of replies cached
before. An SA with a phase above OTHER_START and run-on-create is neither started nor
registered: `EverySaServed` names it. A STOP that FFRT refuses frees the buffer all the
same: the properties of the statistics end at the refusal (`refused`). A failed
Subscribe leaves its listener in the list, and the next one finds a non-empty list,
returns true and is not subscribed: `ListIsSubscribed` and `UndisturbedToldAdd`
end at the first failure. A second listener is told directly while the first one's
Subscribe is still on its way; if the SA leaves before it, OnRemove is not called:
the properties promise OnAdd only. A reason without an event keeps whatever
`reasonId_` held. The enumeration of the Rust bindings has no UNREF_EVENT:
`ReasonReachesAbility` promises the way through a parcel only for the ids it knows.
GET frees the statistics before it saves them: if saving fails they are lost, and
`AnswerIsTrue` says only that the caller is told. What it asks of an answer depends on
the request: true to a command of the statistics means that the command was carried
out and its result is in the caller's file; success to svc, that OnSvcCmd of the SA had
the caller's file and returned success; success of the other callbacks, that they were
made; and a request that is denied does nothing. `SvcIsTrue` carries this to the
command line.

### Bounds

Three threads are the least with which two calls of samgr and a publication of
the SA meet, or a start queues behind another while a stop runs; `MaxRequests`
lets every thread be used again (it is 3 in `sa_live`, where liveness is checked
without symmetry). Three listeners: one that leaves, one that joins, one that
stays. Three SAs are enough for one per phase, for two in a phase with one behind,
and for cycles of dependencies; `MixedProfiles` has each of these. Two workers
let tasks hold every thread; a queue of two is both filled and left with room. Two
watched SAs for one behind another in the scan; the clock runs for at least three
intervals. Three keys and a cache of two for eviction; two descriptors and codes
for the keys of the API cache, whose caches of one entry evict at once. Two IPC threads and two descriptors let a
number pass from one request to another or to an SA; codes are grouped by the state
they share (`mcWorkloads`); groups have only the table of descriptors in common, and
an SA takes numbers from it in each. Two
collections let a late task meet the next buffer. Requests for the command line
have none, one, two and one too many options, `#` inside a name and a value, an
event that is too long, an id that is no number and a number that is no int. Times
of the report and their sums stay below `Word`, as those of the code stay below
2^64 (`LengthAssumption`). Symmetry
is used for threads, clients and watched SAs, in runs of invariants and action
properties only.

History variables, which no action reads, let one run hold both the undisturbed
and the disturbed behaviours: `removed`, `failed` and `overtaken` in AbilityListener, `missed`
in UnusedTimer, `refused` and `unposted` in FfrtStatistics. `effect` and `handed` in
LocalAbilityManagerStub record what became of a request. `faulty` in BootPhases is chosen at the start: whether faults
happen in this behaviour at all.

Deadlock is not checked: each model stops when its bound on calls or time is
used up, or when the boot is over. Stops that matter are liveness properties
(`CallsReturn`, `BootCompletes`, `RunOnCreateRegistered`).

### Fairness

- `SystemAbility`: strong fairness of each thread's next step. Threads are
  scheduled, callbacks return, and a thread that waits for a mutex gets it if it
  is released again and again. That a request arrives is not assumed.
- `AbilityListener`: weak fairness of the rest of a call begun, of the handling of
  a notification and of each callback. No call has to be made.
- `BootPhases`: weak fairness of the main thread and of each task (OnStart
  returns, and a poll for a dependency gives up at its timeout), and publication,
  some time, of the SAs of other processes. That the wait for a phase times out is
  an action of its own, `WaitTimesOut`, and is not assumed. The lock is always released by the step
  that follows, except in `boot_full`, where no step is enabled at all.
- `SvcControl`: weak fairness of each delayed task, of svc's own steps, and, while
  svc's call waits for a thread or its answer, of every handler: a handler calls back
  into an SA without a timeout, and if the callback of any handler did not return its
  IPC thread would be lost. Strong fairness of svc's call being taken by some IPC
  thread: threads come free again and again, and other requests may take them in
  between, but the driver queues the calls. The load of an SA ends by its answer or
  its timeout. That the call fails (`SvcCallFails`), or that other requests arrive, is
  not assumed.

## What is proved

The proof modules hold theorems for every value of the constants that satisfies
the named ASSUMEs. Each proof of an invariant has the form Init => I,
I /\ [Next]_vars => I', I => property. The assumptions, and why the code justifies
them:

- Values such as `None` are outside the sets they are told apart from, flags are
  Boolean, bounds natural; there are finitely many SAs and IPC threads, and a pool
  has a worker and a place.
- `RequestAssumption`, `NumeralAssumption`, `TokenAssumption` (SaMain, BootPhases): what
  samgr and init write into a command line. Ids are numerals, options are pairs
  that begin with `-m`, and neither a numeral nor the name of an SA is the separator
  `#`. Names and values of an event are any tokens, `#` among them, and the number of
  options is not bounded.
- `ExtraAssumption`: extra data have a code, data and a map of finitely many keys, as
  std::map has.
- `ArgumentAssumption` (ExpireLruCache): the size is an unsigned number, 0 included,
  which the constructor replaces; expiry times are any integers, negative ones too.
- `WordAssumption` (UnusedTimer): of powers of two only that one bit more doubles them;
  timeouts fit a word, limits and clock too.
- `TimeAssumption`, `LengthAssumption` (FfrtReport): times are numbers of the unsigned
  type, and a buffer of the longest tasks does not overflow it: 2^64 microseconds are
  5000 tasks of a century each.

- **SystemAbilityProofs.** `TypeCorrect`. `LifecycleInvariant`: `OpOfLabel` (which
  call a label belongs to), `StartOwner` (a thread in Start holds
  `onStartLock_`) and `SlotsFollowRequests` (the reason slots are never older than
  any call under way). From these `OnStartIsExclusive`, `RegisteredSaIsLoaded`,
  `ReasonsAreNotStale`. `PublishedObjectIsCurrent`. `OrderedInvariant` relates
  samgr's record to the calls under way and gives `StateAndSamgrAgree` and
  `CallbacksAreExclusive`: the unchecked write at the end of Idle and Active is
  harmless exactly because an ordered samgr makes one such call at a time.
  `ImplementsTheLifecycle` is the refinement: with these invariants every step of
  a thread is a step of AbilityLifecycle or is not seen (`StepIsSeen`).
- **AbilityListenerProofs.** `TypeCorrect`; `SubscriptionInvariant`, inductive with
  `CallInv` (where calls between the lock and samgr are), gives
  `MembersAreSubscribed` and `SubscriptionIsNotLeaked`, for any number of overlapping
  calls; `NotifiedListenerIsTold`
  needs that the notification being handled is known and that a listener still to
  be told of a removal is marked INIT.
- **BootPhasesProofs.** `TypeCorrect`; `BootInvariant`: tasks belong to the phase
  under way or an earlier one, the pool runs what was queued, the count is zero
  outside the wait, never more than the unfinished tasks, and equal to their
  number until a phase times out. It gives `CountIsBacked` and `PhasesInOrder`. With
  `ServedInv` (what is to be started is in the list of its phase once this is
  loaded, lists that are over have become tasks, a task is dropped only after a
  timeout, samgr knows what is registered) it gives `ServesEverySa`.
- **SaMainProofs.** `StartsAsAsked`: the event of any request has its parts at places
  that follow from the lengths of name and value (`EventLaid`), so its separators are
  exactly five unless a name or value holds one (`FiveSeparators`, `EventParts`); the
  command line has its arguments at places that follow from the number of options
  (`LineLaid`), which InitMallopt passes over (`OptionsSkipped`). So ParseArgv of what
  main hands it reads the request back or refuses it (`EventParsed`,
  `ProperParses`, `MainReads`); the invariant adds that no later step of the boot
  touches what was read. `ReasonsReachAbilities`: the list that the bindings make of a
  map has every key at an odd place with its value behind it, in whatever order the
  map is walked (`WantPlaces`), so a map read back from it is the same one
  (`WantReadBack`, `WrapperReadBack`).
- **LocalAbilityManagerStubProofs.** First the statistics alone: `StatisticsInvariant` is
  the conjunction of the checked invariants with `WritesWhileEnabled`. By the lemma
  `StubImplementsStatistics` a step of the process is one of FfrtStatistics or leaves
  its variables alone, so the invariant carries over to the process with any number of
  threads (`StubStatistics`) and gives `WritesHaveABuffer`, `StillWhenRead`,
  `PendingTaskIsCurrent` and `BuffersAreTimed`. `StatisticsHandedOnce` then follows from the
  numbers of buffers. `DescriptorInvariant`, for which only the three kinds of
  steps on descriptors matter (`DescriptorSteps`), gives
  `DescriptorsAreOwned`. `AnswersAreTrue` needs in addition what a handler between two
  steps has done so far (`AnswerInv`).
  `SvcImplementsStub`: with svc as one of its callers the process is still the process
  of the theorems above. `SvcPrintsTheTruth` takes `AnswersAreTrue` from there and
  adds `SvcInv`: the thread that serves svc's call serves no other one until svc has
  its answer, and svc calls only with a line that ParseCmd accepts.
  `ReportsAreRight`: after n rounds of the parser's loop its variables hold what is to
  be said of the first n entries (`Recorded`), where the sum stays between the count
  times the shortest and the count times the longest time (`SumGrows`); so it does not
  overflow, and the mean is the sum over the count and lies between the two
  (`MeanBetween`).
- **UnusedTimerProofs.** `TypeCorrect` needs that a threshold is within its limits
  even when the product wraps (`ThresholdInLimits`); of powers of two it uses only
  `WordAssumption`. `UsedSaIsKept` rests on `ReadInv` (request times grow, so what
  the callback reads is no older than what it would have read when it began),
  `UnusedSaIsNoticed` on `NoticeInv`: the timer never lags, and the last callback
  that judged an SA found it in use or had it unloaded; an SA the present callback
  has not come to is one interval behind.
- **ApiCacheManagerProofs.** `CacheInvariant`: every entry is the reply to the
  request it is found under, cached since the last clear, at the time its timestamp
  says. It needs of the cache's methods only that they keep, add or drop entries
  (`DoGetWithin`, `DoAddEntries`), whichever key is evicted. It gives
  `AnswersAreOwn`, `AnswersAreRecent` and `ClearsForget`.

- **ExpireLruCacheProofs.** `OrderInvariant`: the three members hold the same keys, no
  more than the size, and the list has them by their last use, which is why its end is
  the least recently used. It rests on what ListRemove leaves of a list
  (`ListRemoveKeeps`) and on one lemma per method (`DoAddSound`, `DoGetSound`,
  `RemoveKeysSound`, `MakeRoomSound`). It gives `StructuresDoAgree` and, with `Store` as
  the refinement mapping, `ImplementsTheStore`: each method is one step of
  ExpiringStore.

Three of these need induction over data: the rounds of a loop over a list or a
buffer. It is done over sets of numbers (`LeastElement`, `InductiveSet`, from the
well-foundedness of < in the library), and the loops are recursive functions whose
existence is proved in the same way (`RoundsExist`).

Only model-checked: the liveness properties `CallsReturn`, `StartServed`,
`UndisturbedToldAdd`, `BootCompletes`, `CollectionEnds` and `SvcEnds`, which need
fairness and are out of the prover's reach. Every invariant, action property and
refinement that a passing run checks is also proved.

## Not modelled, and why

- Contents of profiles, and the text of dumps and of most replies: data no property
  tells apart. The effect of the options on the allocator, the name of the process
  and the memory hook.
- In processes that are forked from a running one, `system_ability_start.cpp`
  does what `main.cpp` does, without overwriting its arguments: one model for both.
- Removal from outside in the properties on agreement with samgr: nothing in the
  code restores the agreement, and an SA published again during its own OnStop is
  then unloaded while samgr holds it. `sa_any` includes it.
- A request between the timer's decision and the unload: samgr is another process
  and the window cannot be closed here; `UsedIsKept` speaks of the time the timer
  fired.
- `hardware_concurrency()` of 0, for which the pool would run the task in AddTask,
  with the lock held.
- The destruction of the FFRT queue by GET while its task runs: whether it waits
  is FFRT's decision.
- An object published again by an SA keeps the time of its last request, so that the
  SA may be unloaded at the next tick of the timer: modelled, but nothing promises
  a loaded SA a minimum time. Likewise replies of concurrent calls may be cached in
  the reverse order of their answers.
- The descriptor of a dump, which the Rust wrapper takes over and closes: whether
  the IPC library closes it as well is decided there.
- The inside of IPC statistics and of the dump of FFRT (other repositories; here
  they succeed or fail), and the Rust wrappers that only forward a call.
- Getters and setters of profile attributes, logging, and the proxies that only
  write a parcel and read the reply.

## What could follow

A composition of BootPhases with SystemAbility, in which start tasks and samgr's
requests for the same SA meet during the boot; the timer together with the life
cycle, so that the unload comes back as a stop.
