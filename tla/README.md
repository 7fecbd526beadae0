# LivioArk in TLA+

A specification of the parts of LivioArk that keep state between threads, the
message bus (`include/livioark/msgbus`) and logging (`log`): TLA+ modules, TLC
configurations that check them on small instances, and proofs checked by TLAPS.
Paths below are relative to the repository; line numbers are of the commit
modelled. `PROJECT.json` maps every definition to the lines it stands for.

## 1. The system

| Component | State | Operations | Meets others by |
|---|---|---|---|
| Lock-free queue (`lock_free_queue.h`) | ring of cells with sequences, two positions | `try_enqueue`, `try_dequeue` | called by publishers, dispatcher, router, workers |
| Publishing (`message_bus.h`) | main queue, `publish_mutex_`, `cv_not_full_` | `publish` under five `FullPolicy`s, `enqueueMessage` | enqueues; wakes the dispatcher; waits for its notification; drops through `notify_drop` |
| One dispatcher | `running_`, `dispatcher_sleeping_`, `cv_` | `start`, `stop`, `dispatchLoop` | dequeues, notifies publishers, calls `dispatchMessage` |
| Several dispatchers | worker queues, `worker_sleeping_`, `router_drained_` | `routerLoop`, `routeToWorker`, `workerLoop` | router fills the worker queues by topic, workers dispatch |
| Subscriptions (`message_bus.h`, `topic_slot.h`) | copy-on-write map of slots, copy-on-write list per slot, `sub_to_topic_`, `next_id_` | `subscribe`, `unsubscribe`, `getOrCreateSlot`, `dispatchMessage` | dispatchers read snapshots without locks; handlers call back into the bus |
| Wildcard trie (`wildcard_trie.h`) | immutable snapshots | `insert`, `remove`, `match` | written by subscribe/unsubscribe, read by dispatchers |
| Topic matcher (`topic_matcher.h`) | none | `topicMatches`, `isWildcard`, `isValidTopic` | `isWildcard` decides which index `subscribe` uses |
| Coroutines (`message_bus.h`) | shared state of one `co_await` | `await_suspend`, handler, `await_resume`, destructor | subscribes, is resumed on a dispatcher, unsubscribes |
| Topic registry (`topic_registry.h`) | topic text and id maps | `resolve`, `to_string` | called by publish, topic handles and subscribe |
| Messages and pool (`message.h`, `object_pool.h`) | reference counts, free lists, `on_drop` closure | `MessagePtr`, `acquire`, `release` | messages travel through the queues; the last pointer recycles |
| Topic handles (`message_bus.h`) | id, view of the topic, `cached_on_drop_` | `topic`, `TopicHandle::publish` | resolved once, then publish like `publish` |
| Logging (`src/log/log.cpp`, `log/log.hpp`) | registry of loggers, cached level and default logger; in spdlog each logger's levels and file | `init`, `set_level`, `get_level`, `should_log`, `log`, `flush` | independent of the bus; drives spdlog |

The rest (`include/livioark/comm`, build, tests, examples, the rest of the vendored
spdlog, magic_enum) keeps no state of its own, or is not LivioArk's code.

### What is hard

* Publishers and dispatchers meet in a lock-free ring; an operation that is half
  done makes others fail ("full", "empty") although the count says otherwise.
* Condition variables are notified without their mutex, and flags that say
  "sleeping" are read and written without a common lock.
* Under DropOldest a publisher dequeues from the queue that the dispatcher empties.
* `stop()` has to let the router drain into queues that workers still empty.
* Dispatch runs on snapshots while handlers and other threads change the
  subscriptions, from inside the dispatch too.
* A coroutine is resumed by a dispatcher while the thread that suspended it is
  still inside `subscribe`.
* A handler publishes on the bus whose dispatcher it occupies.
* Message objects are recycled while their last readers are still leaving, and
  carry callback, topic view and data from one use to the next.
* `log` reads a cached level, a cached logger and that logger's level one after
  the other, without the mutex under which `init` and `set_level` change them one
  after the other.

`PROJECT.json`, "hazards", lists each of these at its line, with the properties
that watch it.

### What makes it correct

* Queue: no two threads in one cell; first in, first out; a call returns once no other
  thread wins compare-exchanges, wherever the others have stopped.
* Publishing: every message is in one place, and reported, refused or dropped
  accordingly; dispatch keeps publishing order; what was reported is dispatched;
  `publish` returns, and `stop` once publishers pause.
* Several dispatchers: one topic, one order; nothing lost at `stop`.
* Subscriptions: a subscription is in force from the return of `subscribe` until
  `unsubscribe`; a dispatch calls exactly the handlers it should, once each.
* Trie and matcher: exactly the patterns that match, by the definition on levels.
* Coroutine: resumed once, with the message that resumed it; unsubscribed at the end.
* Registry: one id per topic, for ever.
* Messages: the count is the number of pointers; each object is recycled once or
  leaks nowhere; handlers and drop callbacks see what was published.
* Logging: level, logger and cache agree; a line is filtered only if its level was
  too low; `flush` reaches what was logged; the files keep the youngest lines and pass
  their limit only by a line that is alone.

## 2. Modules

```
FifoQueue <--implements-- LockFreeQueue <-- LockFreeQueueProofs
    ^ instance
BusCore <-- MessageBus    <-- MCMessageBus       one dispatcher
   |    <-- MultiDispatch <-- MCMultiDispatch    router and workers
   both         <-- MessageBusProofs
Subscriptions <-- MCSubscriptions                subscribe, unsubscribe, dispatch
              <-- SubscriptionsProofs
AsyncWait     <-- AsyncWaitProofs                co_await
TopicLevels                                      which topics a pattern matches
    ^ instance
WildcardTrie  <-- WildcardTrieProofs             patterns as a tree of levels
TopicMatching <-- TopicMatchingProofs            patterns as text
    both      <-- Matchers <-- MCMatchers        the two side by side
TopicRegistry                                    topics and ids
    ^ extends         ^ extends
MessagePool   <-- MessagePoolProofs              publish, handles, pointers, pool
    |         <-- MCMessagePool
    +--implements--> MessageFlow                 a message is a value
Logging       <-- MCLogging                      loggers, levels, files
              <-- LoggingProofs
```

**FifoQueue** is what the queue promises: a bounded sequence of items in which an
enqueue first takes its place and later fills it, and a dequeue first takes the
head and later releases its cell. An enqueue may be refused while the item one
lap earlier is not released, a dequeue while the head is not filled. This is
weaker than a queue with atomic operations and is all that the ring gives; two
of the departures described below come from the difference.

**LockFreeQueue** has one action per access to shared memory (load of a
position, load of a sequence, compare-and-swap, access to the data, store of the
sequence). `ImplementsFifo` maps it to FifoQueue: items are the tickets between
the two positions, filled when their sequence says so.

**BusCore** is what both modes of `MessageBus` share; the main queue is an
instance of FifoQueue, so publishers and the dispatcher overlap inside it. One
action is one step of a thread between two shared accesses: taking a mutex,
evaluating a predicate, blocking, notifying. The policy is a variable that the
initial state chooses and nothing changes. The dispatcher may itself be a
publisher: its handlers then call `publish` (`MayPublish`) and it goes on with its
loop when they are done. What `stop` promises is the same in both modes (`StopDrains`,
`StopReturns`). **MessageBus** and
**MultiDispatch** complete it with the dispatcher's or the router's handling of
a message, the workers, and what `start` and `stop` do. Worker queues have one
producer and one consumer and are plain sequences: a half-done operation there
only makes the other side try again.

**Subscriptions** runs the steps of `subscribe` and `unsubscribe` against those
of `dispatchMessage`. What happens under a mutex and ends in one atomic store is
one step; a wildcard removal is two, because the slot loses its subscriber
before the trie is published. The trie is here the set of its entries.

**AsyncWait** is one `co_await` with the thread that owns the coroutine and the
dispatchers, at the same grain; the subscription is reduced to the two places
that hold it, the slot and `sub_to_topic_`.

**WildcardTrie** is the trie as a set of paths with entries, changed by `insert`
and `remove`; `Match` is the walk of `matchNode`, a recursive function of the node
and the level. **TopicMatching** has
the functions on text, character by character, since their claim is about
characters; their loops are recursive functions of the positions. Both are compared with **TopicLevels**, the definition of matching
by levels that the comments give. **Matchers** puts them side by side: a trie whose levels
are texts, the patterns and topics as text besides, and what each of the two finds
(`MatchersAgree`).

**TopicRegistry** has one step per critical section of `resolve`: the look-up under
the shared lock, and the second look with the registration under the exclusive
one. A view of a stored text is the text, since keys of `map_` are never moved.

**MessagePool** extends it: publishers resolve topics, make topic handles, acquire
message objects and put pointers to them in the queue; dispatchers and, under
DropOldest, publishers take them out; every release of a pointer counts down, and
the last one gives the object back to the pool or deletes it. `publish_mutex_` is
released at the return of `enqueueMessage` (`UnlockPublish`), before the publisher's own
pointer: by then dispatcher or the next publisher may have dequeued and dropped the
object, and any of the three may be the last to let it go. An object holds the
id, view, data and callback of its present or last use. `ImplementsFlow` maps it to
**MessageFlow**, in which a message is a value and no object exists: what a
queued message means there is what a reader of the object would find now (the
exact subscriptions of its id, the wildcard subscriptions of its view, its data
and callback), so that an object recycled too early or carrying something of its
former use is a step that MessageFlow does not have. Queue and free list are
atomic here, blocking is a wait that may end at any time, and data are of one type
(a pool is per type).

**Logging** splits `init`, `set_level`, `flush` and `log` at each access that another
thread can come between. A logger is a record of its two levels and its file:
`Rotated`, `SinkIt` and `OpenedBy` are spdlog's rotating file sink, which decides
what is lost and what is kept. A file is a record of its lines and its size. A line has any
size of the set `Sizes`, longer ones than the limit included, and so has each file that
an earlier run left; what a line says is its number, negative for one of those files.
`in_force`, `seen`, `written`, `owed` and `flushed` are history.

Each module has its type invariant, `TypeOK`. In `MultiDispatch` (`MultiTypeOK`),
`Subscriptions`, `MessagePool` and `Logging` it is the first conjunct of the invariant
that relates the same variables (`NothingLost`, `InForce`, `NothingLeaks`,
`LevelsAgree`).

Every module marks the variables that only record history (such as `reported`,
`ahead`, `owed`, `expected`, `gone`) apart from those of the code. Definitions headed
"Mutant" are deliberate faults, one per property; `PROJECT.json` says which
definition each replaces to show that the property can fail.

## 3. Runs

Bounds are model-checking bounds. No safety property depends on them: the proofs of
section 4 hold for all of them. Of the liveness properties, those that would need them
name what they need instead. The ring is lock-free and not wait-free, so `CallsReturn` has
the hypothesis that at some time no other thread wins compare-exchanges any more
(`OthersStop`); `stop` drains as long as it finds messages, and all policies but Block
still accept them then, so `StopReturns` has the hypothesis that at some time no
`publish` begins any more (`PublishersPause`). Under the bounds of their runs both
hypotheses are true of every behaviour, and without bounds they are what makes the
properties true. `Delivery` says of the messages of a whole behaviour that from some time
on they all are dispatched or dropped, which presupposes that there are finitely many.
`PublishReturns`, `DispatchReturns` and `Completes` rest on the fairness of the mutexes and
timeouts below and not on the number of calls: a publisher under DropOldest holds the
mutex that keeps others from enqueuing, a dispatch is as long as the lists it loaded, and
a `co_await` is completed by one handler call. The retry loops inside the ring are the one
thing they take from elsewhere: FifoQueue's operations have none, so that `try_enqueue` and
`try_dequeue` return there as `CallsReturn` says they do once nobody else wins.

| Run | Shows | Bounds |
|---|---|---|
| queue | exclusion, the invariant, refinement of FifoQueue, calls return once others stop | 3 threads, 2 cells, 2 values, 3 enqueues: over a lap |
| bus_policies | under each policy: no message lost, doubled, or both refused and queued; dispatch in publishing order | 2 publishers of 2 messages, queue of 2, 2 starts: more messages than the queue holds, so that it is full while the dispatcher is inside it |
| bus_progress | under each policy: delivery, draining, `stop` returns once publishers pause; under all but Block `publish` returns | 1 publisher of 3 messages; handlers of the dispatcher publish once under DropOldest and BlockTimeout; queue of 2; 2 starts; a dispatcher that sleeps when it polled in vain |
| multi | order per topic, nothing lost between the queues, nothing left by `stop` but what a publication under way leaves, `stop` returns once publishers pause | router, 2 workers, 1 publisher of 4 messages, 3 of them for one worker with a queue of 2, so that the router waits for room; 2 starts |
| subs | subscriptions in force, dispatches complete, no late call, nothing left, no deadlock of handlers with the bus's locks | 2 callers, 1 dispatcher with 2 dispatches, 2 ids, 2 types, a topic and a pattern that matches it |
| async | one resumption, right result, completion, unsubscription on destruction | 2 dispatchers, 3 messages |
| matchers | the trie finds exactly what it should, and what `topicMatches` finds on the texts; pruning is complete and no more | patterns and topics of up to 3 levels, wildcards in topics too, 2 names (`a` and `ab`: one begins the other), 2 types, 2 entries |
| messages | reference counts, recycling, one id per topic, messages are values | 2 publishers of 2 messages to 2 topics with a handle each, 1 dispatcher, queue of 2, 4 objects, pool of 1: objects are reused with another topic and without their callback, and the pool overflows |
| log | levels, logger and cache agree; filtering, flushing; the files keep the youngest lines, and only a lone line passes the limit | 2 threads, 1 module, 2 levels, 2 loggers, a console only before `init`, then a file with or without `truncate`; 2 lines of size 1 or 3 with a limit of 2, 1 older name, up to 2 files of size 1 or 3 left by an earlier run: a line that does not fit, a line longer than the limit and a restart rotate |

Three threads and a ring of two cells give every kind of overlap the ring has:
same position, one lap apart, half-done on either side. The thresholds before a
dispatcher sleeps (64 spins, 256 yields) are the constant `IdleLimit`, 0
here, since the number of empty polls changes nothing else. `CHECK_DEADLOCK` is
off in the runs whose bounds on publications, starts, ids, messages or lengths
run out; in `queue` every thread can always make another call and deadlock is
checked. Interchangeable publishers, objects or threads are symmetry sets in
`bus_policies`, `messages` and `log`, whose properties are invariants and
properties of single steps; no run with liveness uses symmetry.

Two values are smaller than one would like. Handlers publish once, and only under
the policies that can make them wait; under the others a handler's `publish` is one
more step of the same code. `log` has two loggers, enough for the default logger to be
replaced while a line is on its way through it, or for a default logger and a module's;
`LoneFile` speaks of its states with one file logger, where it is true (see below). The
proofs of section 4 cover any number of either.

### Where the code departs from what it says

Three runs are expected to fail; each checks one sentence of the repository.

| Run | The code |
|---|---|
| bus_block_wakeup | under Block a publisher misses the notification of room, or of `stop`, and waits for ever: `cv_not_full_` is notified without its mutex |
| async_finished | a message that comes before `sub_id` is assigned leaves the subscription behind for ever |
| topic_valid | `isValidTopic` refuses a `/` after `*` (topic_matcher.h:71) and thereby `sensor/*/temp`, the example of its own file (line 9) and of wildcard_trie.h:31 |

Reading the code for the model showed more of the kind, which no run pins down:

* A handler starts after `unsubscribe` of it has returned, when its dispatch had
  loaded the list of subscribers before (topic_slot.h:74) or when a second
  `unsubscribe` of the id returns before the first has removed anything;
  message_bus.h:265 promises that "subsequent dispatches" do not call it, which
  `NoLateCall` checks of the dispatches that begin after the removal.
* A notified dispatcher goes back to sleep, since the predicate of
  `cv_.wait_for` looks only at `running_` (message_bus.h:705): the message waits
  for the 1 ms timeout. `Delivery` holds thanks to that timeout; its mutant is
  the wait without one.
* Under Block `publish` returns false once the bus is stopped (line 610),
  although line 171 names only ReturnFalse and BlockTimeout.
* Under DropOldest one `publish` evicts more than one message while the
  dispatcher is half-way through a dequeue, since the cell that is needed is not
  yet released (lines 583-589).
* `stop` returns with reported messages in the queue when another publisher is
  between taking a cell and filling it: the drain ends at the first dequeue that
  fails (line 714). `StopDrains` allows exactly this, and what is behind such a message.
* Only Block looks at `running_` before it accepts a message: under the other policies
  publishers that go on, or handlers that publish for each message they get, can keep the
  drain of `stop` (lines 714 and 762) going for ever. `StopReturns` assumes they pause.
* A handler that publishes under Block into a full queue waits for its own
  dispatcher, and is released by `stop` at the earliest (if it does not miss the
  notification). With several dispatchers the router can spin on a full worker
  queue (line 772) while that worker's handler waits for room that only the
  router makes.
* Under DropOldest `notify_drop` runs with `publish_mutex_` held (line 591): a drop
  callback that publishes on the same bus locks it again.
* A topic published with `*` or `#` as a level meets the wildcard children twice,
  as literal level and as wildcard: an entry may be called twice for it.
  `MatchesExactly` asks for uniqueness of topics without wildcards only, and `MatchersAgree`
  for agreement on them.
* A dispatcher that has the handler in hand resumes a coroutine that its owner
  has destroyed meanwhile (line 332).
* `topicMatches("*//#", "a")` holds: after `*` the slash is skipped even where
  the topic has ended. `MatchesNamedLevels` excludes patterns with empty levels
  for this reason.
* `subscribe("a#", ...)` is accepted, since only the position of `#` in the text
  is checked (line 237).
* Each logger with a `file_path` opens a rotating sink of its own on the same path
  (log.cpp:63), as `examples/log_example.cpp` does with its modules: each counts
  only its own lines, so the file passes `max_file_size`, and after one rotates the
  others write on in the file that now has the older name. `LoneFile` is about one.
* `truncate`, "whether to truncate the file" (log.hpp:35), is handed to spdlog as
  `rotate_on_open` (log.cpp:64): the old lines are kept under the next name, unless
  `max_files` is 0. `LoneFile` asks neither for them nor for their absence then.
* A line longer than `max_file_size` is written whole, into a file of its own, and a file
  that an earlier run left too long stays as long (rotating_file_sink-inl.h:116-123):
  `LoneFile` allows just these two.
* A replaced default logger that a thread still holds in `log` is not reached by
  `flush` (line 182); its lines leave the buffer when that thread lets it go.
* `set_level` of the default also changes the level that modules created later
  start with (line 140), not that of those created before.

### Fairness

A thread inside the bus is scheduled (weak fairness of its steps), since these
are threads of the operating system. A mutex that is released again and again is
not withheld from one thread for ever (strong fairness of taking it). A timeout
expires, however often its waiter is woken in between (strong fairness of
`WaitTimeout`): the deadline of `wait_until` is absolute. Handlers end. Nothing is
assumed of the environment: nobody has to
publish, start, stop or destroy, no spurious wake-up has to happen and no waiter
is owed a notification; this is why `BlockReturns` fails and `PublishReturns`, the
same of the other policies, holds. `multi` schedules no publisher: `stop` returns even
if they stall inside the queue, though not if they publish for ever. `queue` assumes that only the thread in
question (`Runner`) is scheduled, and that a compare-exchange which can succeed
does not fail for ever; the others may stop anywhere, and `OthersStop` says that they
do, or at least move the positions no more.

## 4. Proofs

TLAPS checks the theorems below for every value of the constants: any numbers of
threads, topics, messages, capacities, policies, operations; the bounds of section 3
(`MaxPublishes`, `MaxIds`, ...) are arbitrary naturals there. The only assumptions are
the named ASSUMEs of the modules, all on constants: marks such as `NoThread`,
`NoMessage`, `NoHandle` or `Default` are no members of the sets they mark the absence from,
capacities and bounds are naturals (the ring at least two), tables have their types, and
Subscriptions has a topic and a type. Every proof follows one plan: an inductive
invariant with named parts, one lemma for each action or group of actions, with one step
per part, and the checked property as a consequence of the invariant.

| Module | Invariant | Properties it proves |
|---|---|---|
| LockFreeQueueProofs | `Inv` | `TypeOK`, `ExclusiveCells`, `ImplementsFifo` |
| MessageBusProofs, of MessageBus | `BusInv` | `TypeOK`, `Conservation`, `DispatchOrder`, `StopDrains` |
| MessageBusProofs, of MultiDispatch | `RouteInv` | `NothingLost`, `TopicOrder`, `StopDrains` |
| SubscriptionsProofs | `SubsInv` | `InForce`, `NothingLeft`, `Complete`, `NoLateCall` |
| AsyncWaitProofs | `WaitInv`, `SubscriptionInv` | `TypeOK`, `FiresOnce`, `ReturnsWinner`, `DestroyedLeavesNothing` |
| MessagePoolProofs | `RegistryInv`, `RequestInv`, `MemoryInv`, `FlowInv` | `OneIdPerTopic`, `StableIds`, `CountsPointers`, `NothingLeaks`, `ImplementsFlow` |
| WildcardTrieProofs | `TrieInv` | `TypeOK`, `NoDeadNodes`, `MatchesExactly` |
| TopicMatchingProofs | `TextsInv` | `MatchesNamedLevels`, `ValidTopics` |
| LoggingProofs | `LogInv`, `FilesInv` | `LevelsAgree`, `LevelDecides`, `FlushReaches`, `LoneFile` |

**The ring.** `ExclusiveCells` is not inductive: that a cell has one user follows from
how its sequence stands to the two positions. `Inv` says this. The tickets from
`dequeue_pos` to `enqueue_pos` are less than a lap apart (`TicketWindow`); the cell of
each such ticket has sequence n or n + 1, and n only while a producer with that ticket
is writing (`LiveCells`); every other cell has the sequence of its next ticket, or of
the last one while its consumer is reading (`FreeCells`); tickets threads hold are past
(`PastTickets`), unique (`OneHolder`) and in the state their program counter says
(`WriterState`, `ReaderState`), and a ticket a thread has only read may be stale
(`StaleTickets`). The arithmetic it needs, that tickets less than a lap apart have
different cells, is in the lemmas `ShortMultiple`, `SameSlot` and `SlotWrap`.
`Refinement` (`Spec => ImplementsFifo`) maps each step to one of FifoQueue or a stutter:
a compare-exchange takes the place or the head, the store of a sequence fills or
releases it, a load that finds the ring full or empty is the refusal, and the accesses
to the data stutter. It rests on lemmas about how the abstract sequence of items changes
at either end.

**The bus.** The first part of `MessageBusProofs` states what both modes share, without
knowing who handles the messages. `CoreInv` says what a thread has in hand at each step (`Callers`), that an
unfinished item carries the message of the call that writes it (`Writers`), that a
message is in the queue once, taken once and in one place (`QueuedOnce`, `TakenOnce`,
`OnePlace`), that it gets a place only while its `publish` is under way and a result
once (`Numbered`), that nothing waits behind a message published after it was reported
(`InOrder`), which steps a policy has and what its mutex serialises (`Policed`), and how
`start`, `stop` and the loop's steps stand to each other (`Controlled`). `Flow` says
what a step may do to the places of messages, so that a mode proves its own part against
`Flow` instead of against each action. The second part adds the dispatcher, and the
third, for router and workers, that a message taken from the main queue and not yet
delivered is with the router, in the queue of its topic's worker or with that worker
(`Accounted`, `WorkerOrder`), that of one publisher's messages those nearer to the
handlers were published earlier (`StageOrder`), and how the workers' loops stand to
`start`, `stop` and the router's drain (`WorkerControl`). `TopicOrder` needs all of
these: order holds because a topic has one worker and each of its stages is a queue.

**Subscriptions.** `SubsInv` says where a subscription is at each step of the call that
registers or removes it: `SubOf` for its slot or entry and `sub_to_topic_`, `CallOf` for
what each thread holds, `CallsApart` for calls that never work on the same subscription
twice, `SlotsApart` for slots, and `DispatchOf` for each dispatch: whom it has called,
and that every subscriber in force since its beginning has been called or is in the list
it has loaded. Dispatchers are helped along by a frame argument: a step of a caller
keeps `DispatchOf` if the slots' lists only grow by what is newly subscribed and lose
only what is being cancelled. The loop of `removeSubscriber` is the recursive function
`Without`; that its result has the subscribers but the removed one, each once, is proved
by the least number of copied subscribers at which it would fail (`Least`).

**The trie.** `TrieInv` says that the nodes are a tree, that a node's entries are the
live ones of its pattern, each once (`EntriesAt`), that entries are at nodes, and that
every node leads to an entry, which is `NoDeadNodes`. For `remove` it has to be shown
that the nodes it prunes had nothing but the removed entry on or below them
(`NothingBelow`) and that those it leaves still lead to one. What `match` finds is not a
matter of steps but of the walk: `WalkDefined` shows that its recursion defines a
function, since each call is one level deeper; `WalkFinds`, by the least number of levels
left for which it would fail, that from a node the walk finds the entries at and below it
whose remaining pattern matches the remaining topic. That this is one step of the
definition by levels is in `MatchesFromStep`, and what the loop over a node's entries
collects for a type in `OfTypeIs`. `MatchesExactly` then follows from `EntriesAt`: an
entry is found once because it is at one node once, and the walk comes to a node once
where the topic has no wildcard as a level.

**The matcher.** The two functions are about text, so the invariant only says that
pattern and topic are texts (`TextsInv`); everything else is about what the recursive
functions compute, which is shown for texts of any length over any letters.
`topicMatches` walks characters, the definition splits at `/` first. `Level` and `After`
are what is left of a level from a position on and the levels behind it; they change in a
known way from a character to the next (`LevelGoesOn`, `LevelOver`). `LevelsRight` says
that from two positions the walk finds what the levels there say, `LiteralRight` that
inside a level without wildcards it also needs the rest of the level to be the same.
`LiteralStep` and `LevelsStep` derive each at a position from both at later ones, and
`RightEverywhere` concludes by the least number of characters left. The hypothesis of
`MatchesNamedLevels` that no level of the pattern is empty is needed where the
topic has ended: `topicMatches` accepts a pattern that goes on with `/#` there, even if
an empty level of the pattern comes first. `ValidIs` has two halves that meet in the middle:
`AcceptedExactly`, that `isValidTopic`, whose two flags at a position are determined by
the character before it, accepts just the texts whose wildcards start a level and are the
last character (`WildcardLast`), and `GoodExactly`, level by level, that these are the
well-formed texts with no `*` before their end. `ValidTopics` is what follows of that for
topics and patterns; that it is not all well-formed patterns is the run `topic_valid`.

**Coroutines.** `WaitInv` says which one of the handler calls has passed the guard and
how far it is: before the guard is set nobody has written the result or resumed, after
it one dispatcher carries its message through `WriteResult` and `Resume`, and only a
resumed coroutine reads. `SubscriptionInv` follows the subscription through `subscribe`,
the assignment of `sub_id` and the destructor (`Owned`): while the coroutine is
suspended it is in force and, from the assignment on, under the id in `sub_id`, which is
what the destructor needs to remove it. `DestroyedLeavesNothing` is about coroutines
whose id was known when they were destroyed; the run `async_finished` shows the others.

**Topics, messages and their memory.** `OneIdPerTopic` alone is not inductive: a new id
could be one in use. `RegistryInv` adds that ids in use are below `next_id`; the second
look of `resolve` is what `RegisterInv` rests on. `UsesTheRegistry` (`Spec =>
RegistrySpec`) shows that every step of MessagePool is one of the registry or leaves it
alone, from the invariant `RequestInv` that who calls `resolve` has a topic for it; the
registry's properties follow for MessagePool. `MemoryInv` counts: which pointers a
thread has at each step (`PointersAt`), that one publisher at a time is between taking
`publish_mutex_` and its release (`OnePublishes`), while any number may be past it with
their own pointers, that an object without references is one thread's
(`OneBare`), that `ref_count` is the number of pointers in the queue and in hands
(`Counts`), that nothing is in the free list twice, and that an object is allocated
while it is either in the pool or pointed to (`Somewhere`).

`ImplementsFlowHolds` (`Spec => ImplementsFlow`) rests on `MemoryInv` and on `FlowInv`,
the invariant of the objects' fields. A pointer is live while a publisher fills in or
enqueues the message or somebody reads it (`Live`); no object is in two live places, the
queue included (`Apart`), although it may be pointed to by others that only have to
release it. `RequestOf` and `HandleOf` say that the id a publisher or a handle has is in
use and is its topic's, `ContentOf` that what a publisher has filled in is what it was
asked to publish, with no callback of a former use, and `QueueCarries` that queued
messages are well formed. The value of a message then stays the same until it is dropped
or handled (`KeepsValue`, for which ids have to be stable): each step is one of
MessageFlow, or one that it does not see, since what it writes is in no live place
(`BodiesSame`).

**Logging.** `LogInv` keeps the registry's agreement while a section is under way
(`Locked`, `Agreement`), and for `log`, which reads the cached level, the cached logger
and its level without the mutex, that each of these is in force when read (`Enforced`)
and that what the thread has read was in force during the call (`Judged`). `Lines` says
that the numbers of lines are fresh and each is in one buffer, `Reached` that what
`flush` has yet to write is in no buffer but those it still visits. `FlushReaches` is
thereby about all loggers that the registry reaches, whoever holds them meanwhile.

`FilesInv` is about what the rotating sink leaves on disk. The names in use are the
youngest, each of a file of its own (`Chained`), and if a logger has a file the youngest
name is in use. As long as at most one logger has a file (`Alone`), that logger writes to
the file of the youngest name and its counter is that file's size, and what the files
hold, the oldest first, is an end of what was written, all of it until the oldest
name is in use; a file longer than the limit has one line (`Keeps`, `Fits`). The second logger's sink breaks this, which
is why `LoneFile` asks for one. What all files hold together is the recursive function in
`Kept`; `KeptShifted`, `KeptGrown` and `KeptSame` say what becomes of it when a rotation
moves every file to the next name, when a line is added to the youngest, and when a file
is reopened. Every step of the module either leaves files and loggers' files alone, makes
a logger, or sinks a line (`FilesStep`).

### What is only model-checked

* Liveness: `CallsReturn`, `PublishReturns`, `Delivery`, `StopReturns`,
  `DispatchReturns`, `Completes` and the like need fairness and ENABLED, which the prover
  does not have.
* `MatchersAgree`, which joins what `MatchesExactlyHolds` proves of the trie and
  `MatchesNamedLevelsHolds` of `topicMatches` to patterns whose text is cut into levels.

Every other invariant and every step property that a passing run checks is a theorem as
well. `MatchesNamedLevels` and `ValidTopics`, of `topicMatches` and `isValidTopic` on texts
of any length, have a proof and no run.

## 5. Not modelled

* Weak memory: accesses are sequentially consistent. The code's acquire and
  release orders are taken to suffice; the cached level of logging is relaxed, so
  that a thread may go on with an old level somewhat longer than the model shows.
* Wrap-around of 64-bit positions and 32-bit topic ids.
* The constructor's rounding of the capacity to a power of two: capacities are
  taken as rounded.
* Calls of `start` and `stop` by several threads or by handlers: they end in undefined
  behaviour (a vector that one thread clears while another appends) or in the
  exception of a thread that joins itself. `on_drop` callbacks that publish, and
  handlers of workers that publish: described above; the instances that show them
  need more messages than the other properties of MultiDispatch leave room for.
* Exceptions of `subscribe` other than a type mismatch (an invalid pattern only
  costs an id); failures of memory and of the file system.
* Logging: formatting, patterns, the console sink, the macros that filter at compile
  time or count calls.
* `comm/`: macros, a scope guard, a singleton template, enum and error helpers; no
  state that two threads share beyond a function's static variable.
* Vendored code: spdlog with its copy of fmt, and magic_enum, some 30,000 of the 33,700
  lines of the tree. They format text and reflect enums at compile time. Of
  spdlog `Logging` models what `log.cpp` calls and what decides whether a line
  is kept; modelling the rest would say nothing about LivioArk.

## 6. Plan

Done: the queue, publishing with handlers that publish, both dispatching modes,
subscriptions, the trie, the matcher, coroutines, the topic registry, messages and
their pool, topic handles, logging; proofs of every safety property the runs check, and
of two refinements: LockFreeQueue implements FifoQueue, and MessagePool implements
MessageFlow.

What could follow: Subscriptions on the real trie, the set of entries there as a
refinement of `WildcardTrie`; handlers of workers that publish, if the state space
of MultiDispatch is cut by a coarser publisher.

Next theorems: the same refinement of `WildcardTrie` by Subscriptions, `MatchersAgree`, and
`MessageBus` and `MultiDispatch` on `LockFreeQueue` in the place of `FifoQueue`, which
`ImplementsFlow`'s plan and the ring's `Refinement` prepare.
