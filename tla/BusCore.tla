------------------------------- MODULE BusCore -------------------------------
(***************************************************************************)
(* The half of MessageBus (message_bus.h) that both dispatching modes      *)
(* share: publishers in enqueueMessage under any of the five policies for  *)
(* a full queue, the thread that takes messages off the main queue (the    *)
(* dispatcher, or the router when there are workers), and the caller of    *)
(* start() and stop().  What the main thread does with a message, and what *)
(* stop() waits for, is left to MessageBus and MultiDispatch.              *)
(*                                                                         *)
(* The main queue is FifoQueue, which LockFreeQueue implements: calls of   *)
(* several threads overlap inside it.  Where the standard library may      *)
(* choose (the waiter notify_one wakes, a spurious wake-up, the moment a   *)
(* timeout expires) any choice is a step.                                  *)
(***************************************************************************)
EXTENDS Integers, Sequences, FiniteSets

CONSTANTS Publishers,   \* threads that call publish(), the dispatcher if handlers do
          Dispatcher,   \* dispatchers_[0]
          Policies,     \* the policies it may be constructed with
          Capacity,     \* the main queue's capacity_
          NoThread, NoValue,
          IdleLimit,    \* kYieldThreshold: empty polls before it sleeps
          MaxPublishes, \* bound: publish() calls of each publisher
          HandlerCalls, \* bound: those of handlers, under each policy
          MaxStarts     \* bound: start() calls

FullPolicy == {"ReturnFalse", "DropOldest", "DropNewest", "Block", "BlockTimeout"}

ASSUME PolicyAssumption == Policies \subseteq FullPolicy
ASSUME ThreadsAssumption == NoThread \notin Publishers \cup {Dispatcher}
ASSUME BusCapacityAssumption == Capacity \in Nat /\ Capacity >= 2
ASSUME BoundsAssumption == /\ IdleLimit \in Nat /\ MaxPublishes \in Nat /\ MaxStarts \in Nat
                           /\ HandlerCalls \in [Policies -> 0..MaxPublishes]

(* A message is known by its publisher and its number there.  *)
Messages == Publishers \X (1..MaxPublishes)
Threads == Publishers \cup {Dispatcher}

ASSUME NoMessageAssumption == NoValue \notin Messages

VARIABLES
  policy,            \* policy_, set by the constructor
  items, call, hand, taken, ticket,  \* queue_
  ppc,               \* where each publisher is in publish()
  count,             \* publish() calls it has begun
  timed_out,         \* publishers whose wait_until has reached its deadline
  cv_not_full_mutex, \* the publisher that holds cv_not_full_mutex_
  publish_mutex,     \* the publisher that holds publish_mutex_
  dpc,               \* where the main thread is in its loop
  dispatcher_sleeping, idle,
  draining,          \* the main thread has left its first loop
  msg,               \* the message it holds
  running,
  cpc,               \* where the caller of start() and stop() is
  starts,            \* start() calls so far
  reported, refused, \* messages whose publish() returned true, false
  dropped,           \* messages handed to notify_drop
  owed,              \* messages reported before the last stop() began
  ahead,             \* for each message, those reported before its publish() was
                     \* called and not yet taken from the queue
  delivered          \* messages given to dispatchMessage, on whatever thread

Q == INSTANCE FifoQueue WITH Values <- Messages

queueVars == <<items, call, hand, taken, ticket>>
publisherVars == <<ppc, count, timed_out, cv_not_full_mutex, publish_mutex>>
mainVars == <<dpc, dispatcher_sleeping, idle, draining, msg>>
controlVars == <<policy, running, cpc, starts, owed>>
historyVars == <<reported, refused, dropped, ahead>>

(* What the actions below are about.  delivered is left to the two modes. *)
coreVars == <<queueVars, publisherVars, mainVars, controlVars, historyVars>>

(* What a step leaves alone: of the queue alone, of a publisher (and the    *)
(* mutex it waits with), of the main thread.                                *)
besidesQueue == <<publisherVars, mainVars, controlVars, historyVars>>
besidesWait == <<count, timed_out, publish_mutex, mainVars, controlVars, historyVars>>
besidesStep == <<cv_not_full_mutex, besidesWait>>
besidesMain == <<queueVars, publisherVars, controlVars, historyVars>>

Waits == policy \in {"Block", "BlockTimeout"}

PublisherSteps == {"idle", "lock", "try", "evict", "wait_lock", "pred",
                   "block", "waiting", "wake"}
MainSteps == {"off", "loop", "dequeue", "notify", "handle", "fall_asleep",
              "check", "to_sleep", "asleep", "notified", "wake_up", "exited"}
ControlSteps == {"stopped", "starting", "spawn_workers", "started", "stop_notify",
                 "stop_notify_publishers", "join", "joined", "join_workers"}

CoreTypeOK ==
  /\ policy \in Policies
  /\ items \in Seq(Q!Items) /\ Len(items) <= Capacity
  /\ call \in [Threads -> Q!Calls]
  /\ hand \in [Threads -> Messages \cup {NoValue}]
  /\ taken \in Nat
  /\ ticket \in [Threads -> Nat]
  /\ ppc \in [Publishers -> PublisherSteps]
  /\ count \in [Publishers -> 0..MaxPublishes]
  /\ timed_out \subseteq Publishers
  /\ cv_not_full_mutex \in Publishers \cup {NoThread}
  /\ publish_mutex \in Publishers \cup {NoThread}
  /\ dpc \in MainSteps
  /\ dispatcher_sleeping \in BOOLEAN
  /\ idle \in 0..IdleLimit
  /\ draining \in BOOLEAN
  /\ msg \in Messages \cup {NoValue}
  /\ running \in BOOLEAN
  /\ cpc \in ControlSteps
  /\ starts \in 0..MaxStarts
  /\ reported \subseteq Messages
  /\ refused \subseteq Messages
  /\ dropped \subseteq Messages
  /\ owed \subseteq Messages
  /\ ahead \in [Messages -> SUBSET Messages]

CoreInit ==
  /\ policy \in Policies
  /\ Q!QueueInit
  /\ ppc = [p \in Publishers |-> "idle"]
  /\ count = [p \in Publishers |-> 0]
  /\ timed_out = {}
  /\ cv_not_full_mutex = NoThread
  /\ publish_mutex = NoThread
  /\ dpc = "off"
  /\ dispatcher_sleeping = FALSE
  /\ idle = 0
  /\ draining = FALSE
  /\ msg = NoValue
  /\ running = FALSE
  /\ cpc = "stopped"
  /\ starts = 0
  /\ reported = {}
  /\ refused = {}
  /\ dropped = {}
  /\ owed = {}
  /\ ahead = [m \in Messages |-> {}]

-----------------------------------------------------------------------------
(* publish() and enqueueMessage()                                          *)

(* Where a message on its way can be: in the queue, with a thread that is   *)
(* moving it out of its cell, with the main thread.                         *)
Queued == {items[k].val : k \in DOMAIN items}
Taken == {hand[t] : t \in {u \in Threads : call[u] = "releasing"}}
Held == IF msg = NoValue THEN {} ELSE {msg}

(* The message p is publishing: mptr. *)
Mptr(p) == <<p, count[p]>>

Goto(p, step) == ppc' = [ppc EXCEPT ![p] = step]

(* m leaves the queue and is ahead of nothing any more. *)
Pass(m) == ahead' = [n \in Messages |-> ahead[n] \ {m}]

(* publish() returns; a lock_guard or unique_lock it holds is released. *)
Return(p, result) ==
  /\ Goto(p, "idle")
  /\ timed_out' = timed_out \ {p}
  /\ cv_not_full_mutex' = IF cv_not_full_mutex = p THEN NoThread ELSE cv_not_full_mutex
  /\ publish_mutex' = IF publish_mutex = p THEN NoThread ELSE publish_mutex
  /\ reported' = IF result THEN reported \cup {Mptr(p)} ELSE reported
  /\ refused' = IF result THEN refused ELSE refused \cup {Mptr(p)}

(* The dispatcher publishes in the handlers it calls. *)
MayPublish(p) ==
  IF p = Dispatcher THEN dpc = "handle" /\ count[p] < HandlerCalls[policy]
                    ELSE count[p] < MaxPublishes

Publish(p) ==
  /\ ppc[p] = "idle"
  /\ MayPublish(p)
  /\ count' = [count EXCEPT ![p] = @ + 1]
  /\ ahead' = [ahead EXCEPT ![<<p, count[p] + 1>>] = reported \cap Queued]
  /\ Goto(p, IF policy = "DropOldest" THEN "lock" ELSE "try")
  /\ UNCHANGED <<queueVars, timed_out, cv_not_full_mutex, publish_mutex,
                 mainVars, controlVars, reported, refused, dropped>>

(* DropOldest: lock_guard on publish_mutex_ *)
LockPublish(p) ==
  /\ ppc[p] = "lock"
  /\ publish_mutex = NoThread
  /\ publish_mutex' = p
  /\ Goto(p, "try")
  /\ UNCHANGED <<queueVars, count, timed_out, cv_not_full_mutex, mainVars,
                 controlVars, historyVars>>

(* queue_.try_enqueue(mptr), at once or in the predicate of the wait *)
TryEnqueue(p) ==
  /\ \/ ppc[p] = "try"
     \/ ppc[p] = "pred" /\ running
  /\ Q!EnqInvoke(p, Mptr(p))
  /\ UNCHANGED besidesQueue

(* The queue gives mptr its place ... *)
Accept(p) ==
  /\ Q!EnqAccept(p)
  /\ UNCHANGED besidesQueue

(* ... and try_enqueue returns true.  A predicate that has become true      *)
(* ends the wait and its unique_lock.                                       *)
Commit(p) ==
  /\ Q!EnqCommit(p)
  /\ Goto(p, "wake")
  /\ cv_not_full_mutex' = IF cv_not_full_mutex = p THEN NoThread ELSE cv_not_full_mutex
  /\ UNCHANGED besidesWait

(* try_enqueue returns false: what happens next is the policy. *)
RejectReturnFalse(p) ==
  /\ policy = "ReturnFalse"
  /\ Q!EnqReject(p)
  /\ Return(p, FALSE)
  /\ UNCHANGED <<count, mainVars, controlVars, dropped, ahead>>

RejectDropNewest(p) ==
  /\ policy = "DropNewest"
  /\ Q!EnqReject(p)
  /\ dropped' = dropped \cup {Mptr(p)}
  /\ Return(p, TRUE)
  /\ UNCHANGED <<count, mainVars, controlVars, ahead>>

RejectDropOldest(p) ==
  /\ policy = "DropOldest"
  /\ Q!EnqReject(p)
  /\ Goto(p, "evict")
  /\ UNCHANGED besidesStep

RejectFirst(p) ==
  /\ Waits /\ ppc[p] = "try"
  /\ Q!EnqReject(p)
  /\ Goto(p, "wait_lock")
  /\ UNCHANGED besidesStep

(* DropOldest: try_dequeue(oldest); if it succeeds the message is dropped,  *)
(* if not the publisher yields; either way it tries to enqueue again.       *)
Evict(p) ==
  /\ ppc[p] = "evict"
  /\ Q!DeqInvoke(p)
  /\ UNCHANGED besidesQueue

EvictTake(p) ==
  /\ ppc[p] = "evict"
  /\ Q!DeqTake(p)
  /\ Pass(Head(items).val)
  /\ UNCHANGED <<publisherVars, mainVars, controlVars, reported, refused, dropped>>

(* Mutant: the oldest message goes without notify_drop. *)
EvictSilently(p) ==
  /\ ppc[p] = "evict"
  /\ Q!DeqRelease(p)
  /\ Goto(p, "try")
  /\ UNCHANGED <<count, timed_out, cv_not_full_mutex, publish_mutex, mainVars,
                 controlVars, reported, refused, dropped, ahead>>

EvictDrop(p) ==
  /\ ppc[p] = "evict"
  /\ Q!DeqRelease(p)
  /\ dropped' = dropped \cup {hand[p]}
  /\ Goto(p, "try")
  /\ UNCHANGED <<count, timed_out, cv_not_full_mutex, publish_mutex, mainVars,
                 controlVars, reported, refused, ahead>>

EvictNone(p) ==
  /\ ppc[p] = "evict"
  /\ Q!DeqReject(p)
  /\ Goto(p, "try")
  /\ UNCHANGED besidesStep

(* Block, BlockTimeout: cv_not_full_.wait / wait_until with the predicate   *)
LockNotFull(p) ==
  /\ ppc[p] = "wait_lock"
  /\ cv_not_full_mutex = NoThread
  /\ cv_not_full_mutex' = p
  /\ Goto(p, "pred")
  /\ UNCHANGED <<queueVars, besidesWait>>

(* The predicate is true because the bus has stopped; enqueued is false. *)
PredStopped(p) ==
  /\ ppc[p] = "pred" /\ call[p] = "idle"
  /\ ~running
  /\ Return(p, FALSE)
  /\ UNCHANGED <<queueVars, count, mainVars, controlVars, dropped, ahead>>

(* The predicate is false: the queue is still full. *)
PredFull(p) ==
  /\ ppc[p] = "pred" /\ p \notin timed_out
  /\ Q!EnqReject(p)
  /\ Goto(p, "block")
  /\ UNCHANGED besidesStep

(* It is false after the deadline too. *)
PredTimedOut(p) ==
  /\ ppc[p] = "pred" /\ p \in timed_out
  /\ Q!EnqReject(p)
  /\ Return(p, FALSE)
  /\ UNCHANGED <<count, mainVars, controlVars, dropped, ahead>>

(* The wait itself releases the mutex and blocks in one step. *)
BlockOnNotFull(p) ==
  /\ ppc[p] = "block"
  /\ cv_not_full_mutex' = NoThread
  /\ Goto(p, "waiting")
  /\ UNCHANGED <<queueVars, besidesWait>>

(* Mutant: wait in place of wait_until. *)
WaitNoTimeout(p) == FALSE /\ ppc[p] = "waiting"

WaitTimeout(p) ==
  /\ policy = "BlockTimeout" /\ ppc[p] = "waiting"
  /\ timed_out' = timed_out \cup {p}
  /\ Goto(p, "wait_lock")
  /\ UNCHANGED <<queueVars, count, cv_not_full_mutex, publish_mutex, mainVars,
                 controlVars, historyVars>>

SpuriousWakeup(p) ==
  /\ ppc[p] = "waiting"
  /\ Goto(p, "wait_lock")
  /\ UNCHANGED <<queueVars, besidesStep>>

(* wakeDispatcher(), then publish() returns true *)
WakeDispatcher(p) ==
  /\ ppc[p] = "wake"
  /\ dpc' = IF dispatcher_sleeping /\ dpc = "asleep" THEN "notified" ELSE dpc
  /\ Return(p, TRUE)
  /\ UNCHANGED <<queueVars, count, dispatcher_sleeping, idle, draining, msg,
                 controlVars, dropped, ahead>>

EnqueueMessage(p) ==
  \/ LockPublish(p)
  \/ TryEnqueue(p)
  \/ Accept(p)
  \/ Commit(p)
  \/ RejectReturnFalse(p)
  \/ RejectDropNewest(p)
  \/ RejectDropOldest(p)
  \/ RejectFirst(p)
  \/ Evict(p)
  \/ EvictTake(p)
  \/ EvictDrop(p)
  \/ EvictNone(p)
  \/ PredStopped(p)
  \/ PredFull(p)
  \/ PredTimedOut(p)
  \/ BlockOnNotFull(p)
  \/ WakeDispatcher(p)

-----------------------------------------------------------------------------
(* dispatchLoop() and routerLoop(): the part they have in common           *)

(* Mutant: running_ is not read again. *)
PollForever ==
  /\ dpc = "loop"
  /\ Q!DeqInvoke(Dispatcher)
  /\ dpc' = "dequeue"
  /\ UNCHANGED <<publisherVars, dispatcher_sleeping, idle, draining, msg,
                 controlVars, historyVars>>

(* Mutant: no draining loop. *)
PollNoDrain ==
  /\ dpc = "loop"
  /\ IF running THEN Q!DeqInvoke(Dispatcher) /\ dpc' = "dequeue"
                ELSE dpc' = "exited" /\ UNCHANGED queueVars
  /\ UNCHANGED <<publisherVars, dispatcher_sleeping, idle, draining, msg,
                 controlVars, historyVars>>

(* The loops' conditions: while (running_) first, then the draining loop.  *)
Poll ==
  /\ dpc = "loop"
  /\ draining' = (draining \/ ~running)
  /\ Q!DeqInvoke(Dispatcher)
  /\ dpc' = "dequeue"
  /\ UNCHANGED <<publisherVars, dispatcher_sleeping, idle, msg, controlVars, historyVars>>

MainTake ==
  /\ dpc = "dequeue"
  /\ Q!DeqTake(Dispatcher)
  /\ Pass(Head(items).val)
  /\ UNCHANGED <<publisherVars, mainVars, controlVars, reported, refused, dropped>>

(* mainDequeue returns true *)
MainRelease ==
  /\ dpc = "dequeue"
  /\ Q!DeqRelease(Dispatcher)
  /\ msg' = hand[Dispatcher]
  /\ idle' = IF draining THEN idle ELSE 0
  /\ dpc' = "notify"
  /\ UNCHANGED <<publisherVars, dispatcher_sleeping, draining, controlVars, historyVars>>

(* Mutant: one poll too many before it sleeps. *)
PollEmptyOneMore ==
  /\ dpc = "dequeue" /\ ~draining
  /\ Q!DeqReject(Dispatcher)
  /\ IF idle <= IdleLimit
     THEN idle' = idle + 1 /\ dpc' = "loop"
     ELSE idle' = idle /\ dpc' = "fall_asleep"
  /\ UNCHANGED <<publisherVars, dispatcher_sleeping, draining, msg, controlVars, historyVars>>

(* mainDequeue returns false in the first loop: spin, yield, then sleep *)
PollEmpty ==
  /\ dpc = "dequeue" /\ ~draining
  /\ Q!DeqReject(Dispatcher)
  /\ IF idle < IdleLimit
     THEN idle' = idle + 1 /\ dpc' = "loop"
     ELSE idle' = idle /\ dpc' = "fall_asleep"
  /\ UNCHANGED <<publisherVars, dispatcher_sleeping, draining, msg, controlVars, historyVars>>

(* mainDequeue returns false in the draining loop: the thread ends *)
DrainEmpty ==
  /\ dpc = "dequeue" /\ draining
  /\ Q!DeqReject(Dispatcher)
  /\ dpc' = "exited"
  /\ UNCHANGED <<publisherVars, dispatcher_sleeping, idle, draining, msg,
                 controlVars, historyVars>>

(* notifyNotFull(): notify_one, without holding cv_not_full_mutex_ *)
NotifyNotFull ==
  /\ dpc = "notify"
  /\ dpc' = "handle"
  /\ \/ /\ \E p \in Publishers : Waits /\ ppc[p] = "waiting" /\ Goto(p, "wait_lock")
     \/ /\ \A p \in Publishers : ~(Waits /\ ppc[p] = "waiting")
        /\ UNCHANGED ppc
  /\ UNCHANGED <<queueVars, count, timed_out, cv_not_full_mutex, publish_mutex,
                 dispatcher_sleeping, idle, draining, msg, controlVars, historyVars>>

SetAsleep ==
  /\ dpc = "fall_asleep"
  /\ dispatcher_sleeping' = TRUE
  /\ dpc' = "check"
  /\ UNCHANGED <<besidesMain, idle, draining, msg>>

(* The predicate of cv_.wait_for, on entry and after a notification *)
SleepPredicate ==
  /\ dpc \in {"check", "notified"}
  /\ dpc' = IF running THEN "to_sleep" ELSE "wake_up"
  /\ UNCHANGED <<besidesMain, dispatcher_sleeping, idle, draining, msg>>

FallAsleep ==
  /\ dpc = "to_sleep"
  /\ dpc' = "asleep"
  /\ UNCHANGED <<besidesMain, dispatcher_sleeping, idle, draining, msg>>

(* Mutant: wait in place of wait_for. *)
SleepNoTimeout == FALSE /\ dpc = "asleep"

(* One millisecond has passed. *)
SleepTimeout ==
  /\ dpc = "asleep"
  /\ dpc' = "wake_up"
  /\ UNCHANGED <<besidesMain, dispatcher_sleeping, idle, draining, msg>>

SetAwake ==
  /\ dpc = "wake_up"
  /\ dispatcher_sleeping' = FALSE
  /\ dpc' = "loop"
  /\ UNCHANGED <<besidesMain, idle, draining, msg>>

MainLoop ==
  \/ Poll
  \/ MainTake
  \/ MainRelease
  \/ PollEmpty
  \/ DrainEmpty
  \/ NotifyNotFull
  \/ SetAsleep
  \/ SleepPredicate
  \/ FallAsleep
  \/ SleepTimeout
  \/ SetAwake

(* The iteration that handles msg is over, and no handler is in publish():  *)
(* the MessagePtr goes.                                                     *)
MainNextMessage ==
  /\ dpc = "handle"
  /\ Dispatcher \in Publishers => ppc[Dispatcher] = "idle"
  /\ dpc' = "loop"
  /\ msg' = NoValue
  /\ UNCHANGED <<queueVars, publisherVars, dispatcher_sleeping, idle, draining,
                 controlVars, historyVars>>

-----------------------------------------------------------------------------
(* start() and stop(), called in turn by one thread                        *)

StartFlag ==
  /\ cpc = "stopped"
  /\ starts < MaxStarts
  /\ starts' = starts + 1
  /\ running' = TRUE
  /\ cpc' = "starting"
  /\ UNCHANGED <<queueVars, publisherVars, mainVars, policy, owed, historyVars>>

(* dispatchers_.emplace_back(&dispatchLoop) or (&routerLoop) *)
SpawnMain ==
  /\ cpc = "starting"
  /\ dpc = "off"
  /\ dpc' = "loop"
  /\ idle' = 0
  /\ draining' = FALSE
  /\ UNCHANGED <<queueVars, publisherVars, dispatcher_sleeping, msg, running,
                 starts, owed, policy, historyVars>>

StopFlag ==
  /\ cpc = "started"
  /\ running' = FALSE
  /\ owed' = reported
  /\ cpc' = "stop_notify"
  /\ UNCHANGED <<queueVars, publisherVars, mainVars, policy, starts, historyVars>>

(* cv_.notify_all() *)
StopNotify ==
  /\ cpc = "stop_notify"
  /\ dpc' = IF dpc = "asleep" THEN "notified" ELSE dpc
  /\ cpc' = "stop_notify_publishers"
  /\ UNCHANGED <<queueVars, publisherVars, dispatcher_sleeping, idle, draining,
                 msg, running, starts, owed, policy, historyVars>>

(* cv_not_full_.notify_all(), without holding cv_not_full_mutex_ *)
StopNotifyPublishers ==
  /\ cpc = "stop_notify_publishers"
  /\ ppc' = [p \in Publishers |-> IF ppc[p] = "waiting" THEN "wait_lock" ELSE ppc[p]]
  /\ cpc' = "join"
  /\ UNCHANGED <<queueVars, count, timed_out, cv_not_full_mutex, publish_mutex,
                 mainVars, policy, running, starts, owed, historyVars>>

JoinMain ==
  /\ cpc = "join"
  /\ dpc = "exited"
  /\ dpc' = "off"
  /\ cpc' = "joined"
  /\ UNCHANGED <<queueVars, publisherVars, dispatcher_sleeping, idle, draining,
                 msg, running, starts, owed, policy, historyVars>>

(* The end of stop(): dispatcher_sleeping_.store(false) *)
StopEnd ==
  /\ dispatcher_sleeping' = FALSE
  /\ cpc' = "stopped"
  /\ UNCHANGED <<queueVars, publisherVars, dpc, idle, draining, msg, running,
                 starts, owed, policy, historyVars>>

-----------------------------------------------------------------------------
(* What stop() promises in both modes                                      *)

(* After stop() what publish() had reported before it is dispatched or      *)
(* dropped: "Drain remaining messages" (line 712), and with workers "ensure *)
(* all routed messages are consumed" (line 102).  There is one exception:   *)
(* the drain ends at a message whose publish() is still under way, so that  *)
(* what is queued behind such a message stays.  What a publisher has        *)
(* evicted and not yet handed to notify_drop counts as gone.                *)
StopDrains ==
  cpc = "stopped" =>
    /\ owed \subseteq delivered \cup dropped \cup Taken \cup Queued
    /\ \A k \in DOMAIN items : items[k].val \in owed =>
         \E j \in 1..(k - 1) : items[j].val \notin owed

(* Publishers begin no publish() any more.  *)
PublishersPause == <>[][FALSE]_count

(* stop() returns once publishers pause: the dispatcher notices, drains the *)
(* queue and ends; with workers the router drains into queues that they     *)
(* still empty, and they end once it has, whatever publishers have left     *)
(* half-done.  While they go on it need not return: all policies but Block  *)
(* still accept when running_ is false, so that the draining loops (lines   *)
(* 714 and 762) may find a message each time.                               *)
StopReturns == PublishersPause => (cpc = "stop_notify" ~> cpc = "stopped")
===============================================================================
