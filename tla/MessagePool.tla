----------------------------- MODULE MessagePool -----------------------------
(***************************************************************************)
(* The life of message objects: MessagePtr and its reference count         *)
(* (message.h), the pool they are recycled through (object_pool.h), and    *)
(* what publish(), TopicHandle::publish() and enqueueMessage()             *)
(* (message_bus.h) do with them, for messages of one type.                 *)
(*                                                                         *)
(* A step touches at most one atomic variable or one critical section.     *)
(* The main queue and the free list are atomic here and hold pointers;     *)
(* their half-done operations are the subject of LockFreeQueue, and how    *)
(* publishers wait and are woken that of MessageBus.                       *)
(***************************************************************************)
EXTENDS TopicRegistry, Sequences, SequencesExt

CONSTANTS Dispatchers,   \* threads that dispatch
          Policies,      \* the policies the bus may be constructed with
          QueueCapacity, \* of the main queue
          PoolCapacity,  \* kDefaultPoolCapacity
          Objects,       \* the memory for messages
          TopicOf,       \* the topic of each publication and each handle
          WithCallback,  \* the publications and handles with an on_drop
          NoCallback,
          NoHandle,
          MaxPublishes   \* bound: publications of each publisher

Publishers == Callers
Threads == Publishers \cup Dispatchers

ASSUME DispatchersAssumption == Publishers \cap Dispatchers = {}

(* BlockTimeout is Block here: a wait that may be given up. *)
FullPolicy == {"ReturnFalse", "DropOldest", "DropNewest", "Block"}
ASSUME PoliciesAssumption == Policies \subseteq FullPolicy

(* A publication is known by its publisher and its number there, which is  *)
(* what its data stand for; number 0 is the publisher's handle.            *)
Data == Publishers \X (1..MaxPublishes)
Plans == Publishers \X (0..MaxPublishes)
Callbacks == Plans \cup {NoCallback}

ASSUME BoundAssumption == MaxPublishes \in Nat
ASSUME NoThreadAssumption == "none" \notin Publishers
ASSUME CapacityAssumption == QueueCapacity \in Nat /\ PoolCapacity \in Nat
ASSUME PlansAssumption == TopicOf \in [Plans -> Topics] /\ WithCallback \subseteq Plans

VARIABLES
  policy,
  freelist,  \* freelist_
  allocated, \* the objects made by new and not deleted
  ref_count, body, \* what each object holds
  queue,     \* queue_: the objects its MessagePtrs point to
  own,       \* the MessagePtrs of each thread, the one released first last
  pc, publish_mutex,
  handle,    \* the TopicHandle each publisher has made
  count,     \* publications begun by each publisher
  request,   \* what each publisher was last asked to publish
  handled, dropped \* what handlers and drop callbacks were called with

poolVars == <<freelist, allocated, ref_count, body>>
flowVars == <<handled, dropped>>
callVars == <<handle, count, request>>
vars == <<registryVars, poolVars, queue, own, pc, policy, publish_mutex, callVars, flowVars>>

NoThread == "none"

(* A message as its readers see it: the exact subscriptions they find by   *)
(* its id, the wildcard subscriptions they find by its text.               *)
Named(id) == {topic \in Registered : map[topic] = id}
Value(o) == [exact |-> Named(body[o].topic_id), text |-> body[o].topic_sv,
             data |-> body[o].data, on_drop |-> body[o].on_drop]
Asked(topic, data, on_drop) ==
  [exact |-> {topic}, text |-> topic, data |-> data, on_drop |-> on_drop]

Init ==
  /\ RegistryInit
  /\ policy \in Policies
  /\ freelist = <<>> /\ allocated = {}
  /\ ref_count = [o \in Objects |-> 0]
  /\ body = [o \in Objects |-> [topic_id |-> kInvalidTopicId]]
  /\ queue = <<>>
  /\ own = [t \in Threads |-> <<>>]
  /\ pc = [t \in Threads |-> "idle"]
  /\ publish_mutex = NoThread
  /\ handle = [p \in Publishers |-> NoHandle]
  /\ count = [p \in Publishers |-> 0]
  /\ request = [p \in Publishers |-> NoHandle]
  /\ handled = {} /\ dropped = {}

Goto(t, step) == pc' = [pc EXCEPT ![t] = step]
-----------------------------------------------------------------------------
(* publish(), topic() and TopicHandle::publish(), up to enqueueMessage()   *)

OnDrop(plan) == IF plan \in WithCallback THEN plan ELSE NoCallback

(* publish(topic, msg) or publish(topic, msg, on_drop) *)
Publish(p) ==
  /\ pc[p] = "idle"
  /\ count[p] < MaxPublishes
  /\ count' = [count EXCEPT ![p] = @ + 1]
  /\ LET data == <<p, count'[p]>> IN
       request' = [request EXCEPT ![p] = Asked(TopicOf[data], data, OnDrop(data))]
  /\ Goto(p, "resolve")
  /\ UNCHANGED <<registryVars, poolVars, queue, own, policy, publish_mutex, handle, flowVars>>

(* topic(topic) or topic(topic, on_drop), once for each publisher *)
Topic(p) ==
  /\ pc[p] = "idle"
  /\ handle[p] = NoHandle
  /\ request' = [request EXCEPT ![p] = Asked(TopicOf[<<p, 0>>], <<p, 0>>, OnDrop(<<p, 0>>))]
  /\ Goto(p, "topic")
  /\ UNCHANGED <<registryVars, poolVars, queue, own, policy, publish_mutex, handle, count, flowVars>>

(* registry_.resolve(topic) *)
ResolveStep(p) ==
  /\ pc[p] \in {"resolve", "topic"}
  /\ \/ FindNothing(p, request[p].text) /\ UNCHANGED pc
     \/ /\ Find(p, request[p].text) \/ Register(p) \/ FindRegistered(p)
        /\ Goto(p, IF pc[p] = "topic" THEN "make_handle" ELSE "acquire")
  /\ UNCHANGED <<poolVars, queue, own, policy, publish_mutex, callVars, flowVars>>

MakeHandle(p) ==
  /\ pc[p] = "make_handle"
  /\ handle' = [handle EXCEPT ![p] =
                  [tid |-> tid[p], topic_sv |-> to_string(tid[p]), topic |-> request[p].text,
                   cached_on_drop |-> request[p].on_drop]]
  /\ Goto(p, "idle")
  /\ UNCHANGED <<registryVars, poolVars, queue, own, policy, publish_mutex, count, request, flowVars>>

PublishByHandle(p) ==
  /\ pc[p] = "idle"
  /\ handle[p] # NoHandle
  /\ count[p] < MaxPublishes
  /\ count' = [count EXCEPT ![p] = @ + 1]
  /\ request' = [request EXCEPT ![p] =
                   Asked(handle[p].topic, <<p, count'[p]>>, handle[p].cached_on_drop)]
  /\ Goto(p, "h_acquire")
  /\ UNCHANGED <<registryVars, poolVars, queue, own, policy, publish_mutex, handle, flowVars>>

(* Mutant: reset() leaves the callback of the former message. *)
FilledButCallback(o, id, data) ==
  /\ ref_count' = [ref_count EXCEPT ![o] = 0]
  /\ body' = [body EXCEPT ![o] = [topic_id |-> id, data |-> data,
                                  on_drop |-> IF o \in allocated THEN @.on_drop ELSE NoCallback,
                                  topic_sv |-> IF o \in allocated THEN @.topic_sv ELSE NoTopic]]

(* The reset() of an object, or its construction, which leaves no view *)
Filled(o, id, data) ==
  /\ ref_count' = [ref_count EXCEPT ![o] = 0]
  /\ body' = [body EXCEPT ![o] = [topic_id |-> id, data |-> data, on_drop |-> NoCallback,
                                  topic_sv |-> IF o \in allocated THEN @.topic_sv ELSE NoTopic]]

(* pool.acquire(), then reset() of what it gave or a new object *)
Acquire(p) ==
  /\ pc[p] \in {"acquire", "h_acquire"}
  /\ \E o \in Objects :
       /\ IF freelist # <<>>
          THEN o = Head(freelist) /\ freelist' = Tail(freelist) /\ UNCHANGED allocated
          ELSE o \notin allocated /\ allocated' = allocated \cup {o} /\ UNCHANGED freelist
       /\ Filled(o, IF pc[p] = "acquire" THEN tid[p] ELSE handle[p].tid, request[p].data)
       /\ own' = [own EXCEPT ![p] = <<o>>]
  /\ Goto(p, IF pc[p] = "acquire" THEN "view" ELSE "h_view")
  /\ UNCHANGED <<registryVars, queue, policy, publish_mutex, callVars, flowVars>>

(* The view of the topic, the callback, and the first MessagePtr: adopt() *)
Adopt(p) ==
  /\ pc[p] \in {"view", "h_view"}
  /\ LET o == Head(own[p]) IN
       /\ body' = [body EXCEPT
            ![o].topic_sv = IF pc[p] = "view" THEN to_string(tid[p]) ELSE handle[p].topic_sv,
            ![o].on_drop = IF pc[p] = "view" /\ request[p].on_drop = NoCallback
                           THEN @ ELSE request[p].on_drop]
       /\ ref_count' = [ref_count EXCEPT ![o] = @ + 1]
  /\ Goto(p, IF policy = "DropOldest" THEN "lock" ELSE "try")
  /\ UNCHANGED <<registryVars, freelist, allocated, queue, own, policy, publish_mutex, callVars, flowVars>>
-----------------------------------------------------------------------------
(* enqueueMessage()                                                        *)

LockPublish(p) ==
  /\ pc[p] = "lock"
  /\ publish_mutex = NoThread
  /\ publish_mutex' = p
  /\ Goto(p, "try")
  /\ UNCHANGED <<registryVars, poolVars, queue, own, policy, callVars, flowVars>>

(* Mutant: a copy is put in the queue that does not count. *)
TryEnqueueUncounted(p) ==
  /\ pc[p] = "try"
  /\ Len(queue) < QueueCapacity
  /\ queue' = Append(queue, Head(own[p]))
  /\ Goto(p, IF policy = "DropOldest" /\ Len(own[p]) = 1 THEN "unlock" ELSE "release")
  /\ UNCHANGED <<registryVars, poolVars, own, policy, publish_mutex, callVars, flowVars>>

(* try_enqueue(mptr) puts a copy in the queue, try_enqueue(std::move(mptr)) *)
(* under ReturnFalse the pointer itself.                                    *)
TryEnqueue(p) ==
  /\ pc[p] = "try"
  /\ Len(queue) < QueueCapacity
  /\ queue' = Append(queue, Head(own[p]))
  /\ IF policy = "ReturnFalse"
     THEN own' = [own EXCEPT ![p] = <<>>] /\ UNCHANGED ref_count /\ Goto(p, "idle")
     ELSE /\ ref_count' = [ref_count EXCEPT ![Head(own[p])] = @ + 1]
          /\ UNCHANGED own
          /\ Goto(p, IF policy = "DropOldest" /\ Len(own[p]) = 1 THEN "unlock" ELSE "release")
  /\ UNCHANGED <<registryVars, freelist, allocated, body, policy, publish_mutex, callVars, flowVars>>

(* It is full.  Block waits, so that this is the end of its wait.  The copy *)
(* that did not get in is gone again. *)
QueueFull(p) ==
  /\ pc[p] = "try"
  /\ Len(queue) = QueueCapacity
  /\ Goto(p, CASE policy = "DropOldest" -> "evict"
               [] policy = "DropNewest" -> "notify"
               [] OTHER -> "release")
  /\ UNCHANGED <<registryVars, poolVars, queue, own, policy, publish_mutex, callVars, flowVars>>

(* queue_.try_dequeue(oldest), which finds nothing if a dispatcher was faster *)
Evict(p) ==
  /\ pc[p] = "evict"
  /\ IF queue = <<>>
     THEN Goto(p, "try") /\ UNCHANGED <<queue, own>>
     ELSE /\ own' = [own EXCEPT ![p] = Append(@, Head(queue))]
          /\ queue' = Tail(queue)
          /\ Goto(p, "notify")
  /\ UNCHANGED <<registryVars, poolVars, policy, publish_mutex, callVars, flowVars>>

(* notify_drop() of the oldest message, or of the new one *)
NotifyDrop(p) ==
  /\ pc[p] = "notify"
  /\ LET o == Last(own[p]) IN
       /\ dropped' = IF body[o].on_drop = NoCallback THEN dropped ELSE dropped \cup {Value(o)}
       /\ body' = [body EXCEPT ![o].on_drop = NoCallback]
  /\ Goto(p, IF policy = "DropOldest" THEN "try" ELSE "release")
  /\ UNCHANGED <<registryVars, freelist, allocated, ref_count, queue, own, policy, publish_mutex,
                 callVars, handled>>

(* lk goes at "return true": after oldest, before the parameter mptr *)
UnlockPublish(p) ==
  /\ pc[p] = "unlock"
  /\ publish_mutex' = NoThread
  /\ Goto(p, "release")
  /\ UNCHANGED <<registryVars, poolVars, queue, own, policy, callVars, flowVars>>
-----------------------------------------------------------------------------
(* A dispatcher                                                            *)

Dequeue(d) ==
  /\ pc[d] = "idle"
  /\ queue # <<>>
  /\ own' = [own EXCEPT ![d] = <<Head(queue)>>]
  /\ queue' = Tail(queue)
  /\ Goto(d, "dispatch")
  /\ UNCHANGED <<registryVars, poolVars, policy, publish_mutex, callVars, flowVars>>

DispatchMessage(d) ==
  /\ pc[d] = "dispatch"
  /\ handled' = handled \cup {Value(Head(own[d]))}
  /\ Goto(d, "release")
  /\ UNCHANGED <<registryVars, poolVars, queue, own, policy, publish_mutex, callVars, dropped>>
-----------------------------------------------------------------------------
(* MessagePtr::reset()                                                     *)

(* The pointer is gone: the last one of the call, or oldest, which leaves   *)
(* mptr to be released without the mutex.                                   *)
Forget(t) ==
  /\ own' = [own EXCEPT ![t] = Front(@)]
  /\ Goto(t, IF Len(own[t]) = 1 THEN "idle" ELSE "unlock")

ReleaseRef(t) ==
  /\ pc[t] = "release"
  /\ LET o == Last(own[t]) IN
       /\ ref_count' = [ref_count EXCEPT ![o] = @ - 1]
       /\ IF ref_count[o] = 1 THEN Goto(t, "recycle") /\ UNCHANGED own
                              ELSE Forget(t)
  /\ UNCHANGED <<registryVars, freelist, allocated, body, queue, policy, publish_mutex, callVars,
                 flowVars>>

(* Mutant: an object that the full pool refuses is not deleted. *)
RecycleUndeleted(t) ==
  /\ pc[t] = "recycle"
  /\ freelist' = IF Len(freelist) < PoolCapacity THEN Append(freelist, Last(own[t])) ELSE freelist
  /\ Forget(t)
  /\ UNCHANGED <<registryVars, allocated, ref_count, body, queue, policy, publish_mutex, callVars,
                 flowVars>>

(* recycler_: ObjectPool::release(), which deletes what finds no room *)
Recycle(t) ==
  /\ pc[t] = "recycle"
  /\ IF Len(freelist) < PoolCapacity
     THEN freelist' = Append(freelist, Last(own[t])) /\ UNCHANGED allocated
     ELSE allocated' = allocated \ {Last(own[t])} /\ UNCHANGED freelist
  /\ Forget(t)
  /\ UNCHANGED <<registryVars, ref_count, body, queue, policy, publish_mutex, callVars, flowVars>>
-----------------------------------------------------------------------------
Publisher(p) ==
  \/ Publish(p) \/ Topic(p) \/ ResolveStep(p) \/ MakeHandle(p) \/ PublishByHandle(p)
  \/ Acquire(p) \/ Adopt(p)
  \/ LockPublish(p) \/ TryEnqueue(p) \/ QueueFull(p) \/ Evict(p) \/ NotifyDrop(p)
  \/ UnlockPublish(p)

Next ==
  \/ \E p \in Publishers : Publisher(p)
  \/ \E d \in Dispatchers : Dequeue(d) \/ DispatchMessage(d)
  \/ \E t \in Threads : ReleaseRef(t) \/ Recycle(t)

Spec == Init /\ [][Next]_vars
-----------------------------------------------------------------------------
Held(t) == ToSet(own[t])

(* The pointers of a thread that count: not the one of an object that is    *)
(* not yet adopted, or whose last reference has just gone.                  *)
Counted(t) == {i \in DOMAIN own[t] : ~(pc[t] \in {"view", "h_view", "recycle"} /\ i = Len(own[t]))}
Pointers(o) ==
  Cardinality({i \in DOMAIN queue : queue[i] = o}) +
  Cardinality({x \in Threads \X (1..2) : x[2] \in Counted(x[1]) /\ own[x[1]][x[2]] = o})

(* Objects that anything points to exist, and a thread has pointers when its *)
(* program counter says so (the types of queue_, freelist_ and MessagePtr).  *)
TypeOK ==
  /\ RegistryTypeOK
  /\ ToSet(freelist) \cup ToSet(queue) \cup UNION {Held(t) : t \in Threads} \subseteq allocated
  /\ allocated \subseteq Objects
  /\ Len(freelist) <= PoolCapacity
  /\ \A t \in Threads : /\ (own[t] = <<>>) <=> pc[t] \in {"idle", "resolve", "topic", "make_handle",
                                                          "acquire", "h_acquire"}
                        /\ Len(own[t]) <= 2
  /\ publish_mutex \in Publishers \cup {NoThread}

(* "Intrusive reference-counted pointer" (message.h line 95): the count is  *)
(* the number of pointers to the object wherever they are, in the queue or  *)
(* with a publisher, a dispatcher or both, so that it is recycled by the    *)
(* last of them, once, and never while another is left; and no object that  *)
(* waits in the pool can be reached.                                        *)
CountsPointers ==
  /\ \A o \in allocated : ref_count[o] = Pointers(o)
  /\ IsInjective(freelist)
  /\ \A o \in ToSet(freelist) : o \notin ToSet(queue) /\ \A t \in Threads : o \notin Held(t)

(* "Objects are ... cached after first use", "Deletes it if pool is full"   *)
(* (object_pool.h lines 11 and 39): every object is in the pool, or someone *)
(* has a pointer to it, and with it the duty to recycle it; none that was   *)
(* deleted is in the pool, and nobody has a pointer to one.                 *)
NothingLeaks ==
  /\ TypeOK
  /\ allocated = ToSet(freelist) \cup ToSet(queue) \cup UNION {Held(t) : t \in Threads}

(* A message is a value: MessageFlow, with the objects read where they are. *)
Values == [exact : {{topic} : topic \in Topics}, text : Topics, data : Data, on_drop : Callbacks]
Publishing == {"resolve", "acquire", "h_acquire", "view", "h_view", "lock", "try", "evict", "notify"}

ASSUME NoHandleAssumption == NoHandle \notin Values

Flow == INSTANCE MessageFlow WITH
  NoValue <- NoHandle,
  HasCallback <- LAMBDA v : v.on_drop # NoCallback,
  request <- [p \in Publishers |->
                IF pc[p] \in Publishing THEN request[p] ELSE NoHandle],
  queue <- [i \in DOMAIN queue |-> Value(queue[i])],
  at <- [t \in Threads |->
           IF pc[t] = "dispatch" \/ (pc[t] = "notify" /\ Len(own[t]) = 2)
           THEN Value(Last(own[t])) ELSE NoHandle]

(* Whatever objects are recycled meanwhile, messages keep the topic, data   *)
(* and callback they were published with until they have been handled or    *)
(* dropped, and callbacks are called once (publish, enqueueMessage,         *)
(* notify_drop, MessagePtr::reset, reset).                                  *)
ImplementsFlow == Flow!FlowSpec
=============================================================================
