--------------------------- MODULE MessageBusProofs ---------------------------
(***************************************************************************)
(* Proofs about BusCore, MessageBus and MultiDispatch for every set of     *)
(* publishers, the dispatcher among them or not, every policy, every       *)
(* capacity of at least two cells, and every number of workers and hash of *)
(* topics to workers: what BusCore's actions preserve, what they do to the *)
(* places a message can be in, from that the theorems about MessageBus,    *)
(* and from both those about MultiDispatch.                                *)
(***************************************************************************)
EXTENDS MessageBus, MultiDispatch, FiniteSetTheorems, TLAPS

USE DEF queueVars, publisherVars, mainVars, controlVars, historyVars, besidesQueue,
        besidesWait, besidesStep, besidesMain, Goto

(* p is in publish() and its message is nowhere yet; it is somewhere. *)
Open(p) == ppc[p] \notin {"idle", "wake"} /\ call[p] # "committing"
Settled(p) == ppc[p] = "wake" \/ call[p] = "committing"

(* A publisher is inside the queue only where enqueueMessage calls it; the *)
(* main thread at its own try_dequeue, or as a handler that publishes.     *)
Callers ==
  /\ \A t \in Threads : call[t] \in {"enq", "committing"} =>
       t \in Publishers /\ ppc[t] \in {"try", "pred"} /\ hand[t] = Mptr(t)
  /\ \A t \in Threads : call[t] \in {"deq", "releasing"} =>
       \/ t \in Publishers /\ ppc[t] = "evict"
       \/ t = Dispatcher /\ dpc = "dequeue"
  /\ \A t \in Threads : call[t] = "releasing" => hand[t] \in Messages
  /\ \A p \in Publishers : ppc[p] # "idle" =>
       count[p] >= 1 /\ (p = Dispatcher => dpc = "handle")
  /\ msg # NoValue <=> dpc \in {"notify", "handle"}

(* An item that is still being written carries its writer's message, and no *)
(* message is queued twice.                                                 *)
Writers ==
  \A k \in DOMAIN items : items[k].writer # NoThread =>
    /\ items[k].writer \in Threads
    /\ call[items[k].writer] = "committing"
    /\ items[k].val = hand[items[k].writer]

QueuedOnce == \A j, k \in DOMAIN items : items[j].val = items[k].val => j = k

TakenOnce ==
  \A t, u \in Threads :
    call[t] = "releasing" /\ call[u] = "releasing" /\ hand[t] = hand[u] => t = u

OnePlace ==
  /\ Queued \cap Taken = {} /\ Queued \cap Held = {} /\ Queued \cap dropped = {}
  /\ Taken \cap Held = {} /\ Taken \cap dropped = {} /\ Held \cap dropped = {}

Placed == Queued \cup Taken \cup Held \cup dropped

(* A number is used up once its publish() has begun, and a message gets a  *)
(* place, and then a result, once.                                         *)
Numbered ==
  /\ \A m \in Placed \cup reported \cup refused : m[2] <= count[m[1]]
  /\ \A p \in Publishers : ppc[p] # "idle" => Mptr(p) \notin reported \cup refused
  /\ \A p \in Publishers : Open(p) => Mptr(p) \notin Placed

(* Nobody waits in the queue behind a message that was published after it  *)
(* had been reported.                                                      *)
InOrder ==
  /\ \A n \in Messages : ahead[n] \subseteq Queued
  /\ \A k \in DOMAIN items : \A m \in ahead[items[k].val] :
       \E j \in 1..(k - 1) : items[j].val = m
  /\ \A m \in Taken \cup Held : ahead[m] = {}

(* Each policy's part of enqueueMessage; publish_mutex_ serialises          *)
(* DropOldest, so that only its last item can be unfinished.                *)
Policed ==
  /\ \A p \in Publishers :
       /\ ppc[p] \in {"wait_lock", "pred", "block", "waiting"} => Waits
       /\ ppc[p] \in {"lock", "evict"} => policy = "DropOldest"
       /\ policy = "DropOldest" /\ ppc[p] \notin {"idle", "lock"} => publish_mutex = p
  /\ policy = "DropOldest" =>
       \A k \in DOMAIN items : items[k].writer # NoThread => k = Len(items)

(* start() and stop() against the main thread's loops. *)
Stopping == cpc \in {"stop_notify", "stop_notify_publishers", "join"}
Down == dpc = "exited" \/ cpc \in {"joined", "join_workers", "stopped"}

Controlled ==
  /\ running <=> cpc \in {"starting", "spawn_workers", "started"}
  /\ dpc = "off" <=> cpc \in {"joined", "join_workers", "stopped", "starting"}
  /\ dpc = "exited" => Stopping
  /\ draining /\ dpc # "off" => Stopping
  /\ owed \subseteq reported
  /\ Down => \A k \in DOMAIN items : items[k].val \in owed =>
               /\ policy # "DropOldest"
               /\ \E j \in 1..(k - 1) : items[j].val \notin owed

DataInv == Writers /\ QueuedOnce /\ TakenOnce /\ OnePlace /\ Numbered /\ InOrder

CoreInv ==
  /\ CoreTypeOK /\ Callers
  /\ DataInv /\ Policed /\ Controlled

(* What a step may do to the places and results of messages: a message that *)
(* gets a place is one whose publish() is under way, and stays until it is  *)
(* given to handlers.                                                       *)
Flow ==
  /\ Placed \subseteq Placed'
  /\ \A m \in Placed' \ Placed : \E p \in Publishers : Open(p) /\ m = Mptr(p)
  /\ \A m \in reported' \ reported :
       m \in Placed' \/ \E p \in Publishers : Settled(p) /\ m = Mptr(p)
  /\ \A m \in refused' \ refused :
       m \notin Placed' /\ \E p \in Publishers : Open(p) /\ m = Mptr(p)
  /\ \A p \in Publishers :
       \/ count'[p] = count[p] /\ (Open(p)' => Open(p))
                               /\ (Settled(p)' => Settled(p) \/ Mptr(p) \in Placed')
       \/ count'[p] = count[p] + 1 /\ ~Settled(p)'

-----------------------------------------------------------------------------
(* Steps that move no message                                              *)

(* A step that leaves the items, the messages in hand and the results alone, *)
(* and lets no publish() begin or succeed, keeps every message in its place. *)
LEMMA DataFrame ==
  ASSUME CoreInv,
         UNCHANGED <<items, count, msg, reported, refused, dropped, ahead>>,
         \A t \in Threads :
           call[t] \in {"committing", "releasing"} \/ call'[t] \in {"committing", "releasing"}
             => call'[t] = call[t] /\ hand'[t] = hand[t],
         \A p \in Publishers : ppc'[p] = ppc[p] \/ {ppc[p], ppc'[p]} \cap {"idle", "wake"} = {}
  PROVE  DataInv' /\ Flow
<1>1. Taken' = Taken /\ Queued' = Queued /\ Held' = Held
  BY DEF Taken, Queued, Held
<1>2. Placed' = Placed
  BY <1>1 DEF Placed
<1>3. \A p \in Publishers : /\ Mptr(p)' = Mptr(p)
                            /\ Open(p)' => Open(p)
                            /\ Settled(p)' => Settled(p)
  BY DEF Mptr, Open, Settled, Threads, CoreInv
<1>4. Writers' /\ QueuedOnce' /\ TakenOnce'
  BY DEF CoreInv, DataInv, Writers, QueuedOnce, TakenOnce
<1>5. OnePlace'
  BY <1>1 DEF CoreInv, DataInv, OnePlace
<1>6. Numbered'
  BY <1>2, <1>3 DEF CoreInv, DataInv, Numbered
<1>7. InOrder'
  BY <1>1 DEF CoreInv, DataInv, InOrder
<1>8. Flow
  BY <1>2, <1>3 DEF Flow
<1>9. QED
  BY <1>4, <1>5, <1>6, <1>7, <1>8 DEF DataInv

(* Nor does a step that leaves the loop of the main thread and the caller of *)
(* start() and stop() where they are disturb what they know of each other.   *)
LEMMA ControlFrame ==
  ASSUME Controlled, UNCHANGED <<policy, items, running, cpc, draining, owed>>,
         dpc' = dpc \/ {dpc, dpc'} \cap {"off", "exited"} = {},
         reported \subseteq reported'
  PROVE  Controlled'
  BY DEF Controlled, Stopping, Down

(* The policies are about where publishers and unfinished items are. *)
LEMMA PoliceFrame ==
  ASSUME Policed, UNCHANGED <<policy, items, publish_mutex, ppc>>
  PROVE  Policed'
  BY DEF Policed, Waits

(* The waits of a publisher for its mutexes and for room *)
LEMMA WaitInv ==
  ASSUME CoreInv, NEW p \in Publishers,
         LockPublish(p) \/ LockNotFull(p) \/ BlockOnNotFull(p) \/ WaitTimeout(p)
           \/ SpuriousWakeup(p)
  PROVE  CoreInv' /\ Flow
<1> USE DEF LockPublish, LockNotFull, BlockOnNotFull, WaitTimeout, SpuriousWakeup
<1>1. CoreTypeOK'
  BY DEF CoreInv, CoreTypeOK, PublisherSteps
<1>2. Callers'
  BY DEF CoreInv, CoreTypeOK, Callers, Mptr
<1>3. DataInv' /\ Flow
  BY DataFrame DEF CoreInv, CoreTypeOK
<1>4. Policed'
  BY ThreadsAssumption DEF CoreInv, CoreTypeOK, Policed, Waits
<1>5. Controlled'
  BY ControlFrame DEF CoreInv
<1>6. QED
  BY <1>1, <1>2, <1>3, <1>4, <1>5 DEF CoreInv

(* A publisher begins a try_enqueue or a try_dequeue. *)
LEMMA InvokeInv ==
  ASSUME CoreInv, NEW p \in Publishers, TryEnqueue(p) \/ Evict(p)
  PROVE  CoreInv' /\ Flow
<1> USE DEF TryEnqueue, Evict, Q!EnqInvoke, Q!DeqInvoke
<1>1. p \in Threads /\ Mptr(p) \in Messages
  BY DEF CoreInv, CoreTypeOK, Callers, Threads, Messages, Mptr
<1>2. CoreTypeOK'
  BY <1>1 DEF CoreInv, CoreTypeOK, Q!Calls
<1>3. Callers'
  BY <1>1 DEF CoreInv, CoreTypeOK, Callers, Mptr
<1>4. DataInv' /\ Flow
  BY <1>1, DataFrame DEF CoreInv, CoreTypeOK
<1>5. Policed' /\ Controlled'
  BY PoliceFrame, ControlFrame DEF CoreInv
<1>6. QED
  BY <1>2, <1>3, <1>4, <1>5 DEF CoreInv

(* One of them returns false and publish() goes on. *)
LEMMA RejectInv ==
  ASSUME CoreInv, NEW p \in Publishers,
         RejectDropOldest(p) \/ RejectFirst(p) \/ PredFull(p) \/ EvictNone(p)
  PROVE  CoreInv' /\ Flow
<1> USE DEF RejectDropOldest, RejectFirst, PredFull, EvictNone, Q!EnqReject, Q!DeqReject
<1>1. p \in Threads /\ call[p] \in {"enq", "deq"} /\ ppc[p] \in {"try", "pred", "evict"}
  BY DEF CoreInv, Callers, Threads
<1>2. CoreTypeOK'
  BY <1>1 DEF CoreInv, CoreTypeOK, Q!Calls, PublisherSteps
<1>3. Callers'
  BY <1>1 DEF CoreInv, CoreTypeOK, Callers, Mptr
<1>4. DataInv' /\ Flow
  BY <1>1, DataFrame DEF CoreInv, CoreTypeOK
<1>5. Policed'
  BY <1>1 DEF CoreInv, CoreTypeOK, Policed, Waits
<1>6. Controlled'
  BY ControlFrame DEF CoreInv
<1>7. QED
  BY <1>2, <1>3, <1>4, <1>5, <1>6 DEF CoreInv

-----------------------------------------------------------------------------
(* The main thread                                                         *)

(* It falls asleep and wakes up. *)
LEMMA SleepInv ==
  ASSUME CoreInv, SetAsleep \/ SleepPredicate \/ FallAsleep \/ SleepTimeout \/ SetAwake
  PROVE  CoreInv' /\ Flow
<1> USE DEF SetAsleep, SleepPredicate, FallAsleep, SleepTimeout, SetAwake
<1>1. CoreTypeOK'
  BY DEF CoreInv, CoreTypeOK, MainSteps
<1>2. Callers'
  BY DEF CoreInv, Callers, Mptr
<1>3. DataInv' /\ Flow
  BY DataFrame DEF CoreInv
<1>4. Policed' /\ Controlled'
  BY PoliceFrame, ControlFrame DEF CoreInv
<1>5. QED
  BY <1>1, <1>2, <1>3, <1>4 DEF CoreInv

(* It begins a try_dequeue, in either loop. *)
LEMMA PollInv ==
  ASSUME CoreInv, Poll
  PROVE  CoreInv' /\ Flow
<1> USE DEF Poll, Q!DeqInvoke
<1>1. CoreTypeOK'
  BY DEF CoreInv, CoreTypeOK, MainSteps, Q!Calls
<1>2. Callers'
  BY DEF CoreInv, CoreTypeOK, Callers, Mptr
<1>3. DataInv' /\ Flow
  BY DataFrame DEF CoreInv, CoreTypeOK
<1>4. Policed' /\ Controlled'
  BY PoliceFrame DEF CoreInv, CoreTypeOK, Controlled, Stopping, Down, ControlSteps
<1>5. QED
  BY <1>1, <1>2, <1>3, <1>4 DEF CoreInv

(* try_dequeue returns false in the first loop. *)
LEMMA PollEmptyInv ==
  ASSUME CoreInv, PollEmpty
  PROVE  CoreInv' /\ Flow
<1> USE DEF PollEmpty, Q!DeqReject
<1>1. CoreTypeOK'
  <2>1. idle' \in 0..IdleLimit /\ dpc' \in MainSteps
    BY BoundsAssumption DEF CoreInv, CoreTypeOK, MainSteps
  <2>2. QED
    BY <2>1 DEF CoreInv, CoreTypeOK, Q!Calls
<1>2. Callers'
  BY DEF CoreInv, CoreTypeOK, Callers, Mptr
<1>3. DataInv' /\ Flow
  BY DataFrame DEF CoreInv, CoreTypeOK
<1>4. Policed' /\ Controlled'
  BY PoliceFrame, ControlFrame DEF CoreInv
<1>5. QED
  BY <1>1, <1>2, <1>3, <1>4 DEF CoreInv

(* It returns false in the draining loop: the queue is empty, or its oldest *)
(* item is still being written, by a publisher that has reported nothing of *)
(* it and, under DropOldest, keeps all others away.                         *)
LEMMA DrainEmptyInv ==
  ASSUME CoreInv, DrainEmpty
  PROVE  CoreInv' /\ Flow
<1> USE DEF DrainEmpty, Q!DeqReject
<1>1. CoreTypeOK'
  BY DEF CoreInv, CoreTypeOK, MainSteps, Q!Calls
<1>2. Callers'
  BY DEF CoreInv, CoreTypeOK, Callers, Mptr
<1>3. DataInv' /\ Flow
  BY DataFrame DEF CoreInv, CoreTypeOK
<1>4. Policed'
  BY PoliceFrame DEF CoreInv
<1>5. items \in Seq(Q!Items) /\ DOMAIN items = 1..Len(items)
  BY DEF CoreInv, CoreTypeOK
<1>6. items # <<>> => /\ 1 \in DOMAIN items
                      /\ items[1].writer # NoThread
                      /\ items[1].val \notin reported
  <2> SUFFICES ASSUME items # <<>>
               PROVE  /\ 1 \in DOMAIN items
                      /\ items[1].writer # NoThread
                      /\ items[1].val \notin reported
    OBVIOUS
  <2>1. 1 \in DOMAIN items /\ items[1].writer # NoThread
    BY <1>5 DEF Q!HeadReady
  <2> DEFINE w == items[1].writer
  <2>2. w \in Threads /\ call[w] = "committing" /\ items[1].val = hand[w]
    BY <2>1 DEF CoreInv, DataInv, Writers
  <2>3. w \in Publishers /\ ppc[w] # "idle" /\ items[1].val = Mptr(w)
    BY <2>2 DEF CoreInv, Callers
  <2>4. QED
    BY <2>1, <2>3 DEF CoreInv, DataInv, Numbered
<1>7. \A k \in DOMAIN items : items[k].val \in owed =>
        policy # "DropOldest" /\ \E j \in 1..(k - 1) : items[j].val \notin owed
  <2> SUFFICES ASSUME NEW k \in DOMAIN items, items[k].val \in owed
               PROVE  policy # "DropOldest" /\ \E j \in 1..(k - 1) : items[j].val \notin owed
    OBVIOUS
  <2>1. owed \subseteq reported /\ items # <<>>
    BY <1>5 DEF CoreInv, Controlled
  <2>2. k # 1 /\ 1 \in 1..(k - 1) /\ items[1].val \notin owed
    BY <1>5, <1>6, <2>1
  <2>3. policy # "DropOldest"
    BY <1>5, <1>6, <2>1, <2>2 DEF CoreInv, Policed
  <2>4. QED
    BY <2>2, <2>3
<1>8. Controlled'
  BY <1>7 DEF CoreInv, Controlled, Stopping, Down
<1>9. QED
  BY <1>1, <1>2, <1>3, <1>4, <1>8 DEF CoreInv

(* cv_not_full_.notify_one() *)
LEMMA NotifyInv ==
  ASSUME CoreInv, NotifyNotFull
  PROVE  CoreInv' /\ Flow
<1> USE DEF NotifyNotFull
<1>1. CoreTypeOK'
  BY DEF CoreInv, CoreTypeOK, MainSteps, PublisherSteps
<1>2. Callers'
  BY DEF CoreInv, CoreTypeOK, Callers, Mptr
<1>3. DataInv' /\ Flow
  BY DataFrame DEF CoreInv, CoreTypeOK
<1>4. Policed'
  BY DEF CoreInv, CoreTypeOK, Policed, Waits
<1>5. Controlled'
  BY ControlFrame DEF CoreInv
<1>6. QED
  BY <1>1, <1>2, <1>3, <1>4, <1>5 DEF CoreInv

-----------------------------------------------------------------------------
(* start() and stop()                                                      *)

(* What they do to anything but the flags and the threads: nothing. *)
LEMMA ControlInv ==
  ASSUME CoreInv,
         \/ StartFlag \/ StopFlag \/ StopNotify \/ StopNotifyPublishers \/ JoinMain
         \/ SpawnMain /\ cpc' \in {"started", "spawn_workers"}
         \/ cpc \in {"joined", "join_workers"} /\ StopEnd
  PROVE  CoreInv' /\ Flow
<1> USE DEF StartFlag, SpawnMain, StopFlag, StopNotify, StopNotifyPublishers, JoinMain, StopEnd
<1>1. CoreTypeOK'
  <2>1. idle' \in 0..IdleLimit /\ starts' \in 0..MaxStarts
    BY BoundsAssumption DEF CoreInv, CoreTypeOK
  <2>2. dpc' \in MainSteps /\ cpc' \in ControlSteps
    BY DEF CoreInv, CoreTypeOK, MainSteps, ControlSteps
  <2>3. ppc' \in [Publishers -> PublisherSteps]
    BY DEF CoreInv, CoreTypeOK, PublisherSteps
  <2>4. QED
    BY <2>1, <2>2, <2>3 DEF CoreInv, CoreTypeOK
<1>2. Callers'
  BY DEF CoreInv, CoreTypeOK, Callers, Controlled, Mptr
<1>3. DataInv' /\ Flow
  BY DataFrame DEF CoreInv, CoreTypeOK
<1>4. Policed'
  BY DEF CoreInv, CoreTypeOK, Policed, Waits
<1>5. Controlled'
  <2> USE DEF CoreInv, Controlled, Stopping, Down
  <2>1. CASE StartFlag \/ StopFlag
    BY <2>1
  <2>2. CASE StopNotify \/ StopNotifyPublishers
    BY <2>2
  <2>3. CASE JoinMain
    BY <2>3
  <2>4. CASE SpawnMain /\ cpc' \in {"started", "spawn_workers"}
    BY <2>4
  <2>5. CASE cpc \in {"joined", "join_workers"} /\ StopEnd
    BY <2>5
  <2>6. QED
    BY <2>1, <2>2, <2>3, <2>4, <2>5
<1>6. QED
  BY <1>1, <1>2, <1>3, <1>4, <1>5 DEF CoreInv

-----------------------------------------------------------------------------
(* publish() begins and returns                                            *)

(* What is in the queue are messages. *)
LEMMA QueuedType == CoreTypeOK => Queued \subseteq Messages /\ DOMAIN items = 1..Len(items)
<1> SUFFICES ASSUME CoreTypeOK
             PROVE  Queued \subseteq Messages /\ DOMAIN items = 1..Len(items)
  OBVIOUS
<1>1. DOMAIN items = 1..Len(items) /\ \A k \in DOMAIN items : items[k] \in Q!Items
  BY DEF CoreTypeOK
<1>2. QED
  BY <1>1 DEF Queued, Q!Items

(* So is what is anywhere else. *)
LEMMA PlacedType == CoreInv => Placed \subseteq Messages
<1> SUFFICES ASSUME CoreInv PROVE Placed \subseteq Messages
  OBVIOUS
<1>1. Taken \subseteq Messages
  BY DEF CoreInv, Callers, Taken
<1>2. Held \subseteq Messages /\ dropped \subseteq Messages
  BY DEF CoreInv, CoreTypeOK, Held
<1>3. QED
  BY <1>1, <1>2, QueuedType DEF CoreInv, Placed

(* The message of a publisher in publish() *)
LEMMA MptrType ==
  ASSUME CoreInv, NEW p \in Publishers, ppc[p] # "idle"
  PROVE  /\ p \in Threads /\ Mptr(p) \in Messages /\ Mptr(p)[1] = p
         /\ Mptr(p)[2] = count[p] /\ count[p] \in Nat
<1>1. count[p] \in 1..MaxPublishes
  BY DEF CoreInv, CoreTypeOK, Callers
<1>2. QED
  BY <1>1, BoundsAssumption DEF Mptr, Messages, Threads

(* publish() is called with a message that has no place yet. *)
LEMMA PublishInv ==
  ASSUME CoreInv, NEW p \in Publishers, Publish(p)
  PROVE  CoreInv' /\ Flow
<1> DEFINE new == <<p, count[p] + 1>>
<1> USE DEF Publish
<1>1. count[p] \in 0..MaxPublishes /\ count[p] < MaxPublishes
  BY BoundsAssumption DEF MayPublish, CoreInv, CoreTypeOK
<1>2. new \in Messages /\ new[1] = p /\ new[2] = count[p] + 1
  BY <1>1, BoundsAssumption DEF Messages
<1>3. new \notin Placed /\ new \notin reported \cup refused
  BY <1>1, <1>2 DEF CoreInv, DataInv, Numbered
<1>4. /\ \A q \in Publishers : count'[q] = IF q = p THEN count[p] + 1 ELSE count[q]
      /\ \A q \in Publishers : q # p => Mptr(q)' = Mptr(q) /\ ppc'[q] = ppc[q]
      /\ Mptr(p)' = new /\ ppc'[p] \in {"lock", "try"}
      /\ \A n \in Messages : ahead'[n] = IF n = new THEN reported \cap Queued ELSE ahead[n]
  BY <1>2 DEF CoreInv, CoreTypeOK, Mptr
<1>5. CoreTypeOK'
  <2>1. ahead' \in [Messages -> SUBSET Messages]
    BY <1>2, QueuedType DEF CoreInv, CoreTypeOK
  <2>2. count' \in [Publishers -> 0..MaxPublishes]
    BY <1>1, BoundsAssumption DEF CoreInv, CoreTypeOK
  <2>3. QED
    BY <2>1, <2>2 DEF CoreInv, CoreTypeOK, PublisherSteps
<1>6. call[p] \notin {"enq", "committing"}
  BY DEF CoreInv, Callers, Threads
<1>7. Callers'
  BY <1>1, <1>4, <1>6 DEF CoreInv, CoreTypeOK, Callers, MayPublish
<1>8. Taken' = Taken /\ Queued' = Queued /\ Held' = Held /\ Placed' = Placed
  BY DEF Taken, Queued, Held, Placed
<1>9. Writers' /\ QueuedOnce' /\ TakenOnce' /\ OnePlace'
  BY <1>8 DEF CoreInv, DataInv, Writers, QueuedOnce, TakenOnce, OnePlace
<1>10. \A q \in Publishers : q # p => Open(q)' = Open(q) /\ Settled(q)' = Settled(q)
  BY <1>4 DEF Open, Settled
<1>11. Numbered'
  <2>1. \A m \in Placed \cup reported \cup refused : m[2] <= count'[m[1]]
    <3> SUFFICES ASSUME NEW m \in Placed \cup reported \cup refused
                 PROVE  m[2] <= count'[m[1]]
      OBVIOUS
    <3>1. m \in Messages
      BY PlacedType DEF CoreInv, CoreTypeOK
    <3>2. m[1] \in Publishers /\ m[2] \in Nat /\ count[m[1]] \in Nat
      BY <3>1, BoundsAssumption DEF Messages, CoreInv, CoreTypeOK
    <3>3. m[2] <= count[m[1]]
      BY DEF CoreInv, DataInv, Numbered
    <3>4. QED
      BY <1>1, <1>4, <3>2, <3>3
  <2>2. QED
    BY <1>3, <1>4, <1>8, <1>10, <2>1 DEF CoreInv, DataInv, Numbered
<1>12. InOrder'
  <2>1. \A n \in Messages : ahead'[n] \subseteq Queued
    BY <1>4 DEF CoreInv, DataInv, InOrder
  <2>2. \A k \in DOMAIN items : items[k].val \in Messages /\ items[k].val # new
    BY <1>3, QueuedType DEF Placed, Queued, CoreInv
  <2>3. \A m \in Taken \cup Held : m \in Messages /\ m # new
    BY <1>3, PlacedType DEF Placed
  <2>4. QED
    BY <1>4, <1>8, <2>1, <2>2, <2>3 DEF CoreInv, DataInv, InOrder
<1>13. Flow
  BY <1>4, <1>6, <1>8, <1>10 DEF Flow, Settled
<1>14. Policed'
  BY DEF CoreInv, CoreTypeOK, Policed, Waits
<1>15. Controlled'
  BY ControlFrame DEF CoreInv
<1>16. QED
  BY <1>5, <1>7, <1>9, <1>11, <1>12, <1>13, <1>14, <1>15 DEF CoreInv, DataInv

(* publish() returns false: its message is nowhere. *)
LEMMA RefuseInv ==
  ASSUME CoreInv, NEW p \in Publishers,
         RejectReturnFalse(p) \/ PredStopped(p) \/ PredTimedOut(p)
  PROVE  CoreInv' /\ Flow
<1> USE DEF RejectReturnFalse, PredStopped, PredTimedOut, Return, Q!EnqReject
<1>1. /\ p \in Threads /\ call[p] \in {"idle", "enq"} /\ ppc[p] \in {"try", "pred"}
      /\ Mptr(p) \in Messages
  BY DEF CoreInv, CoreTypeOK, Callers, Threads, Messages, Mptr
<1>2. /\ Open(p) /\ Mptr(p) \notin Placed \cup reported /\ Mptr(p)[1] = p
      /\ Mptr(p)[2] = count[p]
  BY <1>1 DEF Open, CoreInv, DataInv, Numbered, Mptr
<1>3. CoreTypeOK'
  BY <1>1 DEF CoreInv, CoreTypeOK, Q!Calls, PublisherSteps
<1>4. Callers'
  BY <1>1 DEF CoreInv, CoreTypeOK, Callers, Mptr
<1>5. Taken' = Taken /\ Queued' = Queued /\ Held' = Held /\ Placed' = Placed
  <2>1. \A t \in Threads : (call'[t] = "releasing") = (call[t] = "releasing")
    BY <1>1 DEF CoreInv, CoreTypeOK
  <2>2. \A t \in Threads : call[t] = "releasing" => hand'[t] = hand[t]
    BY <1>1 DEF CoreInv, CoreTypeOK
  <2>3. QED
    BY <2>1, <2>2 DEF Taken, Queued, Held, Placed
<1>6. Writers' /\ QueuedOnce' /\ TakenOnce' /\ OnePlace' /\ InOrder'
  <2>1. \A t \in Threads : call[t] \in {"committing", "releasing"} \/ call'[t] \in {"committing", "releasing"}
          => call'[t] = call[t] /\ hand'[t] = hand[t]
    BY <1>1 DEF CoreInv, CoreTypeOK
  <2>2. Writers' /\ QueuedOnce' /\ TakenOnce'
    BY <2>1 DEF CoreInv, DataInv, Writers, QueuedOnce, TakenOnce
  <2>3. OnePlace' /\ InOrder'
    BY <1>5 DEF CoreInv, DataInv, OnePlace, InOrder
  <2>4. QED
    BY <2>2, <2>3
<1>7. /\ \A q \in Publishers : q # p => Open(q)' = Open(q) /\ Settled(q)' = Settled(q)
      /\ \A q \in Publishers : Mptr(q)' = Mptr(q) /\ Mptr(q)[1] = q
      /\ ~Open(p)' /\ ~Settled(p)'
  BY <1>1 DEF Open, Settled, Mptr, Threads, CoreInv, CoreTypeOK
<1>8. Numbered'
  <2>1. \A q \in Publishers : ppc'[q] # "idle" => q # p /\ ppc[q] # "idle"
    BY DEF CoreInv, CoreTypeOK
  <2>2. refused' = refused \cup {Mptr(p)}
    BY <1>7 DEF Mptr
  <2>3. count[p] \in Nat
    BY BoundsAssumption DEF CoreInv, CoreTypeOK
  <2>4. QED
    BY <1>2, <1>5, <1>7, <2>1, <2>2, <2>3 DEF CoreInv, DataInv, Numbered
<1>9. Flow
  BY <1>2, <1>5, <1>7 DEF Flow
<1>10. Policed'
  BY DEF CoreInv, CoreTypeOK, Policed, Waits
<1>11. Controlled'
  BY ControlFrame DEF CoreInv
<1>12. QED
  BY <1>3, <1>4, <1>6, <1>8, <1>9, <1>10, <1>11 DEF CoreInv, DataInv

(* DropNewest: publish() returns true and its message is dropped. *)
LEMMA DropNewestInv ==
  ASSUME CoreInv, NEW p \in Publishers, RejectDropNewest(p)
  PROVE  CoreInv' /\ Flow
<1> USE DEF RejectDropNewest, Return, Q!EnqReject
<1>1. /\ p \in Threads /\ call[p] = "enq" /\ ppc[p] \in {"try", "pred"}
      /\ Mptr(p) \in Messages
  BY DEF CoreInv, CoreTypeOK, Callers, Threads, Messages, Mptr
<1>2. /\ Open(p) /\ Mptr(p) \notin Placed \cup refused /\ Mptr(p)[1] = p
      /\ Mptr(p)[2] = count[p]
  BY <1>1 DEF Open, CoreInv, DataInv, Numbered, Mptr
<1>3. CoreTypeOK'
  BY <1>1 DEF CoreInv, CoreTypeOK, Q!Calls, PublisherSteps
<1>4. Callers'
  BY <1>1 DEF CoreInv, CoreTypeOK, Callers, Mptr
<1>5. /\ Taken' = Taken /\ Queued' = Queued /\ Held' = Held
      /\ dropped' = dropped \cup {Mptr(p)}
  BY <1>1 DEF Taken, Queued, Held, CoreInv, CoreTypeOK
<1>6. Placed' = Placed \cup {Mptr(p)}
  BY <1>5 DEF Placed
<1>7. Writers' /\ QueuedOnce' /\ TakenOnce' /\ InOrder'
  BY <1>1, <1>5 DEF CoreInv, CoreTypeOK, DataInv, Writers, QueuedOnce, TakenOnce, InOrder
<1>8. OnePlace'
  BY <1>2, <1>5 DEF CoreInv, DataInv, OnePlace, Placed
<1>9. /\ \A q \in Publishers : q # p => Open(q)' = Open(q) /\ Settled(q)' = Settled(q)
      /\ \A q \in Publishers : Mptr(q)' = Mptr(q) /\ Mptr(q)[1] = q
      /\ ~Open(p)' /\ ~Settled(p)'
  BY <1>1 DEF Open, Settled, Mptr, Threads, CoreInv, CoreTypeOK
<1>10. Numbered'
  <2>1. \A q \in Publishers : ppc'[q] # "idle" => q # p /\ ppc[q] # "idle"
    BY DEF CoreInv, CoreTypeOK
  <2>2. reported' = reported \cup {Mptr(p)} /\ refused' = refused
    BY <1>9 DEF Mptr
  <2>3. count[p] \in Nat
    BY BoundsAssumption DEF CoreInv, CoreTypeOK
  <2>4. QED
    BY <1>2, <1>6, <1>9, <2>1, <2>2, <2>3 DEF CoreInv, DataInv, Numbered
<1>11. Flow
  BY <1>2, <1>6, <1>9 DEF Flow
<1>12. Policed'
  BY DEF CoreInv, CoreTypeOK, Policed, Waits
<1>13. Controlled'
  BY ControlFrame DEF CoreInv
<1>14. QED
  BY <1>3, <1>4, <1>7, <1>8, <1>10, <1>11, <1>12, <1>13 DEF CoreInv, DataInv

(* publish() returns true: its message has a place already. *)
LEMMA WakeDispatcherInv ==
  ASSUME CoreInv, NEW p \in Publishers, WakeDispatcher(p)
  PROVE  CoreInv' /\ Flow
<1> USE DEF WakeDispatcher, Return
<1>1. p \in Threads /\ call[p] # "committing" /\ Settled(p) /\ Mptr(p) \in Messages
  BY MptrType DEF CoreInv, Callers, Settled
<1>2. Mptr(p) \notin refused /\ Mptr(p)[1] = p /\ Mptr(p)[2] = count[p]
  BY <1>1 DEF CoreInv, DataInv, Numbered, Mptr
<1>3. CoreTypeOK'
  BY <1>1 DEF CoreInv, CoreTypeOK, PublisherSteps, MainSteps
<1>4. Callers'
  BY <1>1 DEF CoreInv, CoreTypeOK, Callers, Mptr
<1>5. Taken' = Taken /\ Queued' = Queued /\ Held' = Held /\ Placed' = Placed
  BY DEF Taken, Queued, Held, Placed
<1>6. Writers' /\ QueuedOnce' /\ TakenOnce' /\ OnePlace' /\ InOrder'
  BY <1>5 DEF CoreInv, DataInv, Writers, QueuedOnce, TakenOnce, OnePlace, InOrder
<1>7. /\ \A q \in Publishers : q # p => Open(q)' = Open(q) /\ Settled(q)' = Settled(q)
      /\ \A q \in Publishers : Mptr(q)' = Mptr(q) /\ Mptr(q)[1] = q
      /\ ~Open(p)' /\ ~Settled(p)'
  BY <1>1 DEF Open, Settled, Mptr, CoreInv, CoreTypeOK
<1>8. Numbered'
  <2>1. \A q \in Publishers : ppc'[q] # "idle" => q # p /\ ppc[q] # "idle"
    BY DEF CoreInv, CoreTypeOK
  <2>2. reported' = reported \cup {Mptr(p)} /\ refused' = refused
    BY <1>7 DEF Mptr
  <2>3. count[p] \in Nat
    BY BoundsAssumption DEF CoreInv, CoreTypeOK
  <2>4. QED
    BY <1>2, <1>5, <1>7, <2>1, <2>2, <2>3 DEF CoreInv, DataInv, Numbered
<1>9. Flow
  BY <1>1, <1>5, <1>7 DEF Flow
<1>10. Policed'
  BY DEF CoreInv, CoreTypeOK, Policed, Waits
<1>11. Controlled'
  BY ControlFrame DEF CoreInv
<1>12. QED
  BY <1>3, <1>4, <1>6, <1>8, <1>9, <1>10, <1>11 DEF CoreInv, DataInv

-----------------------------------------------------------------------------
(* A message moves                                                         *)

(* The queue gives a message its place at the end. *)
LEMMA AcceptInv ==
  ASSUME CoreInv, NEW p \in Publishers, Accept(p)
  PROVE  CoreInv' /\ Flow
<1> DEFINE m == Mptr(p)
<1> DEFINE n == Len(items)
<1> USE DEF Accept, Q!EnqAccept
<1>1. p \in Threads /\ ppc[p] \in {"try", "pred"} /\ hand[p] = m
  BY DEF CoreInv, Callers, Threads
<1>2. m \in Messages /\ m[1] = p /\ m[2] = count[p] /\ count[p] \in Nat
  BY <1>1, MptrType
<1>3. Open(p) /\ m \notin Placed \cup reported \cup refused
  BY <1>1 DEF Open, CoreInv, DataInv, Numbered
<1>4. /\ items \in Seq(Q!Items) /\ n \in Nat /\ n + 1 <= Capacity
      /\ DOMAIN items = 1..n /\ [val |-> m, writer |-> p] \in Q!Items
  BY <1>1, <1>2, BusCapacityAssumption DEF CoreInv, CoreTypeOK, Q!NextCellBusy, Q!Items
<1>5. /\ items' \in Seq(Q!Items) /\ Len(items') = n + 1 /\ DOMAIN items' = 1..(n + 1)
      /\ \A k \in 1..n : items'[k] = items[k]
      /\ items'[n + 1] = [val |-> m, writer |-> p]
  BY <1>1, <1>4
<1>6. \A t \in Threads : call'[t] = IF t = p THEN "committing" ELSE call[t]
  BY DEF CoreInv, CoreTypeOK
<1>7. Queued' = Queued \cup {m}
  <2>1. \A x \in Queued' : x \in Queued \cup {m}
    BY <1>4, <1>5 DEF Queued
  <2>2. \A x \in Queued \cup {m} : x \in Queued'
    BY <1>4, <1>5 DEF Queued
  <2>3. QED
    BY <2>1, <2>2
<1>8. Taken' = Taken /\ Held' = Held
  BY <1>6 DEF Taken, Held
<1>9. Placed' = Placed \cup {m}
  BY <1>7, <1>8 DEF Placed
<1>10. \A k \in 1..n : items[k].val # m
  BY <1>3, <1>4 DEF Placed, Queued
<1>11. CoreTypeOK'
  BY <1>1, <1>4, <1>5 DEF CoreInv, CoreTypeOK, Q!Calls
<1>12. Callers'
  BY <1>1, <1>6 DEF CoreInv, Callers, Mptr
<1>13. Writers'
  BY <1>1, <1>4, <1>5, <1>6 DEF CoreInv, DataInv, Writers
<1>14. QueuedOnce' /\ TakenOnce'
  BY <1>4, <1>5, <1>6, <1>10 DEF CoreInv, DataInv, QueuedOnce, TakenOnce
<1>15. OnePlace'
  BY <1>3, <1>7, <1>8 DEF CoreInv, DataInv, OnePlace, Placed
<1>16. /\ \A q \in Publishers : q # p => Open(q)' = Open(q) /\ Settled(q)' = Settled(q)
       /\ \A q \in Publishers : Mptr(q)' = Mptr(q) /\ Mptr(q)[1] = q
       /\ ~Open(p)'
  BY <1>1, <1>6 DEF Open, Settled, Mptr, Threads
<1>17. Numbered'
  BY <1>2, <1>9, <1>16 DEF CoreInv, DataInv, Numbered
<1>18. InOrder'
  <2>1. \A x \in Messages : ahead[x] \subseteq Queued'
    BY <1>7 DEF CoreInv, DataInv, InOrder
  <2>2. ASSUME NEW k \in DOMAIN items', NEW x \in ahead[items'[k].val]
        PROVE  \E j \in 1..(k - 1) : items'[j].val = x
    <3>1. CASE k = n + 1
      <4>1. x \in Queued
        BY <1>2, <1>5, <2>2, <3>1 DEF CoreInv, DataInv, InOrder
      <4>2. PICK j \in 1..n : items[j].val = x
        BY <1>4, <4>1 DEF Queued
      <4>3. QED
        BY <1>4, <1>5, <3>1, <4>2
    <3>2. CASE k \in 1..n
      <4>1. PICK j \in 1..(k - 1) : items[j].val = x
        BY <1>4, <1>5, <2>2, <3>2 DEF CoreInv, DataInv, InOrder
      <4>2. QED
        BY <1>4, <1>5, <3>2, <4>1
    <3>3. QED
      BY <1>4, <1>5, <3>1, <3>2
  <2>3. QED
    BY <1>8, <2>1, <2>2 DEF CoreInv, DataInv, InOrder
<1>19. Flow
  BY <1>3, <1>9, <1>16 DEF Flow
<1>20. Policed'
  <2>1. ASSUME policy = "DropOldest", NEW k \in 1..n, items[k].writer # NoThread
        PROVE  FALSE
    <3> DEFINE w == items[k].writer
    <3>1. w \in Threads /\ call[w] = "committing"
      BY <1>4, <2>1 DEF CoreInv, DataInv, Writers
    <3>2. w \in Publishers /\ ppc[w] \in {"try", "pred"}
      BY <3>1 DEF CoreInv, Callers
    <3>3. publish_mutex = w /\ publish_mutex = p
      BY <1>1, <2>1, <3>2 DEF CoreInv, Policed
    <3>4. QED
      BY <3>1, <3>3
  <2>2. policy = "DropOldest" =>
          \A k \in DOMAIN items' : items'[k].writer # NoThread => k = Len(items')
    BY <1>4, <1>5, <2>1
  <2>3. QED
    BY <2>2 DEF CoreInv, Policed, Waits
<1>21. Controlled'
  <2>1. m \notin owed
    BY <1>3 DEF CoreInv, Controlled
  <2>2. ASSUME Down, NEW k \in DOMAIN items', items'[k].val \in owed
        PROVE  policy # "DropOldest" /\ \E j \in 1..(k - 1) : items'[j].val \notin owed
    <3>1. k \in 1..n /\ items[k].val \in owed
      BY <1>4, <1>5, <2>1, <2>2
    <3>2. policy # "DropOldest" /\ \E j \in 1..(k - 1) : items[j].val \notin owed
      BY <1>4, <2>2, <3>1 DEF CoreInv, Controlled
    <3>3. QED
      BY <1>4, <1>5, <3>1, <3>2
  <2>3. QED
    BY <2>2 DEF CoreInv, Controlled, Stopping, Down
<1>22. QED
  BY <1>11, <1>12, <1>13, <1>14, <1>15, <1>17, <1>18, <1>19, <1>20, <1>21 DEF CoreInv, DataInv

(* try_enqueue returns true: the item is complete, in its place. *)
LEMMA CommitInv ==
  ASSUME CoreInv, NEW p \in Publishers, Commit(p)
  PROVE  CoreInv' /\ Flow
<1> USE DEF Commit, Q!EnqCommit
<1>1. p \in Threads /\ call[p] = "committing" /\ ppc[p] \in {"try", "pred"}
  BY DEF CoreInv, Callers, Threads
<1>2. items \in Seq(Q!Items) /\ DOMAIN items = 1..Len(items)
  BY DEF CoreInv, CoreTypeOK
<1>3. \A k \in 1..Len(items) : items[k] \in Q!Items
  BY <1>2
<1>4. /\ items' \in Seq(Q!Items) /\ Len(items') = Len(items) /\ DOMAIN items' = DOMAIN items
      /\ \A k \in DOMAIN items :
           /\ items'[k].val = items[k].val
           /\ items'[k].writer = IF items[k].writer = p THEN NoThread ELSE items[k].writer
  BY <1>2, <1>3 DEF Q!Items
<1>5. \A t \in Threads : /\ call'[t] = IF t = p THEN "idle" ELSE call[t]
                         /\ t # p => hand'[t] = hand[t]
  BY DEF CoreInv, CoreTypeOK
<1>6. Queued' = Queued
  BY <1>4 DEF Queued
<1>7. Taken' = Taken /\ Held' = Held
  BY <1>1, <1>5 DEF Taken, Held
<1>8. Placed' = Placed
  BY <1>6, <1>7 DEF Placed
<1>9. CoreTypeOK'
  BY <1>1, <1>4 DEF CoreInv, CoreTypeOK, Q!Calls, PublisherSteps
<1>10. Callers'
  BY <1>1, <1>5 DEF CoreInv, CoreTypeOK, Callers, Mptr
<1>11. Writers' /\ QueuedOnce' /\ TakenOnce'
  BY <1>1, <1>4, <1>5 DEF CoreInv, DataInv, Writers, QueuedOnce, TakenOnce
<1>12. OnePlace'
  BY <1>6, <1>7 DEF CoreInv, DataInv, OnePlace
<1>13. /\ \A q \in Publishers : q # p => Open(q)' = Open(q) /\ Settled(q)' = Settled(q)
       /\ \A q \in Publishers : Mptr(q)' = Mptr(q)
       /\ ~Open(p)' /\ Settled(p)
  BY <1>1, <1>5 DEF Open, Settled, Mptr, Threads, CoreInv, CoreTypeOK
<1>14. Numbered'
  BY <1>1, <1>8, <1>13 DEF CoreInv, CoreTypeOK, DataInv, Numbered
<1>15. InOrder'
  <2>1. ahead' = ahead /\ InOrder
    BY DEF CoreInv, DataInv
  <2>2. ASSUME NEW k \in DOMAIN items', NEW m \in ahead[items'[k].val]
        PROVE  \E j \in 1..(k - 1) : items'[j].val = m
    <3>1. k \in 1..Len(items) /\ items'[k].val = items[k].val
      BY <1>2, <1>4
    <3>2. PICK j \in 1..(k - 1) : items[j].val = m
      BY <1>2, <2>1, <2>2, <3>1 DEF InOrder
    <3>3. j \in DOMAIN items
      BY <1>2, <3>1
    <3>4. QED
      BY <1>4, <3>2, <3>3
  <2>3. \A k \in DOMAIN items' : \A m \in ahead'[items'[k].val] :
          \E j \in 1..(k - 1) : items'[j].val = m
    BY <2>1, <2>2
  <2>4. /\ \A n \in Messages : ahead'[n] \subseteq Queued'
        /\ \A m \in (Taken \cup Held)' : ahead'[m] = {}
    BY <1>6, <1>7, <2>1 DEF InOrder
  <2>5. QED
    BY ONLY <2>3, <2>4 DEF InOrder
<1>16. Flow
  BY <1>8, <1>13 DEF Flow
<1>17. Policed'
  BY <1>1, <1>4 DEF CoreInv, CoreTypeOK, Policed, Waits
<1>18. Controlled'
  <2>1. ASSUME Down, NEW k \in DOMAIN items', items'[k].val \in owed
        PROVE  policy # "DropOldest" /\ \E j \in 1..(k - 1) : items'[j].val \notin owed
    <3>1. PICK j \in 1..(k - 1) : items[j].val \notin owed
      BY <1>4, <2>1 DEF CoreInv, Controlled
    <3>2. items'[j].val \notin owed
      BY <1>2, <1>4, <3>1
    <3>3. QED
      BY <1>4, <2>1, <3>2 DEF CoreInv, Controlled
  <2>2. QED
    BY <2>1 DEF CoreInv, Controlled, Stopping, Down
<1>19. QED
  BY <1>9, <1>10, <1>11, <1>12, <1>14, <1>15, <1>16, <1>17, <1>18 DEF CoreInv, DataInv

(* The oldest message is taken off the queue. *)
LEMMA TakeFacts ==
  ASSUME CoreInv, NEW t \in Threads, Q!DeqTake(t)
  PROVE  /\ items \in Seq(Q!Items) /\ Len(items) \in 1..Capacity /\ DOMAIN items = 1..Len(items)
         /\ Head(items) = items[1] /\ items[1].writer = NoThread
         /\ items[1].val \in Queued
         /\ items' \in Seq(Q!Items) /\ Len(items') = Len(items) - 1
         /\ DOMAIN items' = 1..(Len(items) - 1)
         /\ \A k \in 1..(Len(items) - 1) : items'[k] = items[k + 1]
         /\ Queued' = Queued \ {items[1].val}
         /\ Taken' = Taken \cup {items[1].val}
         /\ \A u \in Threads : /\ call'[u] = IF u = t THEN "releasing" ELSE call[u]
                               /\ hand'[u] = IF u = t THEN items[1].val ELSE hand[u]
<1> USE DEF Q!DeqTake
<1>1. items \in Seq(Q!Items) /\ items # <<>> /\ Len(items) <= Capacity
  BY DEF CoreInv, CoreTypeOK, Q!HeadReady
<1>2. /\ Len(items) \in 1..Capacity /\ DOMAIN items = 1..Len(items)
      /\ Head(items) = items[1] /\ items[1].writer = NoThread
  BY <1>1, BusCapacityAssumption DEF Q!HeadReady
<1>3. /\ items' \in Seq(Q!Items) /\ Len(items') = Len(items) - 1
      /\ DOMAIN items' = 1..(Len(items) - 1)
      /\ \A k \in 1..(Len(items) - 1) : items'[k] = items[k + 1]
  BY <1>1, <1>2
<1>4. items[1].val \in Queued
  BY <1>2 DEF Queued
<1>5. Queued' = Queued \ {items[1].val}
  <2>1. ASSUME NEW k \in 1..(Len(items) - 1)
        PROVE  k + 1 \in DOMAIN items /\ items'[k].val \in Queued \ {items[1].val}
    <3>1. k + 1 \in DOMAIN items /\ 1 \in DOMAIN items /\ k + 1 # 1
      BY <1>2
    <3>2. items[k + 1].val # items[1].val
      BY <3>1 DEF CoreInv, DataInv, QueuedOnce
    <3>3. QED
      BY <1>3, <3>1, <3>2 DEF Queued
  <2>2. ASSUME NEW k \in DOMAIN items, items[k].val # items[1].val
        PROVE  k - 1 \in DOMAIN items' /\ items'[k - 1].val = items[k].val
    <3>1. k # 1 /\ k - 1 \in 1..(Len(items) - 1) /\ (k - 1) + 1 = k
      BY <1>2, <2>2
    <3>2. QED
      BY <1>3, <3>1
  <2>3. Queued' \subseteq Queued \ {items[1].val}
    BY <1>3, <2>1 DEF Queued
  <2>4. ASSUME NEW x \in Queued, x # items[1].val PROVE x \in Queued'
    <3>1. PICK k \in DOMAIN items : items[k].val = x
      BY <2>4 DEF Queued
    <3>2. k - 1 \in DOMAIN items' /\ items'[k - 1].val = x
      BY <2>2, <2>4, <3>1
    <3>3. QED
      BY <3>2 DEF Queued
  <2>5. QED
    BY <2>3, <2>4
<1>6. \A u \in Threads : /\ call'[u] = IF u = t THEN "releasing" ELSE call[u]
                         /\ hand'[u] = IF u = t THEN items[1].val ELSE hand[u]
  BY <1>2 DEF CoreInv, CoreTypeOK
<1>7. Taken' = Taken \cup {items[1].val}
  <2>1. \A x \in Taken' : x \in Taken \cup {items[1].val}
    BY <1>6 DEF Taken
  <2>2. \A x \in Taken \cup {items[1].val} : x \in Taken'
    BY <1>6 DEF Taken
  <2>3. QED
    BY <2>1, <2>2
<1>8. QED
  BY <1>1, <1>2, <1>3, <1>4, <1>5, <1>6, <1>7

(* It is ahead of nothing any more, and nothing was ahead of it. *)
LEMMA TakeData ==
  ASSUME CoreInv, NEW t \in Threads, Q!DeqTake(t), Pass(Head(items).val),
         UNCHANGED <<ppc, count, msg, reported, refused, dropped>>
  PROVE  DataInv' /\ Flow
<1> DEFINE h == items[1].val
<1> DEFINE n == Len(items)
<1>1. /\ n \in 1..Capacity /\ DOMAIN items = 1..n /\ Head(items) = items[1]
      /\ DOMAIN items' = 1..(n - 1) /\ \A k \in 1..(n - 1) : items'[k] = items[k + 1]
      /\ h \in Queued /\ items[1].writer = NoThread
      /\ Queued' = Queued \ {h} /\ Taken' = Taken \cup {h}
      /\ \A u \in Threads : /\ call'[u] = IF u = t THEN "releasing" ELSE call[u]
                            /\ hand'[u] = IF u = t THEN h ELSE hand[u]
  BY TakeFacts
<1>2. call[t] = "deq"
  BY DEF Q!DeqTake
<1>3. n \in Nat /\ \A k \in 1..(n - 1) : k + 1 \in DOMAIN items
  BY <1>1
<1>4. Held' = Held /\ Placed' = Placed
  BY <1>1 DEF Held, Placed
<1>5. Writers'
  BY <1>1, <1>2, <1>3 DEF CoreInv, DataInv, Writers
<1>6. QueuedOnce'
  <2>1. ASSUME NEW j \in 1..(n - 1), NEW k \in 1..(n - 1), items[j + 1].val = items[k + 1].val
        PROVE  j = k
    <3>1. j + 1 = k + 1
      BY <1>3, <2>1 DEF CoreInv, DataInv, QueuedOnce
    <3>2. QED
      BY <3>1
  <2>2. QED
    BY <1>1, <2>1, ZenonT(40) DEF QueuedOnce
<1>7. TakenOnce'
  <2>1. h \notin Taken
    BY <1>1 DEF CoreInv, DataInv, OnePlace
  <2>2. \A u \in Threads : call[u] = "releasing" => hand[u] \in Taken
    BY DEF Taken
  <2>3. QED
    BY <1>1, <2>1, <2>2 DEF CoreInv, DataInv, TakenOnce
<1>8. OnePlace'
  BY <1>1, <1>4 DEF CoreInv, DataInv, OnePlace
<1>9. /\ \A q \in Publishers : Open(q)' => Open(q)
      /\ \A q \in Publishers : Settled(q)' => Settled(q)
      /\ \A q \in Publishers : Mptr(q)' = Mptr(q)
  BY <1>1, <1>2 DEF Open, Settled, Mptr, Threads
<1>10. Numbered'
  BY <1>4, <1>9 DEF CoreInv, DataInv, Numbered
<1>11. \A x \in Messages : ahead'[x] = ahead[x] \ {h}
  BY <1>1 DEF Pass
<1>12. InOrder'
  <2>1. \A x \in Messages : ahead'[x] \subseteq Queued'
    BY <1>1, <1>11 DEF CoreInv, DataInv, InOrder
  <2>2. \A k \in DOMAIN items : items[k].val \in Messages
    BY QueuedType DEF CoreInv, Queued
  <2>3. ASSUME NEW k \in DOMAIN items', NEW x \in ahead'[items'[k].val]
        PROVE  \E j \in 1..(k - 1) : items'[j].val = x
    <3>1. k + 1 \in DOMAIN items /\ items'[k] = items[k + 1] /\ k \in Nat
      BY <1>1, <1>3
    <3>2. x \in ahead[items[k + 1].val] /\ x # h
      BY <1>11, <2>2, <2>3, <3>1
    <3>3. PICK j \in 1..((k + 1) - 1) : items[j].val = x
      BY <3>1, <3>2 DEF CoreInv, DataInv, InOrder
    <3>4. j # 1 /\ j - 1 \in 1..(k - 1) /\ j - 1 \in 1..(n - 1) /\ (j - 1) + 1 = j
      BY <1>1, <3>1, <3>2, <3>3
    <3>5. items'[j - 1].val = x
      BY <1>1, <3>3, <3>4
    <3>6. QED
      BY <3>4, <3>5
  <2>4. ahead[h] = {}
    <3>1. 1 \in DOMAIN items /\ 1..(1 - 1) = {}
      BY <1>1
    <3>2. QED
      BY <3>1 DEF CoreInv, DataInv, InOrder
  <2>5. \A x \in Taken \cup Held : x \in Messages
    BY PlacedType DEF Placed
  <2>6. \A x \in Taken' \cup Held : ahead'[x] = {}
    <3>1. \A x \in Taken \cup Held : ahead[x] = {}
      BY DEF CoreInv, DataInv, InOrder
    <3>2. h \in Messages /\ Taken' = Taken \cup {h}
      BY <1>1, <2>2
    <3>3. QED
      BY <1>11, <2>4, <2>5, <3>1, <3>2
  <2>7. QED
    BY <1>4, <2>1, <2>3, <2>6 DEF InOrder
<1>13. Flow
  BY <1>4, <1>9 DEF Flow
<1>14. QED
  BY <1>5, <1>6, <1>7, <1>8, <1>10, <1>12, <1>13 DEF DataInv

(* DropOldest takes it, to drop it. *)
LEMMA EvictTakeInv ==
  ASSUME CoreInv, NEW p \in Publishers, EvictTake(p)
  PROVE  CoreInv' /\ Flow
<1> DEFINE n == Len(items)
<1> USE DEF EvictTake
<1>1. p \in Threads /\ Q!DeqTake(p) /\ ppc[p] = "evict" /\ policy = "DropOldest"
  BY DEF Threads, CoreInv, Policed
<1>2. /\ items' \in Seq(Q!Items) /\ Len(items') = n - 1 /\ DOMAIN items' = 1..(n - 1)
      /\ n \in 1..Capacity /\ DOMAIN items = 1..n
      /\ \A k \in 1..(n - 1) : items'[k] = items[k + 1]
      /\ items[1].val \in Messages /\ Head(items) = items[1]
      /\ \A u \in Threads : /\ call'[u] = IF u = p THEN "releasing" ELSE call[u]
                            /\ hand'[u] = IF u = p THEN items[1].val ELSE hand[u]
  BY <1>1, TakeFacts, QueuedType DEF CoreInv
<1>3. CoreTypeOK'
  BY <1>1, <1>2, BusCapacityAssumption DEF CoreInv, CoreTypeOK, Q!DeqTake, Q!Calls, Pass
<1>4. Callers'
  BY <1>1, <1>2 DEF CoreInv, Callers, Mptr
<1>5. DataInv' /\ Flow
  BY <1>1, TakeData
<1>6. Policed'
  <2>1. \A k \in DOMAIN items' : k + 1 \in DOMAIN items /\ (k + 1 = n => k = n - 1)
    BY <1>2, BusCapacityAssumption
  <2>2. policy = "DropOldest" =>
          \A k \in DOMAIN items' : items'[k].writer # NoThread => k = Len(items')
    BY <1>2, <2>1 DEF CoreInv, Policed
  <2>3. QED
    BY <2>2 DEF CoreInv, Policed, Waits
<1>7. Controlled'
  BY <1>1, <1>2, BusCapacityAssumption, SMTT(30) DEF CoreInv, Controlled, Stopping, Down
<1>8. QED
  BY <1>3, <1>4, <1>5, <1>6, <1>7 DEF CoreInv

(* The main thread takes it, to handle or route it. *)
LEMMA MainTakeInv ==
  ASSUME CoreInv, MainTake
  PROVE  CoreInv' /\ Flow
<1> DEFINE n == Len(items)
<1> USE DEF MainTake
<1>1. Dispatcher \in Threads /\ Q!DeqTake(Dispatcher) /\ dpc = "dequeue"
  BY DEF Threads
<1>2. /\ items' \in Seq(Q!Items) /\ Len(items') = n - 1 /\ DOMAIN items' = 1..(n - 1)
      /\ n \in 1..Capacity /\ DOMAIN items = 1..n
      /\ \A k \in 1..(n - 1) : items'[k] = items[k + 1]
      /\ items[1].val \in Messages /\ Head(items) = items[1]
      /\ \A u \in Threads : /\ call'[u] = IF u = Dispatcher THEN "releasing" ELSE call[u]
                            /\ hand'[u] = IF u = Dispatcher THEN items[1].val ELSE hand[u]
  BY <1>1, TakeFacts, QueuedType DEF CoreInv
<1>3. CoreTypeOK'
  BY <1>1, <1>2, BusCapacityAssumption DEF CoreInv, CoreTypeOK, Q!DeqTake, Q!Calls, Pass
<1>4. Callers'
  BY <1>1, <1>2 DEF CoreInv, Callers, Mptr
<1>5. DataInv' /\ Flow
  BY <1>1, TakeData
<1>6. Policed'
  <2>1. \A k \in DOMAIN items' : k + 1 \in DOMAIN items /\ (k + 1 = n => k = n - 1)
    BY <1>2, BusCapacityAssumption
  <2>2. policy = "DropOldest" =>
          \A k \in DOMAIN items' : items'[k].writer # NoThread => k = Len(items')
    BY <1>2, <2>1 DEF CoreInv, Policed
  <2>3. QED
    BY <2>2 DEF CoreInv, Policed, Waits
<1>7. Controlled'
  BY <1>1 DEF CoreInv, Controlled, Stopping, Down
<1>8. QED
  BY <1>3, <1>4, <1>5, <1>6, <1>7 DEF CoreInv

(* try_dequeue returns true with a message in hand. *)
LEMMA ReleaseFacts ==
  ASSUME CoreInv, NEW t \in Threads, Q!DeqRelease(t)
  PROVE  /\ hand[t] \in Taken /\ hand[t] \in Messages
         /\ Queued' = Queued /\ Taken' = Taken \ {hand[t]}
         /\ \A u \in Threads : /\ call'[u] = IF u = t THEN "idle" ELSE call[u]
                               /\ u # t => hand'[u] = hand[u]
         /\ Writers' /\ QueuedOnce' /\ TakenOnce'
<1> USE DEF Q!DeqRelease
<1>1. hand[t] \in Taken /\ hand[t] \in Messages
  BY DEF Taken, CoreInv, Callers
<1>2. \A u \in Threads : /\ call'[u] = IF u = t THEN "idle" ELSE call[u]
                         /\ u # t => hand'[u] = hand[u]
  BY DEF CoreInv, CoreTypeOK
<1>3. Taken' = Taken \ {hand[t]}
  <2>1. \A u \in Threads : call[u] = "releasing" /\ hand[u] = hand[t] => u = t
    BY DEF CoreInv, DataInv, TakenOnce
  <2>2. \A x \in Taken' : x \in Taken \ {hand[t]}
    BY <1>2, <2>1 DEF Taken
  <2>3. \A x \in Taken \ {hand[t]} : x \in Taken'
    BY <1>2 DEF Taken
  <2>4. QED
    BY <2>2, <2>3
<1>4. Queued' = Queued
  BY DEF Queued
<1>5. Writers' /\ QueuedOnce' /\ TakenOnce'
  BY <1>2 DEF CoreInv, DataInv, Writers, QueuedOnce, TakenOnce
<1>6. QED
  BY <1>1, <1>2, <1>3, <1>4, <1>5

(* DropOldest hands it to notify_drop. *)
LEMMA EvictDropInv ==
  ASSUME CoreInv, NEW p \in Publishers, EvictDrop(p)
  PROVE  CoreInv' /\ Flow
<1> USE DEF EvictDrop
<1>1. p \in Threads /\ Q!DeqRelease(p) /\ ppc[p] = "evict" /\ call[p] = "releasing"
  BY DEF Threads, Q!DeqRelease
<1>2. /\ hand[p] \in Taken /\ hand[p] \in Messages
      /\ Queued' = Queued /\ Taken' = Taken \ {hand[p]} /\ Held' = Held
      /\ \A u \in Threads : /\ call'[u] = IF u = p THEN "idle" ELSE call[u]
                            /\ u # p => hand'[u] = hand[u]
      /\ Writers' /\ QueuedOnce' /\ TakenOnce'
  BY <1>1, ReleaseFacts DEF Held
<1>3. Placed' = Placed
  BY <1>2 DEF Placed
<1>4. CoreTypeOK'
  BY <1>1, <1>2 DEF CoreInv, CoreTypeOK, Q!DeqRelease, Q!Calls, PublisherSteps
<1>5. Callers'
  BY <1>1, <1>2 DEF CoreInv, CoreTypeOK, Callers, Mptr
<1>6. OnePlace'
  BY <1>2 DEF CoreInv, DataInv, OnePlace
<1>7. /\ \A q \in Publishers : Open(q)' => Open(q)
      /\ \A q \in Publishers : Settled(q)' => Settled(q)
      /\ \A q \in Publishers : Mptr(q)' = Mptr(q)
  BY <1>1, <1>2 DEF Open, Settled, Mptr, Threads, CoreInv, CoreTypeOK
<1>8. Numbered'
  BY <1>1, <1>3, <1>7 DEF CoreInv, CoreTypeOK, DataInv, Numbered
<1>9. InOrder'
  BY <1>2 DEF CoreInv, DataInv, InOrder, Q!DeqRelease
<1>10. Flow
  BY <1>3, <1>7 DEF Flow
<1>11. Policed'
  BY <1>1 DEF CoreInv, CoreTypeOK, Policed, Waits, Q!DeqRelease
<1>12. Controlled'
  BY <1>1, ControlFrame DEF CoreInv, Q!DeqRelease
<1>13. QED
  BY <1>2, <1>4, <1>5, <1>6, <1>8, <1>9, <1>10, <1>11, <1>12 DEF CoreInv, DataInv

(* mainDequeue returns it. *)
LEMMA MainReleaseInv ==
  ASSUME CoreInv, MainRelease
  PROVE  CoreInv' /\ Flow
<1> USE DEF MainRelease
<1>1. /\ Dispatcher \in Threads /\ Q!DeqRelease(Dispatcher) /\ dpc = "dequeue"
      /\ call[Dispatcher] = "releasing"
  BY DEF Threads, Q!DeqRelease
<1>2. /\ hand[Dispatcher] \in Taken /\ hand[Dispatcher] \in Messages
      /\ Queued' = Queued /\ Taken' = Taken \ {hand[Dispatcher]}
      /\ \A u \in Threads : /\ call'[u] = IF u = Dispatcher THEN "idle" ELSE call[u]
                            /\ u # Dispatcher => hand'[u] = hand[u]
      /\ Writers' /\ QueuedOnce' /\ TakenOnce'
  BY <1>1, ReleaseFacts
<1>3. msg = NoValue /\ msg' = hand[Dispatcher] /\ hand[Dispatcher] # NoValue
  BY <1>1, <1>2, NoMessageAssumption DEF CoreInv, Callers
<1>4. Held = {} /\ Held' = {hand[Dispatcher]}
  BY <1>3 DEF Held
<1>5. Placed' = Placed
  BY <1>2, <1>4 DEF Placed
<1>6. CoreTypeOK'
  <2>1. idle' \in 0..IdleLimit
    BY BoundsAssumption DEF CoreInv, CoreTypeOK
  <2>2. QED
    BY <1>1, <1>2, <2>1 DEF CoreInv, CoreTypeOK, Q!DeqRelease, Q!Calls, MainSteps
<1>7. Callers'
  BY <1>1, <1>2, <1>3 DEF CoreInv, CoreTypeOK, Callers, Mptr
<1>8. OnePlace'
  BY <1>2, <1>4 DEF CoreInv, DataInv, OnePlace
<1>9. /\ \A q \in Publishers : Open(q)' => Open(q)
      /\ \A q \in Publishers : Settled(q)' => Settled(q)
      /\ \A q \in Publishers : Mptr(q)' = Mptr(q)
  <2>1. Dispatcher \in Publishers => ppc[Dispatcher] = "idle"
    BY <1>1 DEF CoreInv, Callers
  <2>2. QED
    BY <1>1, <1>2, <2>1 DEF Open, Settled, Mptr, Threads
<1>10. Numbered'
  BY <1>5, <1>9 DEF CoreInv, DataInv, Numbered
<1>11. InOrder'
  <2>1. items' = items /\ ahead' = ahead /\ Taken' \cup Held' \subseteq Taken
    BY <1>1, <1>2, <1>4 DEF Q!DeqRelease
  <2>2. QED
    BY <1>2, <2>1 DEF CoreInv, DataInv, InOrder
<1>12. Flow
  BY <1>5, <1>9 DEF Flow
<1>13. Policed' /\ Controlled'
  BY <1>1, PoliceFrame, ControlFrame DEF CoreInv, Q!DeqRelease
<1>14. QED
  BY <1>2, <1>6, <1>7, <1>8, <1>10, <1>11, <1>12, <1>13 DEF CoreInv, DataInv

(* The main thread has given its message to handlers or to a worker.  *)
LEMMA NextMessageInv ==
  ASSUME CoreInv, MainNextMessage
  PROVE  /\ CoreInv'
         /\ msg \in Placed /\ Placed' = Placed \ {msg}
         /\ \A p \in Publishers : /\ Mptr(p)' = Mptr(p)
                                  /\ Open(p)' = Open(p) /\ Settled(p)' = Settled(p)
<1> USE DEF MainNextMessage
<1>1. msg \in Messages /\ Held = {msg} /\ Held' = {} /\ Queued' = Queued /\ Taken' = Taken
  BY DEF CoreInv, CoreTypeOK, Callers, Held, Queued, Taken
<1>2. Placed' = Placed \ {msg} /\ msg \in Placed
  BY <1>1 DEF CoreInv, DataInv, OnePlace, Placed
<1>3. \A p \in Publishers : /\ Mptr(p)' = Mptr(p)
                            /\ Open(p)' = Open(p) /\ Settled(p)' = Settled(p)
  BY DEF Mptr, Open, Settled
<1>4. CoreTypeOK'
  BY DEF CoreInv, CoreTypeOK, MainSteps
<1>5. Callers'
  BY DEF CoreInv, Callers, Mptr
<1>6. Writers' /\ QueuedOnce' /\ TakenOnce'
  BY DEF CoreInv, DataInv, Writers, QueuedOnce, TakenOnce
<1>7. OnePlace' /\ InOrder'
  BY <1>1 DEF CoreInv, DataInv, OnePlace, InOrder
<1>8. Numbered'
  BY <1>2, <1>3 DEF CoreInv, DataInv, Numbered
<1>9. Policed' /\ Controlled'
  BY PoliceFrame, ControlFrame DEF CoreInv
<1>10. QED
  BY <1>2, <1>3, <1>4, <1>5, <1>6, <1>7, <1>8, <1>9 DEF CoreInv, DataInv

-----------------------------------------------------------------------------
(* The invariant of BusCore                                                *)

(* A MessageBus that has just been constructed has no message. *)
LEMMA CoreInitInv == CoreInit => CoreInv /\ Placed = {}
<1> SUFFICES ASSUME CoreInit PROVE CoreInv /\ Placed = {}
  OBVIOUS
<1> USE DEF CoreInit, Q!QueueInit
<1>1. Queued = {} /\ Taken = {} /\ Held = {} /\ Placed = {}
  BY DEF Queued, Taken, Held, Placed
<1>2. CoreTypeOK
  <2>1. items \in Seq(Q!Items) /\ Len(items) <= Capacity
    BY BusCapacityAssumption
  <2>2. /\ 0 \in 0..IdleLimit /\ 0 \in 0..MaxStarts /\ 0 \in 0..MaxPublishes
    BY BoundsAssumption
  <2>3. QED
    BY <2>1, <2>2 DEF CoreTypeOK, Q!Calls, PublisherSteps, MainSteps, ControlSteps
<1>3. Callers
  BY DEF Callers, Threads
<1>4. DataInv
  BY <1>1 DEF DataInv, Writers, QueuedOnce, TakenOnce, OnePlace, Numbered, InOrder, Open
<1>5. Policed /\ Controlled
  BY DEF Policed, Controlled, Stopping, Down
<1>6. QED
  BY <1>1, <1>2, <1>3, <1>4, <1>5 DEF CoreInv

(* Every step of a publisher keeps it. *)
LEMMA PublisherInv ==
  ASSUME CoreInv, NEW p \in Publishers,
         Publish(p) \/ EnqueueMessage(p) \/ LockNotFull(p) \/ WaitTimeout(p) \/ SpuriousWakeup(p)
  PROVE  CoreInv' /\ Flow
  BY PublishInv, WaitInv, InvokeInv, AcceptInv, CommitInv, RefuseInv, DropNewestInv, RejectInv,
     EvictTakeInv, EvictDropInv, WakeDispatcherInv
  DEF EnqueueMessage

(* So does every step of the main thread up to the handling of its message. *)
LEMMA MainInv ==
  ASSUME CoreInv, MainLoop
  PROVE  CoreInv' /\ Flow
  BY PollInv, MainTakeInv, MainReleaseInv, PollEmptyInv, DrainEmptyInv, NotifyInv, SleepInv
  DEF MainLoop

(* Nor does it matter what else happens elsewhere. *)
LEMMA StutterInv ==
  ASSUME CoreInv, UNCHANGED coreVars
  PROVE  CoreInv' /\ Flow
<1> USE DEF coreVars
<1>1. CoreTypeOK' /\ Callers'
  BY DEF CoreInv, CoreTypeOK, Callers, Mptr
<1>2. DataInv' /\ Flow
  BY DataFrame
<1>3. Policed' /\ Controlled'
  BY PoliceFrame, ControlFrame DEF CoreInv
<1>4. QED
  BY <1>1, <1>2, <1>3 DEF CoreInv

-----------------------------------------------------------------------------
(* Messages the main thread has passed on                                  *)

(* S are the messages that have left the places BusCore knows: they are     *)
(* nowhere else, and what publish() has reported, or will, is with them or  *)
(* in one of those places.                                                  *)
Accounted(S) ==
  /\ S \subseteq Messages
  /\ S \cap Placed = {}
  /\ \A m \in S : m[2] <= count[m[1]]
  /\ \A p \in Publishers : /\ Open(p) => Mptr(p) \notin S
                           /\ Settled(p) => Mptr(p) \in Placed \cup S
  /\ reported \subseteq Placed \cup S
  /\ refused \cap (Placed \cup S) = {}

(* A step that passes no message on *)
LEMMA AccountedFrame ==
  ASSUME CoreInv, CoreInv', Flow, NEW S, Accounted(S)
  PROVE  Accounted(S)'
<1>1. S \cap Placed' = {}
  BY DEF Accounted, Flow
<1>2. \A m \in S : m[1] \in Publishers /\ m[2] \in Nat
  BY BoundsAssumption DEF Accounted, Messages
<1>3. \A p \in Publishers : count[p] \in Nat /\ Mptr(p)[1] = p /\ Mptr(p)[2] = count[p]
  BY BoundsAssumption DEF CoreInv, CoreTypeOK, Mptr
<1>4. \A p \in Publishers : count'[p] = count[p] => Mptr(p)' = Mptr(p)
  BY DEF Mptr
<1>5. \A m \in S : m[2] <= count'[m[1]]
  BY <1>2, <1>3 DEF Accounted, Flow
<1>6. ASSUME NEW p \in Publishers, Open(p)' PROVE Mptr(p)' \notin S
  <2>1. CASE count'[p] = count[p] + 1
    <3>1. Mptr(p)'[1] = p /\ Mptr(p)'[2] = count[p] + 1
      BY <2>1 DEF Mptr
    <3>2. QED
      BY <1>3, <3>1 DEF Accounted
  <2>2. CASE count'[p] = count[p]
    BY <1>3, <1>4, <1>6, <2>2 DEF Accounted, Flow
  <2>3. QED
    BY <2>1, <2>2 DEF Flow
<1>7. ASSUME NEW p \in Publishers, Settled(p)' PROVE Mptr(p)' \in Placed' \cup S
  BY <1>4, <1>7 DEF Accounted, Flow
<1>8. reported' \subseteq Placed' \cup S
  BY DEF Accounted, Flow
<1>9. refused' \cap (Placed' \cup S) = {}
  <2>1. ASSUME NEW m \in refused PROVE m \notin Placed' \cup S
    BY <2>1 DEF Accounted, Flow, Open, CoreInv, DataInv, Numbered
  <2>2. ASSUME NEW m \in refused' \ refused PROVE m \notin Placed' \cup S
    BY <2>2 DEF Accounted, Flow
  <2>3. QED
    BY <2>1, <2>2
<1>10. QED
  BY <1>1, <1>5, <1>6, <1>7, <1>8, <1>9 DEF Accounted

(* The step that passes a message on *)
LEMMA AccountedNext ==
  ASSUME CoreInv, MainNextMessage, NEW S, NEW m, m = msg, Accounted(S)
  PROVE  /\ Accounted(S \cup {m})'
         /\ m \in Messages /\ m \notin S
<1>1. UNCHANGED <<count, reported, refused>>
  BY DEF MainNextMessage
<1>2. /\ m \in Placed /\ Placed' = Placed \ {m}
      /\ \A p \in Publishers : /\ Mptr(p)' = Mptr(p)
                               /\ Open(p)' = Open(p) /\ Settled(p)' = Settled(p)
  BY NextMessageInv
<1>3. m \in Messages /\ m[2] <= count[m[1]]
  BY <1>2, PlacedType DEF CoreInv, DataInv, Numbered
<1>4. \A p \in Publishers : Open(p) => Mptr(p) \notin Placed
  BY DEF CoreInv, DataInv, Numbered
<1>5. QED
  BY <1>1, <1>2, <1>3, <1>4 DEF Accounted

-----------------------------------------------------------------------------
(* MessageBus                                                              *)

(* What dispatchMessage has been given is nowhere else, and every message   *)
(* whose publish() has got it a place still has one.                        *)
BusInv == CoreInv /\ Accounted(delivered)

(* Every step of the publishers, the dispatcher and the caller of start()  *)
(* and stop() keeps the invariant; dispatchMessage(msg) takes the message  *)
(* from the dispatcher's hand.                                             *)
LEMMA BusNextInv == BusInv /\ [Next]_vars => BusInv'
<1> SUFFICES ASSUME BusInv, [Next]_vars PROVE BusInv'
  OBVIOUS
<1> USE DEF BusInv
<1>1. ASSUME CoreInv', Flow, UNCHANGED delivered PROVE BusInv'
  <2>1. PICK S : S = delivered
    OBVIOUS
  <2>2. Accounted(S)'
    BY <1>1, <2>1, AccountedFrame
  <2>3. QED
    BY <1>1, <2>1, <2>2 DEF Accounted
<1>2. ASSUME NEW p \in Publishers, Publisher(p) \/ Waiter(p) PROVE BusInv'
  BY <1>1, <1>2, PublisherInv DEF Publisher, Waiter
<1>3. CASE MainLoop /\ UNCHANGED delivered
  BY <1>1, <1>3, MainInv
<1>4. CASE DispatchMessage
  <2>1. MainNextMessage /\ delivered' = delivered \cup {msg}
    BY <1>4 DEF DispatchMessage
  <2>2. PICK S, m : S = delivered /\ m = msg
    OBVIOUS
  <2>3. Accounted(S \cup {m})' /\ CoreInv'
    BY <2>1, <2>2, AccountedNext, NextMessageInv
  <2>4. delivered' = S \cup {m}
    BY <2>1, <2>2
  <2>5. QED
    BY <2>3, <2>4 DEF Accounted
<1>5. CASE Controller
  BY <1>1, <1>5, ControlInv DEF Controller, Start, Stop
<1>6. CASE UNCHANGED vars
  BY <1>1, <1>6, StutterInv DEF vars
<1>7. QED
  BY <1>2, <1>3, <1>4, <1>5, <1>6 DEF Next, DispatchLoop

(* Whatever the publishers, the dispatcher and the caller of start() and   *)
(* stop() do, every message of enqueueMessage() has at most one place.     *)
THEOREM BusInvariant == Spec => []BusInv
<1>1. Init => BusInv
  BY CoreInitInv DEF Init, CoreInit, BusInv, Accounted, Open, Settled, Q!QueueInit, Threads
<1>2. QED
  BY <1>1, BusNextInv, PTL DEF Spec

(* Queue, mutexes, flags and threads keep their types. *)
THEOREM TypeCorrect == Spec => []TypeOK
<1>1. BusInv => TypeOK
  BY DEF BusInv, CoreInv, Accounted, TypeOK
<1>2. QED
  BY <1>1, BusInvariant, PTL

(* The items of a queue in which no message is twice are as many as the    *)
(* messages.                                                               *)
LEMMA QueuedCount ==
  ASSUME CoreTypeOK, QueuedOnce
  PROVE  Cardinality(Queued) = Len(items)
<1> DEFINE n == Len(items)
<1> DEFINE f == [k \in 1..n |-> items[k].val]
<1>1. n \in Nat /\ DOMAIN items = 1..n
  BY DEF CoreTypeOK
<1>2. f \in [1..n -> Queued]
  BY <1>1 DEF Queued
<1>3. \A j, k \in 1..n : f[j] = f[k] => j = k
  BY <1>1 DEF QueuedOnce
<1>4. \A m \in Queued : \E k \in 1..n : f[k] = m
  BY <1>1 DEF Queued
<1>5. f \in Bijection(1..n, Queued)
  BY <1>2, <1>3, <1>4 DEF Bijection, Injection, IsInjective, Surjection
<1>6. QED
  BY <1>1, <1>5, FS_CountingElements DEF ExistsBijection

(* No message is lost, delivered twice or both delivered and dropped, and   *)
(* publish() tells the truth about it, under every policy of                *)
(* enqueueMessage() and however stop() and start() overlap with it.         *)
THEOREM ConservationHolds == Spec => []Conservation
<1>1. BusInv => Conservation
  <2> SUFFICES ASSUME BusInv PROVE Conservation
    OBVIOUS
  <2> USE DEF BusInv
  <2>1. Cardinality(Queued) = Len(items)
    BY QueuedCount DEF CoreInv, DataInv
  <2>2. \A t, u \in Threads :
          call[t] = "releasing" /\ call[u] = "releasing" /\ hand[t] = hand[u] => t = u
    BY DEF CoreInv, DataInv, TakenOnce
  <2> DEFINE places == <<Queued, Taken, Held, delivered, dropped>>
  <2>3. ASSUME NEW i \in DOMAIN places, NEW j \in DOMAIN places, i # j
        PROVE  places[i] \cap places[j] = {}
    <3>1. i \in 1..5 /\ j \in 1..5
      OBVIOUS
    <3>2. /\ Queued \cap Taken = {} /\ Queued \cap Held = {} /\ Queued \cap dropped = {}
          /\ Taken \cap Held = {} /\ Taken \cap dropped = {} /\ Held \cap dropped = {}
          /\ delivered \cap Queued = {} /\ delivered \cap Taken = {}
          /\ delivered \cap Held = {} /\ delivered \cap dropped = {}
      BY DEF CoreInv, DataInv, OnePlace, Accounted, Placed
    <3>3. QED
      BY <2>3, <3>1, <3>2
  <2>4. reported \subseteq Queued \cup Taken \cup Held \cup delivered \cup dropped
    BY DEF Accounted, Placed
  <2>5. refused \cap (Queued \cup Taken \cup Held \cup delivered \cup dropped) = {}
    BY DEF Accounted, Placed
  <2>6. QED
    BY <2>1, <2>2, <2>3, <2>4, <2>5 DEF Conservation
<1>2. QED
  BY <1>1, BusInvariant, PTL

(* No message overtakes one that publish() had reported before it was      *)
(* published, across publishers, refusals, waits and evictions.            *)
THEOREM DispatchOrderHolds == Spec => []DispatchOrder
<1>1. BusInv => DispatchOrder
  BY DEF BusInv, CoreInv, DataInv, InOrder, DispatchOrder
<1>2. QED
  BY <1>1, BusInvariant, PTL

(* What dispatchLoop() leaves behind when stop() has joined it is only what *)
(* is queued behind a message whose publish() had not returned when stop()  *)
(* was called.                                                              *)
THEOREM StopDrainsHolds == Spec => []StopDrains
<1>1. BusInv => StopDrains
  <2> SUFFICES ASSUME BusInv, cpc = "stopped"
               PROVE  /\ owed \subseteq delivered \cup dropped \cup Taken \cup Queued
                      /\ \A k \in DOMAIN items : items[k].val \in owed =>
                           \E j \in 1..(k - 1) : items[j].val \notin owed
    BY DEF StopDrains
  <2> USE DEF BusInv, CoreInv
  <2>1. dpc = "off" /\ Down /\ owed \subseteq reported
    BY DEF Controlled, Down
  <2>2. Held = {}
    BY <2>1 DEF Callers, Held
  <2>3. QED
    BY <2>1, <2>2 DEF Controlled, Accounted, Placed
<1>2. QED
  BY <1>1, BusInvariant, PTL

-----------------------------------------------------------------------------
(* MultiDispatch: router and workers                                       *)

Before(m, n) == m[1] = n[1] => m[2] < n[2]

WorkerTypeOK ==
  /\ worker_queues \in [Workers -> Seq(Messages)]
  /\ \A w \in Workers : Len(worker_queues[w]) <= Capacity
  /\ wpc \in [Workers -> WorkerSteps]
  /\ widle \in [Workers -> 0..IdleLimit]
  /\ wmsg \in [Workers -> Messages \cup {NoValue}]
  /\ worker_sleeping \in [Workers -> BOOLEAN]
  /\ router_drained \in BOOLEAN

(* The messages the router has routed: with a worker, or dispatched by one. *)
Away == delivered \cup AtWorkers

(* A worker has only messages of its own topics, those of a publisher in    *)
(* the order of their numbers, and none that has been dispatched.           *)
WorkerOrder ==
  \A w \in Workers :
    /\ \A m \in AtWorker(w) : WorkerOf[TopicOf[m]] = w
    /\ AtWorker(w) \cap delivered = {}
    /\ \A j, k \in DOMAIN worker_queues[w] :
         j < k => Before(worker_queues[w][j], worker_queues[w][k])
    /\ \A m \in Dispatching(w), n \in Routed(w) : Before(m, n)

(* The messages of a publisher pass the main queue in that order, the       *)
(* router next, and S, those with the workers, are ahead of them all.       *)
Upstream == Queued \cup InRouter

StageOrder(S) ==
  /\ \A j, k \in DOMAIN items : j < k => Before(items[j].val, items[k].val)
  /\ \A m \in InRouter, n \in Queued : Before(m, n)
  /\ \A m \in S, n \in Upstream : Before(m, n)

(* stop() joins the router, tells the workers, and clears their queues when *)
(* they have emptied them; until start() has made threads there are none.   *)
WorkerControl ==
  /\ router_drained => cpc = "join_workers"
  /\ \A w \in Workers :
       /\ wpc[w] \in {"final", "exited"} => router_drained
       /\ wpc[w] = "exited" => worker_queues[w] = <<>> /\ wmsg[w] = NoValue
       /\ cpc \in {"stopped", "starting"} =>
            wpc[w] = "off" /\ worker_queues[w] = <<>> /\ wmsg[w] = NoValue

RouteInv ==
  /\ CoreInv /\ Accounted(Away)
  /\ WorkerTypeOK /\ WorkerOrder /\ StageOrder(AtWorkers) /\ WorkerControl

-----------------------------------------------------------------------------
(* The main queue and the router                                           *)

(* The stages of the messages of a publisher *)
LEMMA UpstreamType ==
  ASSUME CoreInv
  PROVE  Upstream \subseteq Placed /\ Upstream \subseteq Messages
<1>1. dpc = "dequeue" /\ call[Dispatcher] = "releasing" => hand[Dispatcher] \in Taken
  BY DEF Taken, Threads
<1>2. Upstream \subseteq Placed
  BY <1>1 DEF Upstream, InRouter, Placed
<1>3. QED
  BY <1>2, PlacedType

(* A step that leaves the queue's messages where they are, and the router's *)
LEMMA StageFrame ==
  ASSUME NEW S, StageOrder(S), InRouter' \subseteq InRouter,
         Queued' = Queued, DOMAIN items' = DOMAIN items,
         \A k \in DOMAIN items : items'[k].val = items[k].val
  PROVE  StageOrder(S)'
  BY DEF StageOrder, Upstream, Before

(* A publisher's message enters the queue behind all its earlier ones. *)
LEMMA StageAccept ==
  ASSUME CoreInv, NEW T, Accounted(T), NEW S \in SUBSET T, StageOrder(S),
         NEW p \in Publishers, Accept(p), InRouter' = InRouter
  PROVE  StageOrder(S)'
<1> DEFINE new == Mptr(p)
<1> DEFINE n == Len(items)
<1>1. /\ p \in Threads /\ ppc[p] \in {"try", "pred"} /\ hand[p] = new /\ Open(p)
      /\ items' = Append(items, [val |-> hand[p], writer |-> p])
  BY DEF Accept, Q!EnqAccept, CoreInv, Callers, Threads, Open
<1>2. new \in Messages /\ new[1] = p /\ new[2] = count[p] /\ count[p] \in Nat
  BY <1>1, MptrType
<1>3. new \notin Placed /\ new \notin S
  BY <1>1 DEF CoreInv, DataInv, Numbered, Accounted
<1>4. items \in Seq(Q!Items) /\ n \in Nat /\ DOMAIN items = 1..n
  BY DEF CoreInv, CoreTypeOK
<1>5. /\ DOMAIN items' = 1..(n + 1) /\ items'[n + 1].val = new
      /\ \A k \in 1..n : items'[k] = items[k]
  BY <1>1, <1>4
<1>6. \A x \in Queued' : x \in Queued \cup {new}
  BY <1>4, <1>5 DEF Queued
<1>7. \A x \in Placed \cup S : Before(x, new)
  <2> SUFFICES ASSUME NEW x \in Placed \cup S, x[1] = p PROVE x[2] < count[p]
    BY <1>2 DEF Before
  <2>1. x \in Messages /\ x[2] <= count[p] /\ x # new
    BY <1>3, PlacedType DEF CoreInv, DataInv, Numbered, Accounted
  <2>2. x = <<x[1], x[2]>> /\ x[2] \in Nat
    BY <2>1, BoundsAssumption DEF Messages
  <2>3. x[2] # count[p]
    BY <2>1, <2>2 DEF Mptr
  <2>4. QED
    BY <1>2, <2>1, <2>2, <2>3
<1>8. Queued \subseteq Placed /\ InRouter \subseteq Placed
  BY UpstreamType DEF Upstream
<1>9. \A k \in 1..n : items[k].val \in Placed
  BY <1>4, <1>8 DEF Queued
<1>10. \A j, k \in DOMAIN items' : j < k => Before(items'[j].val, items'[k].val)
  <2> SUFFICES ASSUME NEW j \in 1..(n + 1), NEW k \in 1..(n + 1), j < k
               PROVE  Before(items'[j].val, items'[k].val)
    BY <1>5
  <2>1. CASE k = n + 1
    BY <1>4, <1>5, <1>7, <1>9, <2>1
  <2>2. CASE k \in 1..n
    BY <1>4, <1>5, <2>2 DEF StageOrder
  <2>3. QED
    BY <1>4, <2>1, <2>2
<1>11. \A m \in InRouter', x \in Queued' : Before(m, x)
  BY <1>6, <1>7, <1>8 DEF StageOrder
<1>12. \A m \in S, x \in Upstream' : Before(m, x)
  BY <1>6, <1>7 DEF StageOrder, Upstream
<1>13. QED
  BY <1>10, <1>11, <1>12 DEF StageOrder

(* The oldest message leaves the queue, to be dropped or to the router.  *)
LEMMA StageTake ==
  ASSUME CoreInv, NEW S, StageOrder(S), NEW t \in Threads, Q!DeqTake(t),
         \/ InRouter' \subseteq InRouter
         \/ InRouter' = {items[1].val}
  PROVE  StageOrder(S)'
<1> DEFINE n == Len(items)
<1>1. /\ n \in Nat /\ DOMAIN items = 1..n /\ items[1].val \in Queued
      /\ DOMAIN items' = 1..(n - 1) /\ 1 \in 1..n
      /\ \A k \in 1..(n - 1) : items'[k] = items[k + 1]
      /\ Queued' = Queued \ {items[1].val}
  BY TakeFacts, BusCapacityAssumption
<1>2. \A x \in Queued' : \E k \in 1..n : 1 < k /\ x = items[k].val
  <2> SUFFICES ASSUME NEW x \in Queued' PROVE \E k \in 1..n : 1 < k /\ x = items[k].val
    OBVIOUS
  <2>1. PICK k \in 1..(n - 1) : x = items[k + 1].val
    BY <1>1 DEF Queued
  <2>2. QED
    BY <1>1, <2>1
<1>3. \A x \in Queued' : Before(items[1].val, x)
  BY <1>1, <1>2 DEF StageOrder
<1>4. \A j, k \in DOMAIN items' : j < k => Before(items'[j].val, items'[k].val)
  <2> SUFFICES ASSUME NEW j \in 1..(n - 1), NEW k \in 1..(n - 1), j < k
               PROVE  Before(items[j + 1].val, items[k + 1].val)
    BY <1>1
  <2>1. j + 1 \in 1..n /\ k + 1 \in 1..n /\ j + 1 < k + 1
    BY <1>1
  <2>2. QED
    BY <1>1, <2>1 DEF StageOrder
<1>5. \A m \in InRouter', x \in Queued' : Before(m, x)
  BY <1>1, <1>3 DEF StageOrder
<1>6. \A m \in S, x \in Upstream' : Before(m, x)
  BY <1>1 DEF StageOrder, Upstream
<1>7. QED
  BY <1>4, <1>5, <1>6 DEF StageOrder

(* No publisher changes what the router has, and only three of their steps  *)
(* change the queue's messages.                                             *)
LEMMA PublisherFrame ==
  ASSUME CoreInv, NEW p \in Publishers,
         Publish(p) \/ EnqueueMessage(p) \/ LockNotFull(p) \/ WaitTimeout(p) \/ SpuriousWakeup(p)
  PROVE  /\ InRouter' = InRouter
         /\ items' = items \/ Accept(p) \/ Commit(p) \/ EvictTake(p)
<1>1. p \in Threads /\ Dispatcher \in Threads
  BY DEF Threads
<1> DEFINE Same == \A t \in Threads : t # p => call'[t] = call[t] /\ hand'[t] = hand[t]
<1>2. items' = items \/ Accept(p) \/ Commit(p) \/ EvictTake(p)
  BY DEF Publish, EnqueueMessage, LockPublish, LockNotFull, WaitTimeout, SpuriousWakeup,
         BlockOnNotFull, TryEnqueue, RejectReturnFalse, RejectDropNewest, RejectDropOldest,
         RejectFirst, Evict, EvictDrop, EvictNone, PredStopped, PredFull, PredTimedOut,
         WakeDispatcher, Return, Q!EnqInvoke, Q!EnqReject, Q!DeqInvoke, Q!DeqRelease, Q!DeqReject
<1>3. WakeDispatcher(p) \/ UNCHANGED mainVars
  BY DEF Publish, EnqueueMessage, LockPublish, LockNotFull, WaitTimeout, SpuriousWakeup,
         BlockOnNotFull, TryEnqueue, Accept, Commit, RejectReturnFalse, RejectDropNewest,
         RejectDropOldest, RejectFirst, Evict, EvictTake, EvictDrop, EvictNone, PredStopped,
         PredFull, PredTimedOut
<1>4. msg' = msg /\ (dpc' = dpc \/ (dpc = "asleep" /\ dpc' = "notified"))
  <2>1. CASE WakeDispatcher(p)
    BY <2>1 DEF WakeDispatcher
  <2>2. CASE UNCHANGED mainVars
    BY <2>2
  <2>3. QED
    BY <1>3, <2>1, <2>2
<1>5. UNCHANGED <<call, hand>> \/ (ppc[p] # "idle" /\ Same)
  <2>1. /\ \A t \in Threads : call[t] \in {"enq", "committing"} => t \in Publishers /\ ppc[t] # "idle"
        /\ call \in [Threads -> Q!Calls] /\ hand \in [Threads -> Messages \cup {NoValue}]
    BY DEF CoreInv, Callers, CoreTypeOK
  <2>2. CASE TryEnqueue(p) \/ Evict(p) \/ Accept(p) \/ Commit(p)
    BY <1>1, <2>1, <2>2 DEF TryEnqueue, Evict, Accept, Commit, Q!EnqInvoke, Q!EnqAccept,
                            Q!EnqCommit, Q!DeqInvoke
  <2>3. CASE RejectReturnFalse(p) \/ RejectDropNewest(p) \/ RejectDropOldest(p) \/ RejectFirst(p)
               \/ PredFull(p) \/ PredTimedOut(p)
    BY <1>1, <2>1, <2>3 DEF RejectReturnFalse, RejectDropNewest, RejectDropOldest, RejectFirst,
                            PredFull, PredTimedOut, Q!EnqReject
  <2>4. CASE EvictTake(p) \/ EvictDrop(p) \/ EvictNone(p)
    BY <1>1, <2>1, <2>4 DEF EvictTake, EvictDrop, EvictNone, Q!DeqTake, Q!DeqRelease, Q!DeqReject
  <2>5. CASE Publish(p) \/ LockPublish(p) \/ LockNotFull(p) \/ WaitTimeout(p) \/ SpuriousWakeup(p)
               \/ BlockOnNotFull(p) \/ PredStopped(p) \/ WakeDispatcher(p)
    BY <2>5 DEF Publish, LockPublish, LockNotFull, WaitTimeout, SpuriousWakeup, BlockOnNotFull,
                PredStopped, WakeDispatcher
  <2>6. QED
    BY <2>2, <2>3, <2>4, <2>5 DEF EnqueueMessage
<1>6. Held' = Held /\ (dpc' = "dequeue" <=> dpc = "dequeue")
  BY <1>4 DEF Held
<1>7. CASE UNCHANGED <<call, hand>>
  BY <1>2, <1>6, <1>7 DEF InRouter
<1>8. CASE ppc[p] # "idle" /\ Same
  <2>1. p = Dispatcher => dpc = "handle"
    BY <1>8 DEF CoreInv, Callers
  <2>2. p # Dispatcher => call'[Dispatcher] = call[Dispatcher] /\ hand'[Dispatcher] = hand[Dispatcher]
    BY <1>1, <1>8
  <2>3. QED
    BY <1>2, <1>6, <2>1, <2>2 DEF InRouter
<1>9. QED
  BY <1>2, <1>5, <1>7, <1>8

(* Nor do publishers touch start() and stop(). *)
LEMMA PublisherCaller ==
  ASSUME NEW p \in Publishers,
         Publish(p) \/ EnqueueMessage(p) \/ LockNotFull(p) \/ WaitTimeout(p) \/ SpuriousWakeup(p)
  PROVE  UNCHANGED controlVars
  BY DEF Publish, EnqueueMessage, LockPublish, LockNotFull, WaitTimeout, SpuriousWakeup,
         BlockOnNotFull, TryEnqueue, Accept, Commit, RejectReturnFalse, RejectDropNewest,
         RejectDropOldest, RejectFirst, Evict, EvictTake, EvictDrop, EvictNone, PredStopped,
         PredFull, PredTimedOut, WakeDispatcher

(* What the router has taken moves on without overtaking anything. *)
LEMMA StageStep ==
  ASSUME CoreInv, NEW T, Accounted(T), NEW S \in SUBSET T, StageOrder(S),
         \/ \E p \in Publishers :
              Publish(p) \/ EnqueueMessage(p) \/ LockNotFull(p) \/ WaitTimeout(p)
                \/ SpuriousWakeup(p)
         \/ MainLoop
         \/ /\ UNCHANGED <<queueVars, msg>>
            /\ dpc' # "dequeue" \/ dpc = "dequeue"
  PROVE  StageOrder(S)'
<1>1. ASSUME UNCHANGED items, InRouter' \subseteq InRouter PROVE StageOrder(S)'
  BY <1>1, StageFrame DEF Queued
<1>2. ASSUME NEW p \in Publishers, Commit(p), InRouter' = InRouter PROVE StageOrder(S)'
  <2>1. items \in Seq(Q!Items) /\ \A k \in DOMAIN items : items[k] \in Q!Items
    BY DEF CoreInv, CoreTypeOK
  <2>2. /\ DOMAIN items' = DOMAIN items
        /\ \A k \in DOMAIN items : items'[k].val = items[k].val
    BY <1>2, <2>1 DEF Commit, Q!EnqCommit, Q!Items
  <2>3. Queued' = Queued
    BY <2>2 DEF Queued
  <2>4. QED
    BY <1>2, <2>2, <2>3, StageFrame
<1>3. ASSUME NEW p \in Publishers, EvictTake(p), InRouter' = InRouter PROVE StageOrder(S)'
  BY <1>3, StageTake DEF EvictTake, Threads
<1>4. ASSUME NEW p \in Publishers,
             Publish(p) \/ EnqueueMessage(p) \/ LockNotFull(p) \/ WaitTimeout(p)
               \/ SpuriousWakeup(p)
      PROVE  StageOrder(S)'
  <2>1. /\ InRouter' = InRouter
        /\ items' = items \/ Accept(p) \/ Commit(p) \/ EvictTake(p)
    BY <1>4, PublisherFrame
  <2>2. QED
    BY <1>1, <1>2, <1>3, <2>1, StageAccept
<1>5. CASE MainTake
  <2>1. /\ Dispatcher \in Threads /\ Q!DeqTake(Dispatcher) /\ dpc = "dequeue" /\ dpc' = "dequeue"
        /\ msg' = msg
    BY <1>5 DEF MainTake, Threads
  <2>2. hand'[Dispatcher] = items[1].val /\ call'[Dispatcher] = "releasing"
    BY <2>1, TakeFacts
  <2>3. Held' = {}
    BY <2>1 DEF CoreInv, Callers, Held
  <2>4. InRouter' = {items[1].val}
    BY <2>1, <2>2, <2>3 DEF InRouter
  <2>5. QED
    BY <2>1, <2>4, StageTake
<1>6. CASE MainRelease
  <2>1. /\ items' = items /\ dpc = "dequeue" /\ dpc' = "notify" /\ msg' = hand[Dispatcher]
        /\ call[Dispatcher] = "releasing"
    BY <1>6 DEF MainRelease, Q!DeqRelease
  <2>2. InRouter' \subseteq InRouter
    BY <2>1 DEF InRouter, Held
  <2>3. QED
    BY <1>1, <2>1, <2>2
<1>7. CASE Poll \/ PollEmpty \/ DrainEmpty
  <2>1. /\ items' = items /\ Held' = Held /\ Dispatcher \in Threads
        /\ call \in [Threads -> Q!Calls]
    BY <1>7 DEF Poll, PollEmpty, DrainEmpty, Q!DeqInvoke, Q!DeqReject, Held, Threads,
                CoreInv, CoreTypeOK
  <2>2. dpc' # "dequeue" \/ call'[Dispatcher] # "releasing"
    BY <1>7, <2>1 DEF Poll, PollEmpty, DrainEmpty, Q!DeqInvoke, Q!DeqReject
  <2>3. QED
    BY <1>1, <2>1, <2>2 DEF InRouter
<1>8. CASE UNCHANGED <<queueVars, msg>> /\ (dpc' # "dequeue" \/ dpc = "dequeue")
  BY <1>1, <1>8 DEF InRouter, Held
<1>9. CASE NotifyNotFull \/ SetAsleep \/ SleepPredicate \/ FallAsleep \/ SleepTimeout \/ SetAwake
  <2>1. UNCHANGED <<queueVars, msg>> /\ dpc' # "dequeue"
    BY <1>9 DEF NotifyNotFull, SetAsleep, SleepPredicate, FallAsleep, SleepTimeout, SetAwake
  <2>2. QED
    BY <1>8, <2>1
<1>10. QED
  BY <1>4, <1>5, <1>6, <1>7, <1>8, <1>9 DEF MainLoop

-----------------------------------------------------------------------------
(* The workers                                                             *)

(* A step that gives no message to a worker keeps the invariant if it keeps *)
(* its parts about the workers.                                             *)
LEMMA RouteFrame ==
  ASSUME RouteInv, CoreInv', Flow,
         \A S \in SUBSET Away : StageOrder(S) => StageOrder(S)',
         AtWorkers' \subseteq AtWorkers, Away' = Away,
         WorkerTypeOK', WorkerOrder', WorkerControl'
  PROVE  RouteInv'
<1>1. PICK S, T : S = AtWorkers /\ T = Away
  OBVIOUS
<1>2. Accounted(T) /\ S \in SUBSET Away /\ StageOrder(S)
  BY <1>1 DEF RouteInv, Accounted, Away
<1>3. Accounted(T)' /\ StageOrder(S)'
  BY <1>2, AccountedFrame DEF RouteInv
<1>4. Accounted(Away)'
  BY <1>1, <1>3 DEF Accounted
<1>5. StageOrder(AtWorkers)'
  BY <1>1, <1>3 DEF StageOrder
<1>6. QED
  BY <1>4, <1>5 DEF RouteInv

(* A step of the publishers, the router or stop() that leaves the workers   *)
(* and their queues alone                                                   *)
LEMMA WorkersIdle ==
  ASSUME RouteInv, CoreInv', Flow, UNCHANGED workerVars,
         \A S \in SUBSET Away : StageOrder(S) => StageOrder(S)',
         \/ cpc' = cpc
         \/ /\ cpc # "join_workers"
            /\ cpc' \in {"stopped", "starting"} => cpc \in {"stopped", "starting"}
  PROVE  RouteInv'
<1> USE DEF workerVars
<1>1. AtWorkers' = AtWorkers /\ Away' = Away
  BY DEF AtWorkers, AtWorker, Routed, Dispatching, Away
<1>2. WorkerTypeOK' /\ WorkerControl'
  BY DEF RouteInv, WorkerTypeOK, WorkerControl
<1>3. WorkerOrder'
  BY DEF RouteInv, WorkerOrder, AtWorker, Routed, Dispatching
<1>4. QED
  BY <1>1, <1>2, <1>3, RouteFrame

(* A step of one worker leaves the rest alone. *)
LEMMA WorkerFrame ==
  ASSUME RouteInv, UNCHANGED coreVars, AtWorkers' \subseteq AtWorkers, Away' = Away,
         WorkerTypeOK', WorkerOrder', WorkerControl'
  PROVE  RouteInv'
<1>1. CoreInv' /\ Flow
  BY StutterInv DEF RouteInv
<1>2. \A S \in SUBSET Away : StageOrder(S) => StageOrder(S)'
  BY StageStep DEF RouteInv, coreVars
<1>3. QED
  BY <1>1, <1>2, RouteFrame

(* A worker takes the oldest message of its queue in hand. *)
LEMMA WorkerTakeInv ==
  ASSUME RouteInv, NEW w \in Workers, WorkerTake(w)
  PROVE  RouteInv'
<1> DEFINE q == worker_queues[w]
<1> USE DEF RouteInv
<1>1. /\ UNCHANGED <<coreVars, wpc, worker_sleeping, router_drained, delivered>>
      /\ wmsg[w] = NoValue /\ q # <<>> /\ wpc[w] \in {"loop", "drain", "final"}
      /\ wmsg' = [wmsg EXCEPT ![w] = Head(q)]
      /\ worker_queues' = [worker_queues EXCEPT ![w] = Tail(@)]
      /\ widle' = [widle EXCEPT ![w] = 0]
  BY DEF WorkerTake
<1>2. q \in Seq(Messages) /\ Len(q) <= Capacity
  BY DEF WorkerTypeOK
<1>3. /\ Len(q) \in Nat /\ DOMAIN q = 1..Len(q) /\ 1 \in DOMAIN q /\ Head(q) = q[1]
      /\ q[1] \in Messages
      /\ Tail(q) \in Seq(Messages) /\ Len(Tail(q)) = Len(q) - 1
      /\ DOMAIN Tail(q) = 1..(Len(q) - 1)
      /\ \A k \in 1..(Len(q) - 1) : Tail(q)[k] = q[k + 1]
  BY <1>1, <1>2
<1>4. \A v \in Workers : /\ worker_queues'[v] = IF v = w THEN Tail(q) ELSE worker_queues[v]
                         /\ wmsg'[v] = IF v = w THEN q[1] ELSE wmsg[v]
  BY <1>1, <1>3 DEF WorkerTypeOK
<1>5. WorkerTypeOK'
  <2>1. worker_queues' \in [Workers -> Seq(Messages)]
    BY <1>1, <1>3 DEF WorkerTypeOK
  <2>2. \A v \in Workers : Len(worker_queues'[v]) <= Capacity
    <3>1. Len(Tail(q)) <= Capacity
      BY <1>2, <1>3, BusCapacityAssumption
    <3>2. QED
      BY <1>4, <3>1 DEF WorkerTypeOK
  <2>3. widle' \in [Workers -> 0..IdleLimit] /\ wmsg' \in [Workers -> Messages \cup {NoValue}]
    BY <1>1, <1>3, BoundsAssumption DEF WorkerTypeOK
  <2>4. QED
    BY <1>1, <2>1, <2>2, <2>3 DEF WorkerTypeOK
<1>6. \A k \in 1..(Len(q) - 1) : k + 1 \in DOMAIN q /\ 1 < k + 1
  BY <1>3
<1>7. /\ Routed(w) = Routed(w)' \cup {q[1]}
      /\ Routed(w)' = {Tail(q)[k] : k \in 1..(Len(q) - 1)}
  <2>1. Routed(w)' = {Tail(q)[k] : k \in 1..(Len(q) - 1)}
    <3>1. PICK r : r = Tail(q) /\ DOMAIN r = 1..(Len(q) - 1)
      BY <1>3
    <3>2. worker_queues'[w] = r
      BY <1>4, <3>1
    <3>3. QED
      BY <3>1, <3>2, Zenon DEF Routed
  <2>2. \A k \in DOMAIN q : k = 1 \/ (k - 1 \in 1..(Len(q) - 1) /\ (k - 1) + 1 = k)
    BY <1>3
  <2>3. \A m \in Routed(w) : m \in Routed(w)' \cup {q[1]}
    BY <1>3, <2>1, <2>2 DEF Routed
  <2>4. \A m \in Routed(w)' \cup {q[1]} : m \in Routed(w)
    <3>1. Routed(w) = {q[k] : k \in DOMAIN q}
      BY Zenon DEF Routed
    <3>2. ASSUME NEW m \in Routed(w)' PROVE m \in Routed(w)
      <4>1. PICK k \in 1..(Len(q) - 1) : m = Tail(q)[k]
        BY <2>1
      <4>2. k + 1 \in DOMAIN q /\ m = q[k + 1]
        BY <1>3, <1>6, <4>1
      <4> HIDE DEF q
      <4>3. QED
        BY <3>1, <4>2
    <3>3. q[1] \in Routed(w)
      BY <1>3, <3>1
    <3>4. QED
      BY <3>2, <3>3
  <2>5. QED
    BY <2>1, <2>3, <2>4
<1>8. q[1] # NoValue /\ Dispatching(w) = {} /\ Dispatching(w)' = {q[1]}
  BY <1>1, <1>3, <1>4, NoMessageAssumption DEF Dispatching
<1>9. \A v \in Workers : AtWorker(v)' = AtWorker(v)
  <2>1. \A v \in Workers : v # w => Routed(v)' = Routed(v) /\ Dispatching(v)' = Dispatching(v)
    BY <1>4 DEF Routed, Dispatching
  <2>2. AtWorker(w)' = AtWorker(w)
    BY <1>7, <1>8 DEF AtWorker
  <2>3. QED
    BY <2>1, <2>2 DEF AtWorker
<1>10. AtWorkers' = AtWorkers /\ Away' = Away
  BY <1>1, <1>9 DEF AtWorkers, Away
<1>11. WorkerOrder'
  <2>1. \A v \in Workers : /\ \A m \in AtWorker(v)' : WorkerOf[TopicOf[m]] = v
                           /\ AtWorker(v)' \cap delivered' = {}
    BY <1>1, <1>9 DEF WorkerOrder
  <2>2. \A j, k \in DOMAIN Tail(q) : j < k => Before(Tail(q)[j], Tail(q)[k])
    <3> SUFFICES ASSUME NEW j \in 1..(Len(q) - 1), NEW k \in 1..(Len(q) - 1), j < k
                 PROVE  Before(q[j + 1], q[k + 1])
      BY <1>3
    <3>1. j + 1 < k + 1
      OBVIOUS
    <3>2. QED
      BY <1>6, <3>1, ZenonT(40) DEF WorkerOrder
  <2>3. \A m \in Dispatching(w)', n \in Routed(w)' : Before(m, n)
    <3>1. \A n \in Routed(w)' : \E k \in 1..(Len(q) - 1) : n = q[k + 1]
      BY <1>3, <1>7
    <3>2. QED
      BY <1>3, <1>6, <1>8, <3>1 DEF WorkerOrder
  <2>4. \A v \in Workers : v # w => Routed(v)' = Routed(v) /\ Dispatching(v)' = Dispatching(v)
    BY <1>4 DEF Routed, Dispatching
  <2>5. QED
    BY <1>4, <2>1, <2>2, <2>3, <2>4 DEF WorkerOrder
<1>12. WorkerControl'
  BY <1>1, <1>4 DEF WorkerControl, coreVars
<1>13. QED
  BY <1>1, <1>5, <1>10, <1>11, <1>12, WorkerFrame

(* It calls dispatchMessage(msg). *)
LEMMA WorkerDispatchInv ==
  ASSUME RouteInv, NEW w \in Workers, WorkerDispatch(w)
  PROVE  RouteInv'
<1> USE DEF RouteInv
<1>1. /\ UNCHANGED <<coreVars, worker_queues, wpc, widle, worker_sleeping, router_drained>>
      /\ wmsg[w] # NoValue /\ delivered' = delivered \cup {wmsg[w]}
      /\ wmsg' = [wmsg EXCEPT ![w] = NoValue]
  BY DEF WorkerDispatch
<1>2. \A v \in Workers : wmsg'[v] = IF v = w THEN NoValue ELSE wmsg[v]
  BY <1>1 DEF WorkerTypeOK
<1>3. \A v \in Workers : /\ Routed(v)' = Routed(v)
                         /\ Dispatching(v)' = IF v = w THEN {} ELSE Dispatching(v)
  BY <1>1, <1>2 DEF Routed, Dispatching
<1>4. Dispatching(w) = {wmsg[w]} /\ wmsg[w] \in AtWorker(w)
  BY <1>1 DEF Dispatching, AtWorker
<1>5. wmsg[w] \notin Routed(w)
  <2>1. wmsg[w] \in Messages
    BY <1>1 DEF WorkerTypeOK
  <2>2. ~Before(wmsg[w], wmsg[w])
    BY <2>1, BoundsAssumption DEF Before, Messages
  <2>3. QED
    BY <1>4, <2>2 DEF WorkerOrder
<1>6. \A v \in Workers : AtWorker(v)' = AtWorker(v) \ {wmsg[w]}
  <2>1. \A v \in Workers : v # w => wmsg[w] \notin AtWorker(v)
    BY <1>4 DEF WorkerOrder
  <2>2. QED
    BY <1>3, <1>4, <1>5, <2>1 DEF AtWorker
<1>7. AtWorkers' = AtWorkers \ {wmsg[w]} /\ wmsg[w] \in AtWorkers
  BY <1>4, <1>6 DEF AtWorkers
<1>8. Away' = Away
  BY <1>1, <1>7 DEF Away
<1>9. WorkerTypeOK' /\ WorkerControl'
  BY <1>1, <1>2 DEF WorkerTypeOK, WorkerControl, coreVars
<1>10. WorkerOrder'
  BY <1>1, <1>3, <1>6 DEF WorkerOrder
<1>11. QED
  BY <1>1, <1>7, <1>8, <1>9, <1>10, WorkerFrame

(* It polls its empty queue, sleeps, wakes up, or leaves one of its loops. *)
LEMMA WorkerRestInv ==
  ASSUME RouteInv, NEW w \in Workers,
         WorkerIdle(w) \/ WorkerWake(w) \/ WorkerNextLoop(w) \/ WorkerExit(w)
  PROVE  RouteInv'
<1> USE DEF RouteInv
<1>1. UNCHANGED <<coreVars, worker_queues, wmsg, router_drained, delivered>>
  BY DEF WorkerIdle, WorkerWake, WorkerNextLoop, WorkerExit
<1>2. AtWorkers' = AtWorkers /\ Away' = Away /\ WorkerOrder'
  BY <1>1 DEF AtWorkers, AtWorker, Routed, Dispatching, Away, WorkerOrder
<1>3. WorkerTypeOK' /\ WorkerControl'
  <2>1. /\ widle' \in [Workers -> 0..IdleLimit]
        /\ wpc' \in [Workers -> WorkerSteps]
        /\ worker_sleeping' \in [Workers -> BOOLEAN]
    <3>1. widle' = widle \/ (widle[w] < IdleLimit /\ widle' = [widle EXCEPT ![w] = @ + 1])
      BY DEF WorkerIdle, WorkerWake, WorkerNextLoop, WorkerExit
    <3>2. widle' \in [Workers -> 0..IdleLimit]
      <4>1. widle \in [Workers -> 0..IdleLimit]
        BY DEF WorkerTypeOK
      <4>2. widle[w] < IdleLimit => widle[w] + 1 \in 0..IdleLimit
        BY <4>1, BoundsAssumption
      <4>3. QED
        BY <3>1, <4>1, <4>2
    <3>3. PICK s \in WorkerSteps : wpc' = wpc \/ wpc' = [wpc EXCEPT ![w] = s]
      BY DEF WorkerSteps, WorkerIdle, WorkerWake, WorkerNextLoop, WorkerExit
    <3>4. PICK b \in BOOLEAN : \/ worker_sleeping' = worker_sleeping
                               \/ worker_sleeping' = [worker_sleeping EXCEPT ![w] = b]
      BY DEF WorkerIdle, WorkerWake, WorkerNextLoop, WorkerExit
    <3>5. QED
      BY <3>2, <3>3, <3>4 DEF WorkerTypeOK
  <2>2. /\ cpc' = cpc
        /\ \A v \in Workers :
             \/ wpc'[v] = wpc[v]
             \/ /\ wpc[v] \notin {"off", "exited"} /\ wpc'[v] # "off"
                /\ wpc'[v] \in {"final", "exited"} => router_drained
                /\ wpc'[v] = "exited" => worker_queues[v] = <<>> /\ wmsg[v] = NoValue
    BY DEF WorkerTypeOK, WorkerControl, coreVars, WorkerIdle, WorkerWake, WorkerNextLoop,
           WorkerExit
  <2>3. QED
    BY <1>1, <2>1, <2>2 DEF WorkerTypeOK, WorkerControl
<1>4. QED
  BY <1>1, <1>2, <1>3, WorkerFrame

-----------------------------------------------------------------------------
(* The router gives a message to a worker                                  *)

(* It is behind all that the worker has of its publisher.  No worker is in *)
(* its last loop: stop() sets router_drained_ when the router has ended.   *)
LEMMA RouteToWorkerInv ==
  ASSUME RouteInv, RouteToWorker
  PROVE  RouteInv'
<1> USE DEF RouteInv
<1>1. PICK m : m = msg
  OBVIOUS
<1>2. PICK S : S = AtWorkers
  OBVIOUS
<1>3. PICK T : T = Away
  OBVIOUS
<1> DEFINE w == WorkerOf[TopicOf[m]]
<1> DEFINE q == worker_queues[w]
<1>4. /\ MainNextMessage /\ dpc = "handle" /\ dpc' = "loop" /\ msg' = NoValue
      /\ UNCHANGED <<queueVars, cpc>>
      /\ Len(q) < Capacity /\ worker_queues' = [worker_queues EXCEPT ![w] = Append(q, m)]
      /\ UNCHANGED <<wpc, widle, wmsg, worker_sleeping, router_drained, delivered>>
  BY <1>1 DEF RouteToWorker, MainNextMessage
<1>5. CoreInv' /\ m \in Messages /\ m \notin Away /\ Accounted(T \cup {m})'
  BY <1>1, <1>3, <1>4, NextMessageInv, AccountedNext
<1>6. w \in Workers
  BY <1>5, TopicsAssumption
<1>7. /\ q \in Seq(Messages) /\ Len(q) \in Nat /\ DOMAIN q = 1..Len(q)
      /\ Append(q, m) \in Seq(Messages) /\ Len(Append(q, m)) = Len(q) + 1
      /\ DOMAIN Append(q, m) = 1..(Len(q) + 1) /\ Append(q, m)[Len(q) + 1] = m
      /\ \A k \in 1..Len(q) : Append(q, m)[k] = q[k]
  BY <1>5, <1>6 DEF WorkerTypeOK
<1>8. \A v \in Workers : worker_queues'[v] = IF v = w THEN Append(q, m) ELSE worker_queues[v]
  BY <1>4 DEF WorkerTypeOK
<1>9. WorkerTypeOK'
  <2>1. Len(Append(q, m)) <= Capacity
    BY <1>4, <1>7, BusCapacityAssumption
  <2>2. worker_queues' \in [Workers -> Seq(Messages)]
    BY <1>4, <1>6, <1>7 DEF WorkerTypeOK
  <2>3. QED
    BY <1>4, <1>8, <2>1, <2>2 DEF WorkerTypeOK
<1>10. Routed(w)' = Routed(w) \cup {m}
  <2>1. PICK r : r = Append(q, m)
    OBVIOUS
  <2>2. /\ worker_queues'[w] = r /\ DOMAIN r = 1..(Len(q) + 1) /\ r[Len(q) + 1] = m
        /\ \A k \in 1..Len(q) : r[k] = q[k]
    BY <1>6, <1>7, <1>8, <2>1
  <2>3. \A k \in 1..(Len(q) + 1) : k \in 1..Len(q) \/ k = Len(q) + 1
    BY <1>7
  <2>4. 1..Len(q) \subseteq 1..(Len(q) + 1) /\ Len(q) + 1 \in 1..(Len(q) + 1)
    BY <1>7
  <2>5. \A x \in Routed(w)' : x \in Routed(w) \cup {m}
    BY <1>7, <2>2, <2>3 DEF Routed
  <2>6. \A x \in Routed(w) \cup {m} : x \in Routed(w)'
    BY <1>7, <2>2, <2>4 DEF Routed
  <2>7. QED
    BY <2>5, <2>6
<1>11. /\ \A v \in Workers : Dispatching(v)' = Dispatching(v)
       /\ \A v \in Workers : v # w => Routed(v)' = Routed(v)
  BY <1>4, <1>8 DEF Routed, Dispatching
<1>12. \A v \in Workers : AtWorker(v)' = IF v = w THEN AtWorker(w) \cup {m} ELSE AtWorker(v)
  BY <1>10, <1>11 DEF AtWorker
<1>13. AtWorkers' = S \cup {m} /\ Away' = T \cup {m}
  BY <1>2, <1>3, <1>4, <1>6, <1>12 DEF AtWorkers, Away
<1>14. Accounted(Away)'
  BY <1>5, <1>13 DEF Accounted
<1>15. m \in InRouter /\ InRouter' = {} /\ Queued' = Queued
  <2>1. msg # NoValue
    BY <1>4 DEF CoreInv, Callers
  <2>2. QED
    BY <1>1, <1>4, <2>1 DEF InRouter, Held, Queued
<1>16. StageOrder(AtWorkers)'
  BY <1>2, <1>4, <1>13, <1>15 DEF StageOrder, Upstream
<1>17. \A x \in AtWorker(w) : Before(x, m)
  BY <1>6, <1>15 DEF StageOrder, Upstream, AtWorkers
<1>18. WorkerOrder'
  <2>1. \A v \in Workers : /\ \A x \in AtWorker(v)' : WorkerOf[TopicOf[x]] = v
                           /\ AtWorker(v)' \cap delivered' = {}
    BY <1>4, <1>5, <1>12 DEF WorkerOrder, Away
  <2>2. \A j, k \in DOMAIN Append(q, m) : j < k => Before(Append(q, m)[j], Append(q, m)[k])
    <3> SUFFICES ASSUME NEW j \in 1..(Len(q) + 1), NEW k \in 1..(Len(q) + 1), j < k
                 PROVE  Before(Append(q, m)[j], Append(q, m)[k])
      BY <1>7
    <3>1. j \in 1..Len(q) /\ q[j] \in AtWorker(w)
      BY <1>7 DEF AtWorker, Routed
    <3>2. CASE k = Len(q) + 1
      BY <1>7, <1>17, <3>1, <3>2
    <3>3. CASE k \in 1..Len(q)
      BY <1>6, <1>7, <3>1, <3>3 DEF WorkerOrder
    <3>4. QED
      BY <1>7, <3>2, <3>3
  <2>3. \A x \in Dispatching(w), n \in Routed(w)' : Before(x, n)
    BY <1>6, <1>10, <1>17 DEF WorkerOrder, AtWorker
  <2>4. QED
    BY <1>8, <1>11, <2>1, <2>2, <2>3 DEF WorkerOrder
<1>19. WorkerControl'
  <2>1. cpc \notin {"stopped", "starting", "join_workers"}
    BY <1>4 DEF CoreInv, Controlled
  <2>2. QED
    BY <1>4, <2>1 DEF WorkerControl
<1>20. QED
  BY <1>5, <1>9, <1>14, <1>16, <1>18, <1>19

-----------------------------------------------------------------------------
(* start() and stop()                                                      *)

(* The caller of start() and stop() goes on: the next worker is started, or *)
(* the workers are told that the router is gone.                            *)
LEMMA CallerInv ==
  ASSUME CoreInv,
         UNCHANGED <<queueVars, publisherVars, mainVars, policy, running, starts, owed,
                     historyVars>>,
         \/ cpc = "spawn_workers" /\ cpc' \in {"spawn_workers", "started"}
         \/ cpc = "joined" /\ cpc' = "join_workers"
  PROVE  CoreInv' /\ Flow
<1>1. CoreTypeOK' /\ Callers'
  BY DEF CoreInv, CoreTypeOK, ControlSteps, Callers, Mptr
<1>2. DataInv' /\ Flow
  BY DataFrame
<1>3. Policed'
  BY PoliceFrame DEF CoreInv
<1>4. Controlled'
  BY DEF CoreInv, Controlled, Stopping, Down
<1>5. QED
  BY <1>1, <1>2, <1>3, <1>4 DEF CoreInv

(* Every step of start() and stop() keeps the invariant: the queues that   *)
(* stop() clears are those of workers that have ended, which are empty.    *)
LEMMA RouteControlInv ==
  ASSUME RouteInv, MultiController
  PROVE  RouteInv'
<1> USE DEF RouteInv
<1>1. ASSUME UNCHANGED <<queueVars, msg>>, dpc' # "dequeue" \/ dpc = "dequeue"
      PROVE  \A S \in SUBSET Away : StageOrder(S) => StageOrder(S)'
  BY <1>1, StageStep
<1>2. CASE /\ StartFlag \/ StopFlag \/ StopNotify \/ StopNotifyPublishers \/ JoinMain
           /\ UNCHANGED workerVars
  <2>1. /\ UNCHANGED <<queueVars, msg>> /\ (dpc' # "dequeue" \/ dpc = "dequeue")
        /\ cpc # "join_workers" /\ (cpc' \in {"stopped", "starting"} => cpc = "stopped")
    BY <1>2 DEF StartFlag, StopFlag, StopNotify, StopNotifyPublishers, JoinMain
  <2>2. QED
    BY <1>1, <1>2, <2>1, ControlInv, WorkersIdle
<1>3. CASE StartRouter
  <2>1. /\ SpawnMain /\ cpc' = "spawn_workers" /\ UNCHANGED workerVars
        /\ UNCHANGED <<queueVars, msg>> /\ dpc' # "dequeue" /\ cpc = "starting"
    BY <1>3 DEF StartRouter, SpawnMain
  <2>2. QED
    BY <1>1, <2>1, ControlInv, WorkersIdle
<1>4. CASE StartWorker
  <2>1. PICK w : /\ wpc' = [wpc EXCEPT ![w] = "loop"]
                 /\ cpc = "spawn_workers" /\ cpc' \in {"spawn_workers", "started"}
                 /\ UNCHANGED <<queueVars, publisherVars, mainVars, policy, running, starts,
                                owed, historyVars, worker_queues, widle, wmsg,
                                worker_sleeping, router_drained, delivered>>
    BY <1>4 DEF StartWorker
  <2>2. CoreInv' /\ Flow /\ \A S \in SUBSET Away : StageOrder(S) => StageOrder(S)'
    BY <1>1, <2>1, CallerInv
  <2>3. AtWorkers' = AtWorkers /\ Away' = Away /\ WorkerOrder'
    <3>1. UNCHANGED <<worker_queues, wmsg, delivered>>
      BY <2>1
    <3>2. QED
      BY <3>1 DEF AtWorkers, AtWorker, Routed, Dispatching, Away, WorkerOrder
  <2>4. WorkerTypeOK' /\ WorkerControl'
    BY <2>1 DEF WorkerTypeOK, WorkerSteps, WorkerControl
  <2>5. QED
    BY <2>2, <2>3, <2>4, RouteFrame
<1>5. CASE RouterDrained
  <2>1. /\ cpc = "joined" /\ cpc' = "join_workers" /\ router_drained' = TRUE
        /\ UNCHANGED <<queueVars, publisherVars, mainVars, policy, running, starts, owed,
                       historyVars, worker_queues, wpc, widle, wmsg, worker_sleeping,
                       delivered>>
    BY <1>5 DEF RouterDrained
  <2>2. CoreInv' /\ Flow /\ \A S \in SUBSET Away : StageOrder(S) => StageOrder(S)'
    BY <1>1, <2>1, CallerInv
  <2>3. AtWorkers' = AtWorkers /\ Away' = Away /\ WorkerOrder'
    <3>1. UNCHANGED <<worker_queues, wmsg, delivered>>
      BY <2>1
    <3>2. QED
      BY <3>1 DEF AtWorkers, AtWorker, Routed, Dispatching, Away, WorkerOrder
  <2>4. WorkerTypeOK' /\ WorkerControl'
    BY <2>1 DEF WorkerTypeOK, WorkerControl
  <2>5. QED
    BY <2>2, <2>3, <2>4, RouteFrame
<1>6. CASE JoinWorkers
  <2>1. /\ cpc = "join_workers" /\ StopEnd /\ \A w \in Workers : wpc[w] = "exited"
        /\ worker_queues' = [w \in Workers |-> <<>>]
        /\ wpc' = [w \in Workers |-> "off"]
        /\ widle' = [w \in Workers |-> 0]
        /\ wmsg' = [w \in Workers |-> NoValue]
        /\ worker_sleeping' = [w \in Workers |-> FALSE]
        /\ router_drained' = FALSE
        /\ UNCHANGED delivered
    BY <1>6 DEF JoinWorkers
  <2>2. UNCHANGED <<queueVars, msg, dpc>>
    BY <2>1 DEF StopEnd
  <2>3. CoreInv' /\ Flow /\ \A S \in SUBSET Away : StageOrder(S) => StageOrder(S)'
    BY <1>1, <2>1, <2>2, ControlInv
  <2>4. \A w \in Workers : worker_queues[w] = <<>> /\ wmsg[w] = NoValue
    BY <2>1 DEF WorkerControl
  <2>5. worker_queues' = worker_queues /\ wmsg' = wmsg
    BY <2>1, <2>4 DEF WorkerTypeOK
  <2>6. AtWorkers' = AtWorkers /\ Away' = Away /\ WorkerOrder'
    BY <2>1, <2>5 DEF AtWorkers, AtWorker, Routed, Dispatching, Away, WorkerOrder
  <2>7. WorkerTypeOK'
    <3>1. 0 \in 0..IdleLimit
      BY BoundsAssumption
    <3>2. QED
      BY <2>1, <2>5, <3>1 DEF WorkerTypeOK, WorkerSteps
  <2>8. WorkerControl'
    BY <2>1, <2>4, <2>5 DEF WorkerControl
  <2>9. QED
    BY <2>3, <2>6, <2>7, <2>8, RouteFrame
<1>7. QED
  BY <1>2, <1>3, <1>4, <1>5, <1>6 DEF MultiController

-----------------------------------------------------------------------------
(* The theorems                                                            *)

(* Every step of every thread keeps the invariant. *)
LEMMA RouteNextInv == RouteInv /\ [MultiNext]_multiVars => RouteInv'
<1> SUFFICES ASSUME RouteInv, [MultiNext]_multiVars PROVE RouteInv'
  OBVIOUS
<1>1. ASSUME NEW p \in Publishers, MultiPublisher(p) PROVE RouteInv'
  <2>1. CoreInv' /\ Flow /\ cpc' = cpc /\ UNCHANGED workerVars
    BY <1>1, PublisherInv, PublisherCaller DEF MultiPublisher, RouteInv
  <2>2. \A S \in SUBSET Away : StageOrder(S) => StageOrder(S)'
    BY <1>1, StageStep DEF MultiPublisher, RouteInv
  <2>3. QED
    BY <2>1, <2>2, WorkersIdle
<1>2. CASE MainLoop /\ UNCHANGED workerVars
  <2>1. CoreInv' /\ Flow
    BY <1>2, MainInv DEF RouteInv
  <2>2. \A S \in SUBSET Away : StageOrder(S) => StageOrder(S)'
    BY <1>2, StageStep DEF RouteInv
  <2>3. cpc' = cpc
    BY <1>2 DEF MainLoop, Poll, MainTake, MainRelease, PollEmpty, DrainEmpty, NotifyNotFull,
                SetAsleep, SleepPredicate, FallAsleep, SleepTimeout, SetAwake
  <2>4. QED
    BY <1>2, <2>1, <2>2, <2>3, WorkersIdle
<1>3. ASSUME NEW w \in Workers, WorkerLoop(w) PROVE RouteInv'
  BY <1>3, WorkerTakeInv, WorkerDispatchInv, WorkerRestInv DEF WorkerLoop
<1>4. CASE UNCHANGED multiVars
  <2>1. UNCHANGED coreVars /\ UNCHANGED workerVars /\ UNCHANGED <<queueVars, msg, dpc, cpc>>
    BY <1>4 DEF multiVars, coreVars
  <2>2. CoreInv' /\ Flow
    BY <2>1, StutterInv DEF RouteInv
  <2>3. \A S \in SUBSET Away : StageOrder(S) => StageOrder(S)'
    BY <2>1, StageStep DEF RouteInv
  <2>4. QED
    BY <2>1, <2>2, <2>3, WorkersIdle
<1>5. QED
  BY <1>1, <1>2, <1>3, <1>4, RouteToWorkerInv, RouteControlInv DEF MultiNext, RouterLoop

(* A message of enqueueMessage() is in one place at a time, from publish() *)
(* through the router and one worker to its handlers, the messages of a    *)
(* publisher on a topic in their order.                                    *)
THEOREM RouteInvariant == MultiSpec => []RouteInv
<1>1. MultiInit => RouteInv
  <2> SUFFICES ASSUME MultiInit PROVE RouteInv
    OBVIOUS
  <2>1. /\ CoreInv /\ Placed = {} /\ reported = {} /\ refused = {} /\ msg = NoValue
        /\ items = <<>> /\ dpc = "off" /\ cpc = "stopped"
        /\ \A p \in Publishers : ppc[p] = "idle" /\ call[p] = "idle"
    BY CoreInitInv DEF MultiInit, CoreInit, Q!QueueInit, Threads
  <2>2. /\ delivered = {} /\ router_drained = FALSE
        /\ \A w \in Workers : worker_queues[w] = <<>> /\ wmsg[w] = NoValue /\ wpc[w] = "off"
    BY DEF MultiInit
  <2>3. AtWorkers = {} /\ Away = {} /\ InRouter = {} /\ Queued = {}
    BY <2>1, <2>2 DEF AtWorkers, AtWorker, Routed, Dispatching, Away, InRouter, Held, Queued
  <2>4. Accounted(Away)
    BY <2>1, <2>3 DEF Accounted, Open, Settled
  <2>5. WorkerTypeOK
    <3>1. 0 \in 0..IdleLimit /\ 0 <= Capacity
      BY BoundsAssumption, BusCapacityAssumption
    <3>2. worker_queues \in [Workers -> Seq(Messages)]
      BY DEF MultiInit
    <3>3. \A w \in Workers : Len(worker_queues[w]) <= Capacity
      BY <2>2, <3>1
    <3>4. QED
      BY <3>1, <3>2, <3>3 DEF MultiInit, WorkerTypeOK, WorkerSteps
  <2>6. WorkerOrder /\ WorkerControl
    BY <2>1, <2>2 DEF WorkerOrder, WorkerControl, AtWorker, Routed, Dispatching
  <2>7. StageOrder(AtWorkers)
    BY <2>1, <2>3 DEF StageOrder
  <2>8. QED
    BY <2>1, <2>4, <2>5, <2>6, <2>7 DEF RouteInv
<1>2. QED
  BY <1>1, RouteNextInv, PTL DEF MultiSpec

(* A worker has only messages of its own topics, and none that is elsewhere. *)
LEMMA OneWorker ==
  ASSUME RouteInv, NEW v \in Workers, NEW w \in Workers, v # w
  PROVE  AtWorker(v) \cap AtWorker(w) = {}
  BY DEF RouteInv, WorkerOrder

(* No message is lost between the queues or dispatched twice, with any      *)
(* number of workers and under every policy.                                *)
THEOREM NothingLostHolds == MultiSpec => []NothingLost
<1>1. RouteInv => NothingLost
  <2> SUFFICES ASSUME RouteInv PROVE NothingLost
    OBVIOUS
  <2> USE DEF RouteInv
  <2>1. MultiTypeOK
    BY DEF CoreInv, WorkerTypeOK, MultiTypeOK, Accounted, Away
  <2>2. delivered \cap AtWorkers = {}
    BY DEF WorkerOrder, AtWorkers
  <2>3. dropped \cap (Queued \cup Taken \cup Held) = {}
    BY DEF CoreInv, DataInv, OnePlace
  <2>4. /\ reported \subseteq OnTheWay \cup delivered \cup dropped
        /\ OnTheWay \cap (delivered \cup dropped) = {}
        /\ refused \cap (OnTheWay \cup delivered) = {}
    BY <2>2, <2>3 DEF Accounted, Away, Placed, OnTheWay
  <2>5. QED
    BY <2>1, <2>4, OneWorker DEF NothingLost
<1>2. QED
  BY <1>1, RouteInvariant, PTL

(* What routeToWorker() is for: the messages of a publisher on a topic are  *)
(* dispatched in the order of their publish() calls, however workers and    *)
(* router interleave.                                                       *)
THEOREM TopicOrderHolds == MultiSpec => []TopicOrder
<1>1. RouteInv => TopicOrder
  <2> SUFFICES ASSUME RouteInv, NEW w \in Workers, NEW m \in Dispatching(w),
                      NEW n \in Queued \cup InRouter \cup AtWorkers,
                      m[1] = n[1], TopicOf[m] = TopicOf[n]
               PROVE  n[2] >= m[2]
    BY DEF TopicOrder
  <2> USE DEF RouteInv
  <2>1. m \in AtWorker(w) /\ m \in AtWorkers
    BY DEF AtWorker, AtWorkers
  <2>2. m \in Messages /\ n \in Messages
    BY <2>1, UpstreamType DEF Accounted, Away, Upstream
  <2>3. m[2] \in Int /\ n[2] \in Int
    BY <2>2, BoundsAssumption DEF Messages
  <2>4. CASE n \in Queued \cup InRouter
    BY <2>1, <2>3, <2>4 DEF StageOrder, Upstream, Before
  <2>5. CASE n \in AtWorkers
    <3>1. PICK v \in Workers : n \in AtWorker(v)
      BY <2>5 DEF AtWorkers
    <3>2. v = w
      BY <2>1, <3>1 DEF WorkerOrder
    <3>3. n = m \/ n \in Routed(w)
      BY <3>1, <3>2 DEF AtWorker, Dispatching
    <3>4. QED
      BY <2>3, <3>3 DEF WorkerOrder, Before
  <2>6. QED
    BY <2>4, <2>5
<1>2. QED
  BY <1>1, RouteInvariant, PTL

(* When stop() has joined the router and the workers, whatever publish() had *)
(* reported before it was called has been dispatched or dropped, is being    *)
(* dropped, or waits behind a message whose publish() had not returned.      *)
THEOREM MultiStopDrainsHolds == MultiSpec => []StopDrains
<1>1. RouteInv => StopDrains
  <2> SUFFICES ASSUME RouteInv, cpc = "stopped"
               PROVE  /\ owed \subseteq delivered \cup dropped \cup Taken \cup Queued
                      /\ \A k \in DOMAIN items : items[k].val \in owed =>
                           \E j \in 1..(k - 1) : items[j].val \notin owed
    BY DEF StopDrains
  <2> USE DEF RouteInv, CoreInv
  <2>1. dpc = "off" /\ Down /\ owed \subseteq reported
    BY DEF Controlled, Down
  <2>2. Held = {}
    BY <2>1 DEF Callers, Held
  <2>3. AtWorkers = {}
    BY DEF WorkerControl, AtWorkers, AtWorker, Routed, Dispatching
  <2>4. QED
    BY <2>1, <2>2, <2>3 DEF Controlled, Accounted, Away, Placed
<1>2. QED
  BY <1>1, RouteInvariant, PTL
=============================================================================
