----------------------------- MODULE MultiDispatch -----------------------------
(***************************************************************************)
(* MessageBus with several dispatchers: BusCore with routerLoop as its main *)
(* loop, and one worker thread per dispatcher, each with a queue that only *)
(* the router fills and only the worker empties.  Such a queue is a plain  *)
(* bounded sequence: a half-done operation of the other side only makes    *)
(* the router or the worker try again, and the last draining loop runs     *)
(* when the router is gone.                                                *)
(***************************************************************************)
EXTENDS BusCore

CONSTANTS NumWorkers,  \* num_dispatchers_
          Topics,
          TopicOf,     \* the topic each message is published to
          WorkerOf     \* std::hash of a topic, modulo num_dispatchers_

Workers == 0..(NumWorkers - 1)

ASSUME WorkersAssumption == NumWorkers \in Nat /\ NumWorkers >= 2
ASSUME TopicsAssumption == /\ TopicOf \in [Messages -> Topics]
                           /\ WorkerOf \in [Topics -> Workers]

VARIABLES worker_queues,
          wpc,              \* where each worker is
          widle,            \* its idle
          wmsg,             \* the message it dispatches
          worker_sleeping, router_drained

workerVars == <<worker_queues, wpc, widle, wmsg, worker_sleeping, router_drained, delivered>>
multiVars == <<coreVars, workerVars>>

WorkerSteps == {"off", "loop", "asleep", "drain", "final", "exited"}

MultiTypeOK ==
  /\ CoreTypeOK
  /\ worker_queues \in [Workers -> Seq(Messages)]
  /\ \A w \in Workers : Len(worker_queues[w]) <= Capacity
  /\ wpc \in [Workers -> WorkerSteps]
  /\ widle \in [Workers -> 0..IdleLimit]
  /\ wmsg \in [Workers -> Messages \cup {NoValue}]
  /\ worker_sleeping \in [Workers -> BOOLEAN]
  /\ router_drained \in BOOLEAN
  /\ delivered \subseteq Messages

MultiInit ==
  /\ CoreInit
  /\ worker_queues = [w \in Workers |-> <<>>]
  /\ wpc = [w \in Workers |-> "off"]
  /\ widle = [w \in Workers |-> 0]
  /\ wmsg = [w \in Workers |-> NoValue]
  /\ worker_sleeping = [w \in Workers |-> FALSE]
  /\ router_drained = FALSE
  /\ delivered = {}

-----------------------------------------------------------------------------
(* Mutant: any worker whose queue has room. *)
RouteAnywhere ==
  /\ MainNextMessage
  /\ \E w \in Workers :
       /\ Len(worker_queues[w]) < Capacity
       /\ worker_queues' = [worker_queues EXCEPT ![w] = Append(@, msg)]
  /\ UNCHANGED <<wpc, widle, wmsg, worker_sleeping, router_drained, delivered>>

(* routeToWorker(msg).  While the worker's queue is full the router yields  *)
(* and tries again.  The notification of wakeWorker only makes a sleeping   *)
(* worker evaluate its predicate again, which is false while running_.      *)
RouteToWorker ==
  LET w == WorkerOf[TopicOf[msg]] IN
  /\ MainNextMessage
  /\ Len(worker_queues[w]) < Capacity
  /\ worker_queues' = [worker_queues EXCEPT ![w] = Append(@, msg)]
  /\ UNCHANGED <<wpc, widle, wmsg, worker_sleeping, router_drained, delivered>>

-----------------------------------------------------------------------------
(* workerLoop(w)                                                           *)

(* try_dequeue succeeds in any of the three loops. *)
WorkerTake(w) ==
  /\ \/ wpc[w] = "loop" /\ running
     \/ wpc[w] = "drain" /\ ~router_drained
     \/ wpc[w] = "final"
  /\ wmsg[w] = NoValue
  /\ worker_queues[w] # <<>>
  /\ wmsg' = [wmsg EXCEPT ![w] = Head(worker_queues[w])]
  /\ worker_queues' = [worker_queues EXCEPT ![w] = Tail(@)]
  /\ widle' = [widle EXCEPT ![w] = 0]
  /\ UNCHANGED <<coreVars, wpc, worker_sleeping, router_drained, delivered>>

(* dispatchMessage(msg) *)
WorkerDispatch(w) ==
  /\ wmsg[w] # NoValue
  /\ delivered' = delivered \cup {wmsg[w]}
  /\ wmsg' = [wmsg EXCEPT ![w] = NoValue]
  /\ UNCHANGED <<coreVars, worker_queues, wpc, widle, worker_sleeping, router_drained>>

WorkerIdle(w) ==
  /\ wpc[w] = "loop" /\ running
  /\ wmsg[w] = NoValue
  /\ worker_queues[w] = <<>>
  /\ \/ /\ widle[w] < IdleLimit
        /\ widle' = [widle EXCEPT ![w] = @ + 1]
        /\ UNCHANGED <<wpc, worker_sleeping>>
     \/ /\ widle[w] = IdleLimit
        /\ wpc' = [wpc EXCEPT ![w] = "asleep"]
        /\ worker_sleeping' = [worker_sleeping EXCEPT ![w] = TRUE]
        /\ UNCHANGED widle
  /\ UNCHANGED <<coreVars, worker_queues, wmsg, router_drained, delivered>>

(* One millisecond has passed, or stop() has notified. *)
WorkerWake(w) ==
  /\ wpc[w] = "asleep"
  /\ wpc' = [wpc EXCEPT ![w] = "loop"]
  /\ worker_sleeping' = [worker_sleeping EXCEPT ![w] = FALSE]
  /\ UNCHANGED <<coreVars, worker_queues, widle, wmsg, router_drained, delivered>>

(* Mutant: a worker ends without waiting for the router. *)
WorkerAhead(w) ==
  /\ wmsg[w] = NoValue
  /\ wpc[w] = "loop" /\ ~running
  /\ wpc' = [wpc EXCEPT ![w] = "final"]
  /\ UNCHANGED <<coreVars, worker_queues, widle, wmsg, worker_sleeping,
                 router_drained, delivered>>

(* The conditions of the first and the second loop turn false. *)
WorkerNextLoop(w) ==
  /\ wmsg[w] = NoValue
  /\ \/ /\ wpc[w] = "loop" /\ ~running
        /\ wpc' = [wpc EXCEPT ![w] = "drain"]
     \/ /\ wpc[w] = "drain" /\ router_drained
        /\ wpc' = [wpc EXCEPT ![w] = "final"]
  /\ UNCHANGED <<coreVars, worker_queues, widle, wmsg, worker_sleeping,
                 router_drained, delivered>>

WorkerExit(w) ==
  /\ wpc[w] = "final"
  /\ wmsg[w] = NoValue
  /\ worker_queues[w] = <<>>
  /\ wpc' = [wpc EXCEPT ![w] = "exited"]
  /\ UNCHANGED <<coreVars, worker_queues, widle, wmsg, worker_sleeping,
                 router_drained, delivered>>

WorkerLoop(w) ==
  \/ WorkerTake(w)
  \/ WorkerDispatch(w)
  \/ WorkerIdle(w)
  \/ WorkerWake(w)
  \/ WorkerNextLoop(w)
  \/ WorkerExit(w)

-----------------------------------------------------------------------------
(* start() and stop()                                                      *)

(* The router is started first ... *)
StartRouter ==
  /\ SpawnMain
  /\ cpc' = "spawn_workers"
  /\ UNCHANGED workerVars

(* ... then the workers in turn. *)
StartWorker ==
  LET w == Cardinality({v \in Workers : wpc[v] # "off"}) IN
  /\ cpc = "spawn_workers"
  /\ wpc' = [wpc EXCEPT ![w] = "loop"]
  /\ cpc' = IF w = NumWorkers - 1 THEN "started" ELSE cpc
  /\ UNCHANGED <<queueVars, publisherVars, mainVars, policy, running, starts, owed,
                 historyVars, worker_queues, widle, wmsg, worker_sleeping,
                 router_drained, delivered>>

(* Mutant: the workers are joined before the router. *)
RouterNotJoined ==
  /\ cpc = "join"
  /\ router_drained' = TRUE
  /\ cpc' = "join_workers"
  /\ UNCHANGED <<queueVars, publisherVars, mainVars, policy, running, starts, owed,
                 historyVars, worker_queues, wpc, widle, wmsg, worker_sleeping,
                 delivered>>

(* Mutant: router_drained_ is not set. *)
RouterDrainedUnset ==
  /\ cpc = "joined"
  /\ cpc' = "join_workers"
  /\ UNCHANGED <<queueVars, publisherVars, mainVars, policy, running, starts, owed,
                 historyVars, workerVars>>

(* The router has been joined: router_drained_.store(true). *)
RouterDrained ==
  /\ cpc = "joined"
  /\ router_drained' = TRUE
  /\ cpc' = "join_workers"
  /\ UNCHANGED <<queueVars, publisherVars, mainVars, policy, running, starts, owed,
                 historyVars, worker_queues, wpc, widle, wmsg, worker_sleeping,
                 delivered>>

(* The workers have been joined: their queues are cleared. *)
JoinWorkers ==
  /\ cpc = "join_workers"
  /\ \A w \in Workers : wpc[w] = "exited"
  /\ StopEnd
  /\ worker_queues' = [w \in Workers |-> <<>>]
  /\ wpc' = [w \in Workers |-> "off"]
  /\ widle' = [w \in Workers |-> 0]
  /\ wmsg' = [w \in Workers |-> NoValue]
  /\ worker_sleeping' = [w \in Workers |-> FALSE]
  /\ router_drained' = FALSE
  /\ UNCHANGED delivered

MultiController ==
  \/ /\ StartFlag \/ StopFlag \/ StopNotify \/ StopNotifyPublishers \/ JoinMain
     /\ UNCHANGED workerVars
  \/ StartRouter
  \/ StartWorker
  \/ RouterDrained
  \/ JoinWorkers

RouterLoop == (MainLoop /\ UNCHANGED workerVars) \/ RouteToWorker

MultiPublisher(p) ==
  /\ Publish(p) \/ EnqueueMessage(p) \/ LockNotFull(p) \/ WaitTimeout(p) \/ SpuriousWakeup(p)
  /\ UNCHANGED workerVars

MultiNext ==
  \/ \E p \in Publishers : MultiPublisher(p)
  \/ RouterLoop
  \/ \E w \in Workers : WorkerLoop(w)
  \/ MultiController

MultiSpec == MultiInit /\ [][MultiNext]_multiVars
-----------------------------------------------------------------------------
(* Safety                                                                  *)

Routed(w) == {worker_queues[w][k] : k \in DOMAIN worker_queues[w]}
Dispatching(w) == IF wmsg[w] = NoValue THEN {} ELSE {wmsg[w]}
AtWorker(w) == Routed(w) \cup Dispatching(w)
AtWorkers == UNION {AtWorker(w) : w \in Workers}

(* What the router has taken off the main queue for a worker *)
InRouter == Held \cup (IF dpc = "dequeue" /\ call[Dispatcher] = "releasing"
                      THEN {hand[Dispatcher]} ELSE {})

OnTheWay == Queued \cup Taken \cup Held \cup AtWorkers

(* No message is lost between the queues, however stop() overlaps with the  *)
(* router and the workers, and none is dispatched twice (routerLoop,        *)
(* workerLoop and the order of the joins in stop(), lines 135-164), and     *)
(* queues, threads and flags keep their types.                              *)
NothingLost ==
  /\ MultiTypeOK
  /\ reported \subseteq OnTheWay \cup delivered \cup dropped
  /\ OnTheWay \cap (delivered \cup dropped) = {}
  /\ refused \cap (OnTheWay \cup delivered) = {}
  /\ \A v, w \in Workers : v # w => AtWorker(v) \cap AtWorker(w) = {}

(* "Messages with the same topic always go to the same worker (ordering     *)
(* guarantee)" (line 724): when a message is dispatched no earlier one of   *)
(* its publisher on its topic is still on its way, or with another worker,  *)
(* unless a publisher is about to drop it.                                  *)
TopicOrder ==
  \A w \in Workers : \A m \in Dispatching(w), n \in Queued \cup InRouter \cup AtWorkers :
    m[1] = n[1] /\ TopicOf[m] = TopicOf[n] => n[2] >= m[2]

-----------------------------------------------------------------------------
(* The router, the workers and a call of start() or stop() are scheduled.    *)
(* Publishers may stall anywhere, inside the queue too.                      *)
MultiFairness ==
  /\ WF_multiVars(RouterLoop)
  /\ \A w \in Workers : WF_multiVars(WorkerLoop(w))
  /\ WF_multiVars(MultiController /\ cpc \notin {"stopped", "started"})

MultiFairSpec == MultiSpec /\ MultiFairness
===============================================================================
