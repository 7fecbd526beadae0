------------------------------ MODULE MessageBus ------------------------------
(***************************************************************************)
(* MessageBus with one dispatcher thread: BusCore with dispatchLoop as its *)
(* main loop, start() that spawns it and stop() that joins it.             *)
(***************************************************************************)
EXTENDS BusCore

vars == <<coreVars, delivered>>

TypeOK == CoreTypeOK /\ delivered \subseteq Messages

Init == CoreInit /\ delivered = {}

(* dispatchMessage(msg): the handlers run, here, on the dispatcher thread. *)
DispatchMessage ==
  /\ MainNextMessage
  /\ delivered' = delivered \cup {msg}

Start == SpawnMain /\ cpc' = "started"

Stop == cpc = "joined" /\ StopEnd

Publisher(p) == (Publish(p) \/ EnqueueMessage(p)) /\ UNCHANGED delivered

(* What the waits of a publisher do besides its own steps. *)
Waiter(p) ==
  /\ LockNotFull(p) \/ WaitTimeout(p) \/ SpuriousWakeup(p)
  /\ UNCHANGED delivered

DispatchLoop == (MainLoop /\ UNCHANGED delivered) \/ DispatchMessage

Controller ==
  /\ \/ StartFlag
     \/ Start
     \/ StopFlag
     \/ StopNotify
     \/ StopNotifyPublishers
     \/ JoinMain
     \/ Stop
  /\ UNCHANGED delivered

Next ==
  \/ \E p \in Publishers : Publisher(p) \/ Waiter(p)
  \/ DispatchLoop
  \/ Controller

Spec == Init /\ [][Next]_vars
-----------------------------------------------------------------------------
(* Safety                                                                  *)

(* Every message is in one place.  publish() that returned true has left it *)
(* in the queue, in the hands of the thread that dequeued it, delivered or  *)
(* handed to notify_drop; publish() that returned false has left it nowhere *)
(* (enqueueMessage, lines 548-643, under every policy).                     *)
Conservation ==
  /\ Cardinality(Queued) = Len(items)
  /\ \A t, u \in Threads :
       call[t] = "releasing" /\ call[u] = "releasing" /\ hand[t] = hand[u] => t = u
  /\ LET places == <<Queued, Taken, Held, delivered, dropped>>
     IN \A i, j \in DOMAIN places : i # j => places[i] \cap places[j] = {}
  /\ reported \subseteq Queued \cup Taken \cup Held \cup delivered \cup dropped
  /\ refused \cap (Queued \cup Taken \cup Held \cup delivered \cup dropped) = {}

(* Messages are dispatched in the order in which they were published: a     *)
(* message whose publish() had returned when another's was called does not  *)
(* wait in the queue while that one is dispatched, whoever published them   *)
(* and whatever refusals, waits and evictions came between.                 *)
DispatchOrder == \A m \in Held : ahead[m] = {}

-----------------------------------------------------------------------------
(* Fairness: every thread inside the bus is scheduled, a mutex released     *)
(* again and again is not withheld from one thread for ever, and timeouts   *)
(* expire, however often a waiter is woken before.  Nobody has to call      *)
(* publish(), start() or stop(), and no wake-up is owed to a waiter that    *)
(* nothing notifies.                                                        *)
Fairness ==
  /\ WF_vars(DispatchLoop)
  /\ \A p \in Publishers :
       /\ WF_vars(EnqueueMessage(p) /\ UNCHANGED delivered)
       /\ SF_vars((LockPublish(p) \/ LockNotFull(p)) /\ UNCHANGED delivered)
       /\ SF_vars(WaitTimeout(p) /\ UNCHANGED delivered)
  /\ WF_vars(Controller /\ cpc \notin {"stopped", "started"})

FairSpec == Spec /\ Fairness

(* What publish() reported is dispatched or dropped if the bus keeps running *)
(* (publishers make finitely many calls, so that all of it is in the end).   *)
Delivery == <>[]running => <>[](reported \subseteq delivered \cup dropped)

(* publish() returns: "Block up to a timeout, then return", "Drop the       *)
(* oldest message; always succeeds" (lines 40-43), although the dispatcher  *)
(* races for the cells it waits for and may leave it unnotified.            *)
PublishReturns ==
  policy # "Block" => \A p \in Publishers : ppc[p] # "idle" ~> ppc[p] = "idle"

(* "Block until space is available (or bus stops)" (line 42): the           *)
(* dispatcher makes space again and again, so that publish() returns.       *)
BlockReturns ==
  policy = "Block" => \A p \in Publishers : ppc[p] # "idle" ~> ppc[p] = "idle"
===============================================================================
