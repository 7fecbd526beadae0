------------------------------ MODULE AsyncWait ------------------------------
(***************************************************************************)
(* co_await bus.async_wait<T>(topic) (AsyncWaitAwaitable): one coroutine   *)
(* that awaits one message, the thread that starts and owns it, and        *)
(* dispatchers that resume it from the handler it has subscribed.          *)
(*                                                                         *)
(* The coroutine is suspended before await_suspend runs, so a dispatcher   *)
(* may resume it while its owner is still inside subscribe().  What        *)
(* subscribe() and unsubscribe() do is cut to this one subscription; module *)
(* Subscriptions has them whole.  The owner may destroy the coroutine      *)
(* while it is suspended.  Memory is sequentially consistent.              *)
(***************************************************************************)
EXTENDS Integers, FiniteSets

CONSTANTS Owner, Dispatchers, Messages, NoMessage

ASSUME OwnerAssumption == Owner \notin Dispatchers
ASSUME NoMessageAssumption == NoMessage \notin Messages

Threads == {Owner} \cup Dispatchers
Id == 1
NoId == 0

VARIABLES
  listed,    \* the handler is in the slot that dispatchers find
  mapped,    \* its id is in sub_to_topic_
  sub_id, fired, result,  \* the SharedState
  coro,      \* the coroutine
  pc,        \* where each thread is
  msg,       \* the message each dispatcher dispatches
  id,        \* the id each thread unsubscribes
  pending,   \* messages not dispatched yet
  resumes,   \* how often the coroutine was resumed
  winner,    \* the message whose handler won the guard
  awaited    \* the message co_await returned

sharedState == <<sub_id, fired, result>>
subscription == <<listed, mapped>>
history == <<resumes, winner, awaited>>
vars == <<subscription, sharedState, coro, pc, msg, id, pending, history>>

(* await_suspend on the owner's thread *)
SuspendSteps == {"start", "register", "assign", "waiting"}
(* unsubscribe() in await_resume and in the destructor *)
UnsubscribeSteps == {"resume", "erase", "remove", "clear", "destroy", "d_erase", "d_remove"}
HandlerSteps == {"idle", "handler", "write", "call"}

TypeOK ==
  /\ listed \in BOOLEAN /\ mapped \in BOOLEAN
  /\ sub_id \in {NoId, Id} /\ fired \in BOOLEAN
  /\ result \in Messages \cup {NoMessage}
  /\ \A d \in Dispatchers : pc[d] \in {"call"} \cup UnsubscribeSteps => result # NoMessage
  /\ coro \in {"running", "suspended", "finished", "destroyed"}
  /\ pc \in [Threads -> SuspendSteps \cup UnsubscribeSteps \cup HandlerSteps \cup {"gone"}]
  /\ msg \in [Dispatchers -> Messages \cup {NoMessage}]
  /\ id \in [Threads -> {NoId, Id}]
  /\ pending \subseteq Messages
  /\ resumes \in 0..Cardinality(Messages)
  /\ winner \in Messages \cup {NoMessage}
  /\ awaited \in Messages \cup {NoMessage}

Init ==
  /\ listed = FALSE /\ mapped = FALSE
  /\ sub_id = NoId /\ fired = FALSE /\ result = NoMessage
  /\ coro = "suspended"
  /\ pc = [t \in Threads |-> IF t = Owner THEN "start" ELSE "idle"]
  /\ msg = [d \in Dispatchers |-> NoMessage]
  /\ id = [t \in Threads |-> NoId]
  /\ pending = Messages
  /\ resumes = 0 /\ winner = NoMessage /\ awaited = NoMessage

Goto(t, step) == pc' = [pc EXCEPT ![t] = step]

-----------------------------------------------------------------------------
(* await_suspend                                                           *)

(* subscribe(): the handler is in the slot ...                             *)
AddSubscriber ==
  /\ pc[Owner] = "start"
  /\ listed' = TRUE
  /\ Goto(Owner, "register")
  /\ UNCHANGED <<mapped, sharedState, coro, msg, id, pending, history>>

(* ... then its id is in sub_to_topic_, and subscribe() returns.           *)
Register ==
  /\ pc[Owner] = "register"
  /\ mapped' = TRUE
  /\ Goto(Owner, "assign")
  /\ UNCHANGED <<listed, sharedState, coro, msg, id, pending, history>>

(* s->sub_id = ..., a field that the resumed coroutine reads and writes    *)
AssignId ==
  /\ pc[Owner] = "assign"
  /\ sub_id' = Id
  /\ Goto(Owner, "waiting")
  /\ UNCHANGED <<subscription, fired, result, coro, msg, id, pending, history>>

(* The owner destroys the suspended coroutine: ~AsyncWaitAwaitable.        *)
DestroyCoroutine ==
  /\ pc[Owner] = "waiting"
  /\ coro = "suspended"
  /\ coro' = "destroyed"
  /\ Goto(Owner, "destroy")
  /\ UNCHANGED <<subscription, sharedState, msg, id, pending, history>>

-----------------------------------------------------------------------------
(* The handler                                                             *)

(* A dispatcher has loaded a list of subscribers with the handler in it.   *)
Dispatch(d, m) ==
  /\ pc[d] = "idle"
  /\ listed
  /\ m \in pending
  /\ pending' = pending \ {m}
  /\ msg' = [msg EXCEPT ![d] = m]
  /\ Goto(d, "handler")
  /\ UNCHANGED <<subscription, sharedState, coro, id, history>>

(* Mutant: there is no guard. *)
GuardDropped(d) ==
  /\ pc[d] = "handler"
  /\ fired' = TRUE
  /\ winner' = IF fired THEN winner ELSE msg[d]
  /\ Goto(d, "write")
  /\ UNCHANGED <<subscription, sub_id, result, coro, msg, id, pending, resumes, awaited>>

(* Mutant: the coroutine is resumed before the result is there. *)
GuardResumes(d) ==
  /\ pc[d] = "handler"
  /\ ~fired
  /\ fired' = TRUE
  /\ winner' = msg[d]
  /\ Goto(d, "call")
  /\ UNCHANGED <<subscription, sub_id, result, coro, msg, id, pending, resumes, awaited>>

(* fired.compare_exchange_strong(false, true) succeeds. *)
Guard(d) ==
  /\ pc[d] = "handler"
  /\ ~fired
  /\ fired' = TRUE
  /\ winner' = msg[d]
  /\ Goto(d, "write")
  /\ UNCHANGED <<subscription, sub_id, result, coro, msg, id, pending, resumes, awaited>>

(* Mutant: the result is stored before the guard turns the handler away. *)
SkipAfterWrite(d) ==
  /\ pc[d] = "handler"
  /\ fired
  /\ result' = msg[d]
  /\ Goto(d, "idle")
  /\ UNCHANGED <<subscription, sub_id, fired, coro, msg, id, pending, history>>

(* Mutant: compare_exchange_weak may fail although nothing has fired. *)
SkipWeak(d) ==
  /\ pc[d] = "handler"
  /\ Goto(d, "idle")
  /\ UNCHANGED <<subscription, sharedState, coro, msg, id, pending, history>>

(* It has fired already: skip. *)
Skip(d) ==
  /\ pc[d] = "handler"
  /\ fired
  /\ Goto(d, "idle")
  /\ UNCHANGED <<subscription, sharedState, coro, msg, id, pending, history>>

WriteResult(d) ==
  /\ pc[d] = "write"
  /\ result' = msg[d]
  /\ Goto(d, "call")
  /\ UNCHANGED <<subscription, sub_id, fired, coro, msg, id, pending, history>>

(* handle.resume(), whatever has become of the coroutine: undefined unless *)
(* it is suspended, and then cut short here.                               *)
Resume(d) ==
  /\ pc[d] = "call"
  /\ resumes' = resumes + 1
  /\ coro' = IF coro = "suspended" THEN "running" ELSE coro
  /\ Goto(d, IF coro = "suspended" THEN "resume" ELSE "idle")
  /\ UNCHANGED <<subscription, sharedState, msg, id, pending, winner, awaited>>

-----------------------------------------------------------------------------
(* await_resume, then the destructor, on the thread that resumed           *)

(* unsubscribe(state_->sub_id) begins: sub_id is read. *)
ReadId(t) ==
  /\ \/ pc[t] = "resume" /\ Goto(t, "erase")
     \/ pc[t] = "destroy" /\ sub_id # NoId /\ Goto(t, "d_erase")
  /\ id' = [id EXCEPT ![t] = sub_id]
  /\ UNCHANGED <<subscription, sharedState, coro, msg, pending, history>>

(* The coroutine is over, or its owner is done with it. *)
EndOfCoroutine(t) ==
  /\ coro' = IF coro = "running" THEN "finished" ELSE coro
  /\ Goto(t, IF t = Owner THEN "gone" ELSE "idle")

(* Mutant: the destructor leaves the subscription alone. *)
DestructorForgets(t) ==
  /\ pc[t] = "destroy"
  /\ EndOfCoroutine(t)
  /\ UNCHANGED <<subscription, sharedState, msg, id, pending, history>>

DestructorSkips(t) ==
  /\ pc[t] = "destroy"
  /\ sub_id = NoId
  /\ EndOfCoroutine(t)
  /\ UNCHANGED <<subscription, sharedState, msg, id, pending, history>>

(* unsubscribe() finds the id in sub_to_topic_ ... *)
Erase(t) ==
  /\ pc[t] \in {"erase", "d_erase"}
  /\ id[t] = Id /\ mapped
  /\ mapped' = FALSE
  /\ Goto(t, IF pc[t] = "erase" THEN "remove" ELSE "d_remove")
  /\ UNCHANGED <<listed, sharedState, coro, msg, id, pending, history>>

(* ... or returns without a further step. *)
EraseNothing(t) ==
  /\ pc[t] \in {"erase", "d_erase"}
  /\ ~(id[t] = Id /\ mapped)
  /\ IF pc[t] = "erase" THEN Goto(t, "clear") /\ UNCHANGED coro
                        ELSE EndOfCoroutine(t)
  /\ UNCHANGED <<subscription, sharedState, msg, id, pending, history>>

RemoveSubscriber(t) ==
  /\ pc[t] \in {"remove", "d_remove"}
  /\ listed' = FALSE
  /\ IF pc[t] = "remove" THEN Goto(t, "clear") /\ UNCHANGED coro
                         ELSE EndOfCoroutine(t)
  /\ UNCHANGED <<mapped, sharedState, msg, id, pending, history>>

(* sub_id = 0, and the result is moved out. *)
ReturnResult(t) ==
  /\ pc[t] = "clear"
  /\ sub_id' = NoId
  /\ awaited' = result
  /\ Goto(t, "destroy")
  /\ UNCHANGED <<subscription, fired, result, coro, msg, id, pending, resumes, winner>>

-----------------------------------------------------------------------------
OwnerStep ==
  \/ AddSubscriber
  \/ Register
  \/ AssignId

HandlerStep(d) ==
  \/ Guard(d)
  \/ Skip(d)
  \/ WriteResult(d)
  \/ Resume(d)

EndStep(t) ==
  \/ ReadId(t)
  \/ DestructorSkips(t)
  \/ Erase(t)
  \/ EraseNothing(t)
  \/ RemoveSubscriber(t)
  \/ ReturnResult(t)

Next ==
  \/ OwnerStep
  \/ DestroyCoroutine
  \/ \E d \in Dispatchers : \/ \E m \in Messages : Dispatch(d, m)
                            \/ HandlerStep(d)
  \/ \E t \in Threads : EndStep(t)

Spec == Init /\ [][Next]_vars
-----------------------------------------------------------------------------
(* "Guard: ensure handler fires at most once" (line 319): two dispatchers  *)
(* with two messages resume the coroutine only once.                       *)
FiresOnce == resumes <= 1

(* co_await returns the message of the dispatch that resumed it, whole:    *)
(* another dispatch of the same handler neither overwrites the result nor  *)
(* lets the coroutine read it before it is there (lines 319-332).          *)
ReturnsWinner == awaited # NoMessage => awaited = winner

(* A coroutine destroyed by its owner leaves no subscription behind, even  *)
(* when a dispatcher has the handler in hand (~AsyncWaitAwaitable).        *)
DestroyedLeavesNothing ==
  pc[Owner] = "gone" => ~listed /\ ~mapped

(* The destructor unsubscribes (lines 342-348 and docs/todo.md line 67):   *)
(* the same of a coroutine that got its message.                           *)
FinishedLeavesNothing ==
  coro = "finished" /\ pc[Owner] = "waiting" => ~listed /\ ~mapped

-----------------------------------------------------------------------------
(* The owner's thread and the dispatchers are scheduled; nothing obliges   *)
(* anyone to publish or to destroy the coroutine.                          *)
FairSpec ==
  /\ Spec
  /\ WF_vars(OwnerStep)
  /\ \A d \in Dispatchers : WF_vars(HandlerStep(d))
  /\ \A t \in Threads : WF_vars(EndStep(t))

(* A message dispatched to the awaiting handler completes the co_await,    *)
(* unless its owner gives the coroutine up.                                *)
Completes ==
  (\E d \in Dispatchers : pc[d] = "handler") ~> coro \in {"finished", "destroyed"}
=============================================================================
