--------------------------- MODULE AsyncWaitProofs ---------------------------
(***************************************************************************)
(* Proofs about AsyncWait for every set of dispatchers and of messages.    *)
(***************************************************************************)
EXTENDS AsyncWait, FiniteSetTheorems, TLAPS

OwnerSteps == SuspendSteps \cup {"destroy", "d_erase", "d_remove", "gone"}
Winning == {"write", "call"}             \* past the guard, not yet resumed
Resumed == {"resume", "erase", "remove", "clear", "destroy", "d_erase", "d_remove"}

PcType ==
  /\ pc \in [Threads -> SuspendSteps \cup UnsubscribeSteps \cup HandlerSteps \cup {"gone"}]
  /\ pc[Owner] \in OwnerSteps
  /\ \A d \in Dispatchers : pc[d] \in HandlerSteps \cup UnsubscribeSteps

ValueType ==
  /\ fired \in BOOLEAN /\ resumes \in Nat
  /\ msg \in [Dispatchers -> Messages \cup {NoMessage}]

(* The guard lets one dispatcher pass, and only one that has passed resumes. *)
Guarded ==
  /\ ~fired => /\ resumes = 0 /\ winner = NoMessage /\ awaited = NoMessage
               /\ \A d \in Dispatchers : pc[d] \notin Winning \cup Resumed
  /\ \A d, e \in Dispatchers :
       pc[d] \in Winning \cup Resumed /\ pc[e] \in Winning \cup Resumed => d = e
  /\ \A d \in Dispatchers : pc[d] \in Winning => resumes = 0
  /\ resumes <= 1

(* The one that has passed carries the winning message to co_await. *)
Carried ==
  /\ \A d \in Dispatchers :
       /\ pc[d] \in Winning => winner = msg[d] /\ awaited = NoMessage
       /\ pc[d] \in {"call"} \cup Resumed => result = winner
  /\ awaited \in {NoMessage, winner}

WaitInv == PcType /\ ValueType /\ Guarded /\ Carried

(* Before await_suspend() nothing is set. *)
LEMMA WaitInitInv == Init => WaitInv
<1> SUFFICES ASSUME Init PROVE WaitInv
  OBVIOUS
<1>1. pc[Owner] = "start" /\ \A d \in Dispatchers : pc[d] = "idle"
  BY OwnerAssumption DEF Init, Threads
<1>2. PcType
  BY <1>1 DEF Init, PcType, OwnerSteps, SuspendSteps, HandlerSteps
<1>3. ValueType
  BY DEF Init, ValueType
<1>4. Guarded /\ Carried
  BY <1>1 DEF Init, Guarded, Carried, Winning, Resumed
<1>5. QED
  BY <1>2, <1>3, <1>4 DEF WaitInv

(* Steps of the owner leave the dispatchers and the message alone. *)
LEMMA OwnerInv ==
  ASSUME WaitInv, NEW step \in OwnerSteps, pc' = [pc EXCEPT ![Owner] = step],
         UNCHANGED <<fired, result, msg, history>>
  PROVE  WaitInv'
<1>1. /\ pc'[Owner] = step
      /\ \A d \in Dispatchers : pc'[d] = pc[d]
  BY OwnerAssumption DEF WaitInv, PcType, Threads
<1>2. PcType'
  BY <1>1 DEF WaitInv, PcType, OwnerSteps, SuspendSteps, UnsubscribeSteps
<1>3. ValueType' /\ Guarded' /\ Carried'
  BY <1>1 DEF WaitInv, ValueType, Guarded, Carried, history
<1>4. QED
  BY <1>2, <1>3 DEF WaitInv

(* So do the steps of a dispatcher before the guard, *)
LEMMA UnguardedInv ==
  ASSUME WaitInv, NEW d \in Dispatchers, pc[d] \in {"idle", "handler"},
         NEW step \in {"idle", "handler"}, pc' = [pc EXCEPT ![d] = step],
         NEW m \in Messages \cup {NoMessage}, msg' = [msg EXCEPT ![d] = m],
         UNCHANGED <<fired, result, history>>
  PROVE  WaitInv'
<1>1. /\ pc'[Owner] = pc[Owner]
      /\ \A e \in Dispatchers : pc'[e] = IF e = d THEN step ELSE pc[e]
  BY OwnerAssumption DEF WaitInv, PcType, Threads
<1>2. \A e \in Dispatchers : msg'[e] = IF e = d THEN m ELSE msg[e]
  BY DEF WaitInv, ValueType
<1>3. PcType' /\ ValueType'
  BY <1>1 DEF WaitInv, PcType, ValueType, HandlerSteps, history
<1>4. Guarded' /\ Carried'
  BY <1>1, <1>2 DEF WaitInv, Guarded, Carried, Winning, Resumed, history
<1>5. QED
  BY <1>3, <1>4 DEF WaitInv

(* and those of await_resume and the destructor on the thread that resumed. *)
LEMMA ResumedInv ==
  ASSUME WaitInv, NEW d \in Dispatchers, pc[d] \in Resumed,
         NEW step \in Resumed \cup {"idle"}, pc' = [pc EXCEPT ![d] = step],
         awaited' \in {awaited, result},
         UNCHANGED <<fired, result, msg, resumes, winner>>
  PROVE  WaitInv'
<1>1. /\ pc'[Owner] = pc[Owner]
      /\ \A e \in Dispatchers : pc'[e] = IF e = d THEN step ELSE pc[e]
  BY OwnerAssumption DEF WaitInv, PcType, Threads
<1>2. PcType' /\ ValueType'
  BY <1>1 DEF WaitInv, PcType, ValueType, HandlerSteps, Resumed, UnsubscribeSteps
<1>3. result = winner /\ fired /\ awaited' \in {NoMessage, winner}
  BY DEF WaitInv, Carried, Guarded, ValueType
<1>4. \A e \in Dispatchers : pc'[e] \notin Winning
  BY <1>1 DEF WaitInv, Guarded, Winning, Resumed
<1>5. Guarded' /\ Carried'
  BY <1>1, <1>3, <1>4 DEF WaitInv, Guarded, Carried, Winning, Resumed
<1>6. QED
  BY <1>2, <1>5 DEF WaitInv

(* The guard lets one dispatcher through. *)
LEMMA GuardInv ==
  ASSUME WaitInv, NEW d \in Dispatchers, Guard(d)
  PROVE  WaitInv'
<1>1. /\ pc'[Owner] = pc[Owner]
      /\ \A e \in Dispatchers : pc'[e] = IF e = d THEN "write" ELSE pc[e]
  BY OwnerAssumption DEF Guard, Goto, WaitInv, PcType, Threads
<1>2. PcType' /\ ValueType'
  BY <1>1 DEF Guard, Goto, WaitInv, PcType, ValueType, HandlerSteps
<1>3. Guarded' /\ Carried'
  BY <1>1 DEF Guard, WaitInv, Guarded, Carried, Winning, Resumed
<1>4. QED
  BY <1>2, <1>3 DEF WaitInv

(* That one writes its message ... *)
LEMMA WriteResultInv ==
  ASSUME WaitInv, NEW d \in Dispatchers, WriteResult(d)
  PROVE  WaitInv'
<1>1. /\ pc'[Owner] = pc[Owner]
      /\ \A e \in Dispatchers : pc'[e] = IF e = d THEN "call" ELSE pc[e]
  BY OwnerAssumption DEF WriteResult, Goto, WaitInv, PcType, Threads
<1>2. PcType' /\ ValueType'
  BY <1>1 DEF WriteResult, Goto, WaitInv, PcType, ValueType, HandlerSteps, history
<1>3. Guarded' /\ Carried'
  BY <1>1 DEF WriteResult, WaitInv, Guarded, Carried, Winning, Resumed, history
<1>4. QED
  BY <1>2, <1>3 DEF WaitInv

(* ... and resumes the coroutine. *)
LEMMA ResumeInv ==
  ASSUME WaitInv, NEW d \in Dispatchers, Resume(d)
  PROVE  WaitInv'
<1>1. PICK step \in {"resume", "idle"} : pc' = [pc EXCEPT ![d] = step]
  BY DEF Resume, Goto
<1>2. /\ pc'[Owner] = pc[Owner]
      /\ \A e \in Dispatchers : pc'[e] = IF e = d THEN step ELSE pc[e]
  BY <1>1, OwnerAssumption DEF WaitInv, PcType, Threads
<1>3. PcType' /\ ValueType'
  BY <1>1, <1>2 DEF Resume, WaitInv, PcType, ValueType, HandlerSteps, UnsubscribeSteps, sharedState
<1>4. \A e \in Dispatchers : pc'[e] \notin Winning
  BY <1>2 DEF Resume, WaitInv, Guarded, Winning
<1>5. resumes = 0 /\ resumes' = 1 /\ fired
  BY DEF Resume, WaitInv, Guarded, ValueType, Winning
<1>6. Guarded' /\ Carried'
  BY <1>2, <1>4, <1>5 DEF Resume, WaitInv, Guarded, Carried, Winning, Resumed, sharedState
<1>7. QED
  BY <1>3, <1>6 DEF WaitInv

(* What EndStep does, on whichever thread *)
LEMMA EndStepInv ==
  ASSUME WaitInv, NEW t \in Threads, EndStep(t)
  PROVE  WaitInv'
<1>1. UNCHANGED <<fired, result, msg, resumes, winner>>
  BY DEF EndStep, ReadId, DestructorSkips, Erase, EraseNothing, RemoveSubscriber, ReturnResult,
         sharedState, history
<1>2. CASE t = Owner
  <2>1. pc[Owner] \in {"destroy", "d_erase", "d_remove"}
    BY <1>2 DEF WaitInv, PcType, OwnerSteps, SuspendSteps, EndStep, ReadId, DestructorSkips,
                Erase, EraseNothing, RemoveSubscriber, ReturnResult
  <2>2. PICK step \in OwnerSteps : pc' = [pc EXCEPT ![Owner] = step]
    BY <1>2, <2>1 DEF EndStep, ReadId, DestructorSkips, Erase, EraseNothing, RemoveSubscriber,
                      ReturnResult, EndOfCoroutine, Goto, OwnerSteps
  <2>3. UNCHANGED awaited
    BY <1>2, <2>1 DEF EndStep, ReadId, DestructorSkips, Erase, EraseNothing, RemoveSubscriber,
                      ReturnResult, history
  <2>4. QED
    BY <1>1, <2>2, <2>3, OwnerInv DEF history
<1>3. CASE t \in Dispatchers
  <2>1. pc[t] \in Resumed
    BY DEF EndStep, ReadId, DestructorSkips, Erase, EraseNothing, RemoveSubscriber, ReturnResult,
           Resumed
  <2>2. PICK step \in Resumed \cup {"idle"} : pc' = [pc EXCEPT ![t] = step]
    BY <1>3, <2>1, OwnerAssumption
    DEF EndStep, ReadId, DestructorSkips, Erase, EraseNothing, RemoveSubscriber, ReturnResult,
        EndOfCoroutine, Goto, Resumed
  <2>3. awaited' \in {awaited, result}
    BY DEF EndStep, ReadId, DestructorSkips, Erase, EraseNothing, RemoveSubscriber, ReturnResult,
           history
  <2>4. QED
    BY <1>1, <1>3, <2>1, <2>2, <2>3, ResumedInv
<1>4. QED
  BY <1>2, <1>3 DEF Threads

(* Every step of the owner and of the dispatchers *)
LEMMA WaitNextInv == WaitInv /\ [Next]_vars => WaitInv'
<1> SUFFICES ASSUME WaitInv, [Next]_vars PROVE WaitInv'
  OBVIOUS
<1>1. ASSUME OwnerStep \/ DestroyCoroutine PROVE WaitInv'
  <2>1. PICK step \in OwnerSteps : pc' = [pc EXCEPT ![Owner] = step]
    BY <1>1 DEF OwnerStep, AddSubscriber, Register, AssignId, DestroyCoroutine, Goto, OwnerSteps,
                SuspendSteps
  <2>2. UNCHANGED <<fired, result, msg, history>>
    BY <1>1 DEF OwnerStep, AddSubscriber, Register, AssignId, DestroyCoroutine, sharedState
  <2>3. QED
    BY <2>1, <2>2, OwnerInv
<1>2. ASSUME NEW d \in Dispatchers, NEW m \in Messages, Dispatch(d, m) PROVE WaitInv'
  BY <1>2, UnguardedInv DEF Dispatch, Goto, sharedState
<1>3. ASSUME NEW d \in Dispatchers, Skip(d) PROVE WaitInv'
  <2>1. msg' = [msg EXCEPT ![d] = msg[d]] /\ msg[d] \in Messages \cup {NoMessage}
    BY <1>3 DEF Skip, WaitInv, ValueType
  <2>2. QED
    BY <1>3, <2>1, UnguardedInv DEF Skip, Goto, sharedState
<1>4. ASSUME NEW d \in Dispatchers, HandlerStep(d) PROVE WaitInv'
  BY <1>3, <1>4, GuardInv, WriteResultInv, ResumeInv DEF HandlerStep
<1>5. CASE UNCHANGED vars
  BY <1>5 DEF vars, sharedState, history, WaitInv, PcType, ValueType, Guarded, Carried
<1>6. QED
  BY <1>1, <1>2, <1>4, <1>5, EndStepInv DEF Next

(* Result and resumption belong to the dispatcher that passed the guard of  *)
(* the handler in await_suspend().                                          *)
THEOREM WaitInvariant == Spec => []WaitInv
  BY WaitInitInv, WaitNextInv, PTL DEF Spec

(* However many dispatchers have the handler in hand, with however many    *)
(* messages, handle.resume() is called once.                               *)
THEOREM FiresOnceHolds == Spec => []FiresOnce
<1>1. WaitInv => FiresOnce
  BY DEF WaitInv, Guarded, FiresOnce
<1>2. QED
  BY <1>1, WaitInvariant, PTL

(* co_await returns the message whose handler passed the guard. *)
THEOREM ReturnsWinnerHolds == Spec => []ReturnsWinner
<1>1. WaitInv => ReturnsWinner
  BY DEF WaitInv, Carried, ReturnsWinner
<1>2. QED
  BY <1>1, WaitInvariant, PTL

-----------------------------------------------------------------------------
(* The subscription and its owner                                          *)

FieldType ==
  /\ listed \in BOOLEAN /\ mapped \in BOOLEAN
  /\ sub_id \in {NoId, Id}
  /\ coro \in {"running", "suspended", "finished", "destroyed"}
  /\ id \in [Threads -> {NoId, Id}]
  /\ pending \subseteq Messages
  /\ result \in Messages \cup {NoMessage}
  /\ winner \in Messages \cup {NoMessage}
  /\ awaited \in Messages \cup {NoMessage}

(* What a dispatcher has in the handler, and after it, is a message. *)
Whole ==
  /\ \A d \in Dispatchers : /\ pc[d] \in {"handler"} \cup Winning => msg[d] \in Messages
                            /\ pc[d] \in {"call"} \cup Resumed => result \in Messages
  /\ fired => winner \in Messages

(* The coroutine runs on the thread that resumed it, or its owner destroys  *)
(* it; until then the subscription is in force, under the id in sub_id.     *)
Destroying == pc[Owner] \in {"destroy", "d_erase", "d_remove", "gone"}

Owned ==
  /\ \A d \in Dispatchers : pc[d] \in Resumed => coro = "running"
  /\ Destroying <=> coro = "destroyed"
  /\ coro = "suspended" /\ pc[Owner] \in {"assign", "waiting"} => mapped
  /\ coro = "suspended" /\ pc[Owner] = "waiting" => sub_id = Id
  /\ pc[Owner] = "destroy" => mapped /\ sub_id = Id
  /\ pc[Owner] = "d_erase" => mapped /\ id[Owner] = Id
  /\ pc[Owner] \in {"d_remove", "gone"} => ~mapped
  /\ pc[Owner] = "gone" => ~listed

SubscriptionInv == WaitInv /\ FieldType /\ Whole /\ Owned

(* Before await_suspend() there is no subscription. *)
LEMMA SubscriptionInitInv == Init => SubscriptionInv
<1> SUFFICES ASSUME Init PROVE SubscriptionInv
  OBVIOUS
<1>1. pc[Owner] = "start" /\ \A d \in Dispatchers : pc[d] = "idle"
  BY OwnerAssumption DEF Init, Threads
<1>2. FieldType
  BY DEF Init, FieldType
<1>3. Whole /\ Owned
  BY <1>1 DEF Init, Whole, Owned, Destroying, Winning, Resumed
<1>4. QED
  BY <1>2, <1>3, WaitInitInv DEF SubscriptionInv

(* The steps of await_suspend() and of the owner that gives the coroutine up *)
LEMMA OwnerSubscription ==
  ASSUME SubscriptionInv, WaitInv', OwnerStep \/ DestroyCoroutine
  PROVE  SubscriptionInv'
<1> USE DEF SubscriptionInv, OwnerStep, AddSubscriber, Register, AssignId, DestroyCoroutine, Goto
<1>1. /\ pc'[Owner] \in {"register", "assign", "waiting", "destroy"}
      /\ \A d \in Dispatchers : pc'[d] = pc[d]
  BY OwnerAssumption DEF WaitInv, PcType, Threads
<1>2. FieldType'
  BY DEF FieldType, history, sharedState, subscription
<1>3. Whole'
  BY <1>1 DEF Whole, history, sharedState
<1>4. Owned'
  <2>1. CASE AddSubscriber \/ Register \/ AssignId
    <3>1. /\ UNCHANGED coro
          /\ pc'[Owner] \in {"register", "assign", "waiting"} /\ pc[Owner] \in SuspendSteps
          /\ pc'[Owner] = "assign" => mapped'
          /\ pc'[Owner] = "waiting" => sub_id' = Id /\ pc[Owner] = "assign" /\ mapped' = mapped
      BY <2>1 DEF WaitInv, PcType, Threads, SuspendSteps, subscription
    <3>2. QED
      BY <1>1, <3>1 DEF Owned, Destroying, SuspendSteps
  <2>2. CASE DestroyCoroutine
    BY <1>1, <2>2 DEF Owned, Destroying, WaitInv, PcType, Threads, sharedState, subscription,
                      Resumed
  <2>3. QED
    BY <2>1, <2>2
<1>5. QED
  BY <1>2, <1>3, <1>4

(* A dispatcher calls the handler. *)
LEMMA HandlerSubscription ==
  ASSUME SubscriptionInv, WaitInv', NEW d \in Dispatchers,
         (\E m \in Messages : Dispatch(d, m)) \/ HandlerStep(d)
  PROVE  SubscriptionInv'
<1> USE DEF SubscriptionInv
<1>1. PICK step \in {"idle", "handler", "write", "call", "resume"} : pc' = [pc EXCEPT ![d] = step]
  BY DEF Dispatch, HandlerStep, Guard, Skip, WriteResult, Resume, Goto
<1>2. /\ pc'[Owner] = pc[Owner]
      /\ pc'[d] = step
      /\ \A e \in Dispatchers : e # d => pc'[e] = pc[e]
  BY <1>1, OwnerAssumption DEF WaitInv, PcType, Threads
<1>3. UNCHANGED <<subscription, sub_id, id>>
  BY DEF Dispatch, HandlerStep, Guard, Skip, WriteResult, Resume, sharedState
<1>4. FieldType'
  BY <1>3 DEF Dispatch, HandlerStep, Guard, Skip, WriteResult, Resume, sharedState, history,
              FieldType, subscription, WaitInv, ValueType
<1>5. Whole'
  <2>1. CASE \E m \in Messages : Dispatch(d, m)
    BY <1>2, <2>1 DEF Dispatch, Goto, Whole, WaitInv, PcType, ValueType, Winning, Resumed,
                      sharedState, history, Threads
  <2>2. CASE Guard(d) \/ Skip(d)
    BY <1>2, <2>2 DEF Guard, Skip, Goto, Whole, WaitInv, PcType, Winning, Resumed, Threads,
                      sharedState, history
  <2>3. CASE WriteResult(d)
    BY <1>2, <2>3 DEF WriteResult, Goto, Whole, WaitInv, PcType, Winning, Resumed, Threads,
                      history
  <2>4. CASE Resume(d)
    <3>1. pc[d] = "call" /\ step \in {"idle", "resume"} /\ UNCHANGED <<fired, result, msg, winner>>
      BY <1>1, <2>4 DEF Resume, Goto, sharedState, WaitInv, PcType, Threads
    <3>2. QED
      BY <1>2, <3>1 DEF Whole, Winning, Resumed
  <2>5. QED
    BY <2>1, <2>2, <2>3, <2>4 DEF HandlerStep
<1>6. Owned'
  <2>1. CASE Resume(d)
    <3>1. coro' = IF coro = "suspended" THEN "running" ELSE coro
      BY <2>1 DEF Resume
    <3>2. step = "resume" => coro' = "running"
      BY <1>1, <2>1 DEF Resume, Goto, WaitInv, PcType, Threads
    <3>3. QED
      BY <1>2, <1>3, <3>1, <3>2 DEF Owned, Destroying, Resumed, subscription
  <2>2. CASE ~Resume(d)
    <3>1. coro' = coro /\ step # "resume"
      BY <1>1, <2>2 DEF Dispatch, HandlerStep, Guard, Skip, WriteResult, Goto, WaitInv, PcType, Threads
    <3>2. QED
      BY <1>2, <1>3, <3>1 DEF Owned, Destroying, Resumed, subscription
  <2>3. QED
    BY <2>1, <2>2
<1>7. QED
  BY <1>4, <1>5, <1>6

(* await_resume() and the destructor, on the thread that resumed or on the  *)
(* owner's: the owner finds the subscription it has made.                   *)
LEMMA EndSubscription ==
  ASSUME SubscriptionInv, WaitInv', NEW t \in Threads, EndStep(t)
  PROVE  SubscriptionInv'
<1> USE DEF SubscriptionInv
<1>1. UNCHANGED <<fired, result, msg, pending, resumes, winner>>
  BY DEF EndStep, ReadId, DestructorSkips, Erase, EraseNothing, RemoveSubscriber, ReturnResult,
         sharedState, history
<1>2. FieldType'
  <2>1. id' = id \/ id' = [id EXCEPT ![t] = sub_id]
    BY DEF EndStep, ReadId, DestructorSkips, Erase, EraseNothing, RemoveSubscriber, ReturnResult
  <2>2. /\ listed' \in {listed, FALSE} /\ mapped' \in {mapped, FALSE}
        /\ sub_id' \in {sub_id, NoId} /\ coro' \in {coro, "finished"}
        /\ awaited' \in {awaited, result}
    BY DEF EndStep, ReadId, DestructorSkips, Erase, EraseNothing, RemoveSubscriber, ReturnResult,
           EndOfCoroutine, sharedState, subscription, history
  <2>3. QED
    BY <1>1, <2>1, <2>2 DEF FieldType
<1>3. CASE t = Owner
  <2>1. /\ pc[Owner] \in {"destroy", "d_erase", "d_remove"}
        /\ coro = "destroyed"
    BY <1>3 DEF WaitInv, PcType, OwnerSteps, SuspendSteps, EndStep, ReadId, DestructorSkips,
                Erase, EraseNothing, RemoveSubscriber, ReturnResult, Owned, Destroying
  <2>2. PICK step \in {"d_erase", "d_remove", "gone"} : pc' = [pc EXCEPT ![Owner] = step]
    BY <1>3, <2>1 DEF EndStep, ReadId, DestructorSkips, Erase, EraseNothing, RemoveSubscriber,
                      ReturnResult, EndOfCoroutine, Goto
  <2>3. /\ pc'[Owner] = step
        /\ \A d \in Dispatchers : pc'[d] = pc[d]
    BY <2>2, OwnerAssumption DEF WaitInv, PcType, Threads
  <2>4. Whole'
    BY <1>1, <2>3 DEF Whole
  <2>5. /\ coro' = "destroyed"
        /\ step = "d_erase" => mapped' = mapped /\ id'[Owner] = sub_id /\ pc[Owner] = "destroy"
        /\ step = "d_remove" => ~mapped'
        /\ step = "gone" => ~mapped' /\ ~listed'
    <3>1. CASE pc[Owner] = "destroy"
      <4>1. ReadId(Owner)
        BY <1>3, <3>1 DEF EndStep, ReadId, DestructorSkips, Erase, EraseNothing,
                          RemoveSubscriber, ReturnResult, Owned, Id, NoId
      <4>2. pc'[Owner] = "d_erase" /\ id'[Owner] = sub_id /\ UNCHANGED <<coro, mapped>>
        BY <3>1, <4>1 DEF ReadId, Goto, FieldType, WaitInv, PcType, Threads, subscription
      <4>3. QED
        BY <2>1, <2>3, <3>1, <4>2
    <3>2. CASE pc[Owner] = "d_erase"
      <4>1. Erase(Owner)
        BY <1>3, <3>2 DEF EndStep, ReadId, DestructorSkips, Erase, EraseNothing,
                          RemoveSubscriber, ReturnResult, Owned
      <4>2. pc'[Owner] = "d_remove" /\ ~mapped' /\ UNCHANGED coro
        BY <3>2, <4>1 DEF Erase, Goto, WaitInv, PcType, Threads
      <4>3. QED
        BY <2>1, <2>3, <4>2
    <3>3. CASE pc[Owner] = "d_remove"
      <4>1. RemoveSubscriber(Owner)
        BY <1>3, <3>3 DEF EndStep, ReadId, DestructorSkips, Erase, EraseNothing,
                          RemoveSubscriber, ReturnResult
      <4>2. pc'[Owner] = "gone" /\ ~listed' /\ ~mapped' /\ UNCHANGED coro
        BY <2>1, <3>3, <4>1 DEF RemoveSubscriber, EndOfCoroutine, Goto, WaitInv, PcType,
                                Threads, Owned
      <4>3. QED
        BY <2>1, <2>3, <4>2
    <3>4. QED
      BY <2>1, <3>1, <3>2, <3>3
  <2>6. Owned'
    <3>1. \A d \in Dispatchers : pc'[d] \notin Resumed
      BY <2>1, <2>3 DEF Owned
    <3>2. QED
      BY <2>1, <2>3, <2>5, <3>1 DEF Owned, Destroying
  <2>7. QED
    BY <1>2, <2>4, <2>6
<1>4. CASE t \in Dispatchers
  <2>1. pc[t] \in Resumed /\ coro = "running"
    BY <1>4 DEF EndStep, ReadId, DestructorSkips, Erase, EraseNothing, RemoveSubscriber,
                ReturnResult, Resumed, Owned
  <2>2. PICK step \in Resumed \cup {"idle"} : pc' = [pc EXCEPT ![t] = step]
    BY <1>4, <2>1, OwnerAssumption
    DEF EndStep, ReadId, DestructorSkips, Erase, EraseNothing, RemoveSubscriber, ReturnResult,
        EndOfCoroutine, Goto, Resumed
  <2>3. /\ pc'[Owner] = pc[Owner] /\ pc'[t] = step
        /\ \A d \in Dispatchers : d # t => pc'[d] = pc[d]
    BY <1>4, <2>2, OwnerAssumption DEF WaitInv, PcType, Threads
  <2>4. Whole'
    BY <1>1, <1>4, <2>1, <2>3 DEF Whole, Winning, Resumed
  <2>5. /\ coro' \in {"running", "finished"}
        /\ coro' = "finished" => step = "idle"
    <3>1. \/ coro' = coro
          \/ coro' = "finished" /\ pc' = [pc EXCEPT ![t] = "idle"]
      BY <1>4, <2>1, OwnerAssumption
      DEF EndStep, ReadId, DestructorSkips, Erase, EraseNothing, RemoveSubscriber, ReturnResult,
          EndOfCoroutine, Goto
    <3>2. pc' = [pc EXCEPT ![t] = "idle"] => step = "idle"
      BY <2>3 DEF WaitInv, PcType
    <3>3. QED
      BY <2>1, <3>1, <3>2
  <2>6. \A d \in Dispatchers : d # t => pc[d] \notin Resumed
    BY <1>4, <2>1 DEF WaitInv, Guarded
  <2>7. Owned'
    BY <1>4, <2>1, <2>3, <2>5, <2>6 DEF Owned, Destroying, Resumed
  <2>8. QED
    BY <1>2, <2>4, <2>7
<1>5. QED
  BY <1>3, <1>4 DEF Threads

(* Subscription, coroutine and owner fit together whatever the dispatchers  *)
(* do: a coroutine that is destroyed has not been resumed.                  *)
THEOREM SubscriptionInvariant == Spec => []SubscriptionInv
<1>1. SubscriptionInv /\ [Next]_vars => SubscriptionInv'
  <2> SUFFICES ASSUME SubscriptionInv, [Next]_vars PROVE SubscriptionInv'
    OBVIOUS
  <2>1. WaitInv'
    BY WaitNextInv DEF SubscriptionInv
  <2>2. CASE UNCHANGED vars
    BY <2>1, <2>2 DEF SubscriptionInv, FieldType, Whole, Owned, Destroying, vars, subscription,
                      sharedState, history
  <2>3. QED
    BY <2>1, <2>2, OwnerSubscription, HandlerSubscription, EndSubscription DEF Next
<1>2. QED
  BY <1>1, SubscriptionInitInv, PTL DEF Spec

(* Every field of the awaitable, its SharedState and its subscription keeps *)
(* its type, and a resumed coroutine finds its result.                      *)
THEOREM TypeCorrect ==
  ASSUME IsFiniteSet(Messages)
  PROVE  Spec => []TypeOK
<1>1. SubscriptionInv => TypeOK
  <2> SUFFICES ASSUME SubscriptionInv PROVE TypeOK
    OBVIOUS
  <2> USE DEF SubscriptionInv
  <2>1. resumes \in 0..Cardinality(Messages)
    <3>1. Cardinality(Messages) \in Nat /\ (Cardinality(Messages) = 0 <=> Messages = {})
      BY FS_CardinalityType, FS_EmptySet
    <3>2. resumes # 0 => resumes = 1 /\ Messages # {}
      BY DEF WaitInv, ValueType, Guarded, Whole
    <3>3. QED
      BY <3>1, <3>2
  <2>2. \A d \in Dispatchers : pc[d] \in {"call"} \cup UnsubscribeSteps => result # NoMessage
    BY NoMessageAssumption DEF Whole, Resumed, UnsubscribeSteps
  <2>3. QED
    BY <2>1, <2>2 DEF TypeOK, FieldType, WaitInv, PcType, ValueType
<1>2. QED
  BY <1>1, SubscriptionInvariant, PTL

(* ~AsyncWaitAwaitable on a suspended coroutine takes its handler out of    *)
(* the slot and its id out of sub_to_topic_, even when a dispatcher has the *)
(* handler in hand.                                                         *)
THEOREM DestroyedLeavesNothingHolds == Spec => []DestroyedLeavesNothing
<1>1. SubscriptionInv => DestroyedLeavesNothing
  BY DEF SubscriptionInv, Owned, DestroyedLeavesNothing
<1>2. QED
  BY <1>1, SubscriptionInvariant, PTL
=============================================================================
