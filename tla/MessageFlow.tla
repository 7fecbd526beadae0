----------------------------- MODULE MessageFlow -----------------------------
(***************************************************************************)
(* What publishers and handlers may believe of a message: it is a value.   *)
(* The handler gets the topic and the data that were published, and a drop *)
(* callback is the one given with that publication, called with that       *)
(* publication's topic and data, whatever object carried them and whatever *)
(* the object carried before.  MessagePool implements this.                *)
(***************************************************************************)
EXTENDS Integers, Sequences

CONSTANTS Publishers, Dispatchers,
          QueueCapacity,
          Values,      \* what can be published
          NoValue,
          HasCallback(_)

VARIABLES request, \* what each publisher is publishing
          queue,
          at,      \* what each thread has taken from the queue
          handled, \* what handlers were called with
          dropped  \* what drop callbacks were called with

flowVars == <<request, queue, at, handled, dropped>>

FlowInit ==
  /\ request = [p \in Publishers |-> NoValue]
  /\ queue = <<>>
  /\ at = [t \in Publishers \cup Dispatchers |-> NoValue]
  /\ handled = {}
  /\ dropped = {}

Ask(p) ==
  /\ request[p] = NoValue
  /\ \E v \in Values : request' = [request EXCEPT ![p] = v]
  /\ UNCHANGED <<queue, at, handled, dropped>>

Answered(p) ==
  /\ request[p] # NoValue
  /\ request' = [request EXCEPT ![p] = NoValue]

Accept(p) ==
  /\ Answered(p)
  /\ Len(queue) < QueueCapacity
  /\ queue' = Append(queue, request[p])
  /\ UNCHANGED <<at, handled, dropped>>

Refuse(p) == Answered(p) /\ UNCHANGED <<queue, at, handled, dropped>>

(* The callback of v, if it has one, is called. *)
Notify(v) == dropped' = IF HasCallback(v) THEN dropped \cup {v} ELSE dropped

DropNewest(p) == Answered(p) /\ Notify(request[p]) /\ UNCHANGED <<queue, at, handled>>

Take(t) ==
  /\ at[t] = NoValue
  /\ queue # <<>>
  /\ at' = [at EXCEPT ![t] = Head(queue)]
  /\ queue' = Tail(queue)
  /\ UNCHANGED <<request, handled, dropped>>

Done(t) == at[t] # NoValue /\ at' = [at EXCEPT ![t] = NoValue]

DropOldest(p) == Done(p) /\ Notify(at[p]) /\ UNCHANGED <<request, queue, handled>>

Handle(d) == Done(d) /\ handled' = handled \cup {at[d]} /\ UNCHANGED <<request, queue, dropped>>

FlowNext ==
  \/ \E p \in Publishers : \/ Ask(p) \/ Accept(p) \/ Refuse(p) \/ DropNewest(p)
                           \/ Take(p) \/ DropOldest(p)
  \/ \E d \in Dispatchers : Take(d) \/ Handle(d)

FlowSpec == FlowInit /\ [][FlowNext]_flowVars
=============================================================================
