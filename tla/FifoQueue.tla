------------------------------ MODULE FifoQueue ------------------------------
(***************************************************************************)
(* What LockFreeQueue<T> promises its users (lock_free_queue.h): a bounded *)
(* first-in first-out queue whose operations are not atomic.               *)
(*                                                                         *)
(* An accepted value has its place in the order at once, but nobody can    *)
(* take it, or anything behind it, until its producer has finished         *)
(* writing.  A taken value has left the order at once, but its cell cannot *)
(* be filled again until its consumer has finished reading.  try_enqueue   *)
(* and try_dequeue never wait, so a call that meets such a half-done one   *)
(* returns false, although the queue is neither full nor empty.            *)
(*                                                                         *)
(* LockFreeQueue is shown to implement this module, and MessageBus is      *)
(* built from its actions.                                                 *)
(***************************************************************************)
EXTENDS Integers, Sequences

CONSTANTS Threads,   \* callers of the queue
          Values,    \* what is queued
          Capacity,  \* capacity_: the number of cells
          NoThread,  \* "nobody is writing this item"
          NoValue    \* "nothing in hand"

VARIABLES items,   \* accepted and not yet taken, oldest first: value and writer
          call,    \* what each thread is doing in the queue
          hand,    \* the value each thread's call carries
          taken,   \* how many items have been taken so far
          ticket   \* the number of the item a releasing thread has taken

queueVars == <<items, call, hand, taken, ticket>>

Calls == {"idle", "enq", "committing", "deq", "releasing"}

Items == [val : Values, writer : Threads \cup {NoThread}]

QueueInit ==
  /\ items = <<>>
  /\ call = [t \in Threads |-> "idle"]
  /\ hand = [t \in Threads |-> NoValue]
  /\ taken = 0
  /\ ticket = [t \in Threads |-> 0]

(* The cell the next item would go to still holds an item, or a consumer   *)
(* that has not finished moving its item out of it.                        *)
NextCellBusy ==
  \/ Len(items) = Capacity
  \/ \E t \in Threads : /\ call[t] = "releasing"
                        /\ ticket[t] + Capacity = taken + Len(items)

(* There is an oldest item and its producer has finished writing it.       *)
HeadReady == items # <<>> /\ Head(items).writer = NoThread

-----------------------------------------------------------------------------
(* try_enqueue *)

EnqInvoke(t, v) ==
  /\ call[t] = "idle"
  /\ call' = [call EXCEPT ![t] = "enq"]
  /\ hand' = [hand EXCEPT ![t] = v]
  /\ UNCHANGED <<items, taken, ticket>>

(* Mutant: a new item overtakes the queued ones. *)
EnqAcceptFirst(t) ==
  /\ call[t] = "enq"
  /\ ~NextCellBusy
  /\ items' = <<[val |-> hand[t], writer |-> t]>> \o items
  /\ call' = [call EXCEPT ![t] = "committing"]
  /\ UNCHANGED <<hand, taken, ticket>>

EnqAccept(t) ==
  /\ call[t] = "enq"
  /\ ~NextCellBusy
  /\ items' = Append(items, [val |-> hand[t], writer |-> t])
  /\ call' = [call EXCEPT ![t] = "committing"]
  /\ UNCHANGED <<hand, taken, ticket>>

(* try_enqueue returns true. *)
EnqCommit(t) ==
  /\ call[t] = "committing"
  /\ items' = [k \in 1..Len(items) |->
                 IF items[k].writer = t
                 THEN [val |-> items[k].val, writer |-> NoThread]
                 ELSE items[k]]
  /\ call' = [call EXCEPT ![t] = "idle"]
  /\ hand' = [hand EXCEPT ![t] = NoValue]
  /\ UNCHANGED <<taken, ticket>>

(* try_enqueue returns false. *)
EnqReject(t) ==
  /\ call[t] = "enq"
  /\ NextCellBusy
  /\ call' = [call EXCEPT ![t] = "idle"]
  /\ hand' = [hand EXCEPT ![t] = NoValue]
  /\ UNCHANGED <<items, taken, ticket>>

-----------------------------------------------------------------------------
(* try_dequeue *)

DeqInvoke(t) ==
  /\ call[t] = "idle"
  /\ call' = [call EXCEPT ![t] = "deq"]
  /\ UNCHANGED <<items, hand, taken, ticket>>

DeqTake(t) ==
  /\ call[t] = "deq"
  /\ HeadReady
  /\ hand' = [hand EXCEPT ![t] = Head(items).val]
  /\ ticket' = [ticket EXCEPT ![t] = taken]
  /\ taken' = taken + 1
  /\ items' = Tail(items)
  /\ call' = [call EXCEPT ![t] = "releasing"]

(* try_dequeue returns true with hand[t] as its value. *)
DeqRelease(t) ==
  /\ call[t] = "releasing"
  /\ call' = [call EXCEPT ![t] = "idle"]
  /\ hand' = [hand EXCEPT ![t] = NoValue]
  /\ ticket' = [ticket EXCEPT ![t] = 0]
  /\ UNCHANGED <<items, taken>>

(* try_dequeue returns false. *)
DeqReject(t) ==
  /\ call[t] = "deq"
  /\ ~HeadReady
  /\ call' = [call EXCEPT ![t] = "idle"]
  /\ UNCHANGED <<items, hand, taken, ticket>>

-----------------------------------------------------------------------------

QueueNext ==
  \E t \in Threads :
    \/ \E v \in Values : EnqInvoke(t, v)
    \/ EnqAccept(t)
    \/ EnqCommit(t)
    \/ EnqReject(t)
    \/ DeqInvoke(t)
    \/ DeqTake(t)
    \/ DeqRelease(t)
    \/ DeqReject(t)

QueueSpec == QueueInit /\ [][QueueNext]_queueVars
=============================================================================
