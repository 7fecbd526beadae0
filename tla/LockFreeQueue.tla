---------------------------- MODULE LockFreeQueue ----------------------------
(***************************************************************************)
(* LockFreeQueue<T> (lock_free_queue.h): Vyukov's bounded multi-producer   *)
(* multi-consumer queue, one action per access to memory that other        *)
(* threads can see.  A ring of capacity_ cells; enqueue_pos_ and           *)
(* dequeue_pos_ hand out tickets; a cell's sequence says whose turn it is: *)
(* n for the producer with ticket n, n + 1 for the consumer with ticket n, *)
(* n + capacity_ for the producer of the next lap.                         *)
(*                                                                         *)
(* Positions are unbounded naturals: a size_t wraps after 2^64 operations. *)
(* Memory is sequentially consistent.                                      *)
(***************************************************************************)
EXTENDS Integers, Sequences

CONSTANTS Threads, Values, Capacity, NoThread, NoValue,
          MaxEnqueues   \* bound on the tickets handed out to producers

(* The constructor rounds the capacity up to a power of two, at least 2.   *)
ASSUME CapacityAssumption == Capacity \in Nat /\ Capacity >= 2
ASSUME NoThreadAssumption == NoThread \notin Threads
ASSUME NoValueAssumption == NoValue \notin Values
ASSUME MaxEnqueuesAssumption == MaxEnqueues \in Nat

VARIABLES enqueue_pos, dequeue_pos,
          sequence, data,  \* the cells
          pc,              \* where each thread is in its call
          pos,             \* its local pos
          val              \* its argument, or the value it has moved out

vars == <<enqueue_pos, dequeue_pos, sequence, data, pc, pos, val>>

Slots == 0..(Capacity - 1)

(* pos & mask_, capacity_ being a power of two *)
Slot(n) == n % Capacity

EnqueueSteps == {"e_load", "e_check", "e_cas", "e_write", "e_publish"}
DequeueSteps == {"d_load", "d_check", "d_cas", "d_read", "d_release"}

TypeOK ==
  /\ enqueue_pos \in Nat
  /\ dequeue_pos \in Nat
  /\ sequence \in [Slots -> Nat]
  /\ data \in [Slots -> Values \cup {NoValue}]
  /\ pc \in [Threads -> {"idle"} \cup EnqueueSteps \cup DequeueSteps]
  /\ pos \in [Threads -> Nat]
  /\ val \in [Threads -> Values \cup {NoValue}]

Init ==
  /\ enqueue_pos = 0
  /\ dequeue_pos = 0
  /\ sequence = [i \in Slots |-> i]
  /\ data = [i \in Slots |-> NoValue]
  /\ pc = [t \in Threads |-> "idle"]
  /\ pos = [t \in Threads |-> 0]
  /\ val = [t \in Threads |-> NoValue]

Goto(t, step) == pc' = [pc EXCEPT ![t] = step]

(* A call returns: its locals are gone. *)
Return(t) ==
  /\ Goto(t, "idle")
  /\ pos' = [pos EXCEPT ![t] = 0]
  /\ val' = [val EXCEPT ![t] = NoValue]

-----------------------------------------------------------------------------
(* bool try_enqueue(T value) *)

EnqueueCall(t, v) ==
  /\ pc[t] = "idle"
  /\ enqueue_pos < MaxEnqueues
  /\ Goto(t, "e_load")
  /\ val' = [val EXCEPT ![t] = v]
  /\ UNCHANGED <<enqueue_pos, dequeue_pos, sequence, data, pos>>

(* pos = enqueue_pos_.load(), at the start and after falling behind *)
EnqueueLoad(t) ==
  /\ pc[t] = "e_load"
  /\ Goto(t, "e_check")
  /\ pos' = [pos EXCEPT ![t] = enqueue_pos]
  /\ UNCHANGED <<enqueue_pos, dequeue_pos, sequence, data, val>>

(* Mutant: diff <= 0 takes a cell that is still in use. *)
EnqueueTurnInUse(t) ==
  /\ pc[t] = "e_check"
  /\ sequence[Slot(pos[t])] <= pos[t]
  /\ Goto(t, "e_cas")
  /\ UNCHANGED <<enqueue_pos, dequeue_pos, sequence, data, pos, val>>

(* seq - pos = 0: this cell is this ticket's to fill *)
EnqueueTurn(t) ==
  /\ pc[t] = "e_check"
  /\ sequence[Slot(pos[t])] = pos[t]
  /\ Goto(t, "e_cas")
  /\ UNCHANGED <<enqueue_pos, dequeue_pos, sequence, data, pos, val>>

(* Mutant: wait for room instead of returning false. *)
EnqueueFullSpins(t) ==
  /\ pc[t] = "e_check"
  /\ sequence[Slot(pos[t])] < pos[t]
  /\ Goto(t, "e_load")
  /\ UNCHANGED <<enqueue_pos, dequeue_pos, sequence, data, pos, val>>

(* seq - pos < 0: the cell is still in use from the lap before *)
EnqueueFull(t) ==
  /\ pc[t] = "e_check"
  /\ sequence[Slot(pos[t])] < pos[t]
  /\ Return(t)
  /\ UNCHANGED <<enqueue_pos, dequeue_pos, sequence, data>>

(* seq - pos > 0: another producer has had this ticket *)
EnqueueBehind(t) ==
  /\ pc[t] = "e_check"
  /\ sequence[Slot(pos[t])] > pos[t]
  /\ Goto(t, "e_load")
  /\ UNCHANGED <<enqueue_pos, dequeue_pos, sequence, data, pos, val>>

(* Mutant: a store in place of the compare-exchange. *)
EnqueueNoCas(t) ==
  /\ pc[t] = "e_cas"
  /\ enqueue_pos' = pos[t] + 1
  /\ Goto(t, "e_write")
  /\ UNCHANGED <<dequeue_pos, sequence, data, pos, val>>

EnqueueCasOk(t) ==
  /\ pc[t] = "e_cas"
  /\ enqueue_pos = pos[t]
  /\ enqueue_pos' = pos[t] + 1
  /\ Goto(t, "e_write")
  /\ UNCHANGED <<dequeue_pos, sequence, data, pos, val>>

(* compare_exchange_weak may fail spuriously; it reloads pos either way. *)
EnqueueCasFail(t) ==
  /\ pc[t] = "e_cas"
  /\ Goto(t, "e_check")
  /\ pos' = [pos EXCEPT ![t] = enqueue_pos]
  /\ UNCHANGED <<enqueue_pos, dequeue_pos, sequence, data, val>>

(* cell->data = std::move(value) *)
EnqueueWrite(t) ==
  /\ pc[t] = "e_write"
  /\ data' = [data EXCEPT ![Slot(pos[t])] = val[t]]
  /\ Goto(t, "e_publish")
  /\ UNCHANGED <<enqueue_pos, dequeue_pos, sequence, pos, val>>

(* cell->sequence.store(pos + 1); return true *)
EnqueuePublish(t) ==
  /\ pc[t] = "e_publish"
  /\ sequence' = [sequence EXCEPT ![Slot(pos[t])] = pos[t] + 1]
  /\ Return(t)
  /\ UNCHANGED <<enqueue_pos, dequeue_pos, data>>

-----------------------------------------------------------------------------
(* bool try_dequeue(T& value) *)

DequeueCall(t) ==
  /\ pc[t] = "idle"
  /\ Goto(t, "d_load")
  /\ UNCHANGED <<enqueue_pos, dequeue_pos, sequence, data, pos, val>>

DequeueLoad(t) ==
  /\ pc[t] = "d_load"
  /\ Goto(t, "d_check")
  /\ pos' = [pos EXCEPT ![t] = dequeue_pos]
  /\ UNCHANGED <<enqueue_pos, dequeue_pos, sequence, data, val>>

(* seq - (pos + 1) = 0: the cell holds this ticket's value *)
DequeueTurn(t) ==
  /\ pc[t] = "d_check"
  /\ sequence[Slot(pos[t])] = pos[t] + 1
  /\ Goto(t, "d_cas")
  /\ UNCHANGED <<enqueue_pos, dequeue_pos, sequence, data, pos, val>>

DequeueEmpty(t) ==
  /\ pc[t] = "d_check"
  /\ sequence[Slot(pos[t])] < pos[t] + 1
  /\ Return(t)
  /\ UNCHANGED <<enqueue_pos, dequeue_pos, sequence, data>>

DequeueBehind(t) ==
  /\ pc[t] = "d_check"
  /\ sequence[Slot(pos[t])] > pos[t] + 1
  /\ Goto(t, "d_load")
  /\ UNCHANGED <<enqueue_pos, dequeue_pos, sequence, data, pos, val>>

DequeueCasOk(t) ==
  /\ pc[t] = "d_cas"
  /\ dequeue_pos = pos[t]
  /\ dequeue_pos' = pos[t] + 1
  /\ Goto(t, "d_read")
  /\ UNCHANGED <<enqueue_pos, sequence, data, pos, val>>

DequeueCasFail(t) ==
  /\ pc[t] = "d_cas"
  /\ Goto(t, "d_check")
  /\ pos' = [pos EXCEPT ![t] = dequeue_pos]
  /\ UNCHANGED <<enqueue_pos, dequeue_pos, sequence, data, val>>

(* value = std::move(cell->data): a moved-from MessagePtr is null *)
DequeueRead(t) ==
  /\ pc[t] = "d_read"
  /\ val' = [val EXCEPT ![t] = data[Slot(pos[t])]]
  /\ data' = [data EXCEPT ![Slot(pos[t])] = NoValue]
  /\ Goto(t, "d_release")
  /\ UNCHANGED <<enqueue_pos, dequeue_pos, sequence, pos>>

(* Mutant: pos + mask_, one short of the next lap. *)
DequeueReleaseShort(t) ==
  /\ pc[t] = "d_release"
  /\ sequence' = [sequence EXCEPT ![Slot(pos[t])] = pos[t] + Capacity - 1]
  /\ Return(t)
  /\ UNCHANGED <<enqueue_pos, dequeue_pos, data>>

(* Mutant: the lap is subtracted. *)
DequeueReleaseBack(t) ==
  /\ pc[t] = "d_release"
  /\ sequence' = [sequence EXCEPT ![Slot(pos[t])] = pos[t] - Capacity]
  /\ Return(t)
  /\ UNCHANGED <<enqueue_pos, dequeue_pos, data>>

(* cell->sequence.store(pos + mask_ + 1); return true *)
DequeueRelease(t) ==
  /\ pc[t] = "d_release"
  /\ sequence' = [sequence EXCEPT ![Slot(pos[t])] = pos[t] + Capacity]
  /\ Return(t)
  /\ UNCHANGED <<enqueue_pos, dequeue_pos, data>>

-----------------------------------------------------------------------------

(* One step of thread t inside a call. *)
Step(t) ==
  \/ EnqueueLoad(t)
  \/ EnqueueTurn(t)
  \/ EnqueueFull(t)
  \/ EnqueueBehind(t)
  \/ EnqueueCasOk(t)
  \/ EnqueueCasFail(t)
  \/ EnqueueWrite(t)
  \/ EnqueuePublish(t)
  \/ DequeueLoad(t)
  \/ DequeueTurn(t)
  \/ DequeueEmpty(t)
  \/ DequeueBehind(t)
  \/ DequeueCasOk(t)
  \/ DequeueCasFail(t)
  \/ DequeueRead(t)
  \/ DequeueRelease(t)

Next ==
  \E t \in Threads :
    \/ \E v \in Values : EnqueueCall(t, v)
    \/ DequeueCall(t)
    \/ Step(t)

Spec == Init /\ [][Next]_vars
-----------------------------------------------------------------------------
(* What a ticket stands for                                                *)

Writing(t) == pc[t] \in {"e_write", "e_publish"}
Reading(t) == pc[t] \in {"d_read", "d_release"}

Writes(t, n) == Writing(t) /\ pos[t] = n
Reads(t, n)  == Reading(t) /\ pos[t] = n

(* Tickets accepted and not taken, and tickets the ring has room for. *)
Live == dequeue_pos..(enqueue_pos - 1)
Free == enqueue_pos..(dequeue_pos + Capacity - 1)

TicketWindow == dequeue_pos <= enqueue_pos /\ enqueue_pos <= dequeue_pos + Capacity

LiveCells ==
  \A n \in Live :
    \/ sequence[Slot(n)] = n + 1 /\ data[Slot(n)] \in Values
    \/ sequence[Slot(n)] = n /\ \E t \in Threads : Writes(t, n)

FreeCells ==
  \A n \in Free :
    \/ sequence[Slot(n)] = n
    \/ sequence[Slot(n)] = n + 1 - Capacity /\ \E t \in Threads : Reads(t, n - Capacity)

(* A cell's sequence has reached at least what its past tickets gave it. *)
PastTickets ==
  /\ \A n \in 0..(enqueue_pos - 1) : sequence[Slot(n)] >= n
  /\ \A n \in 0..(dequeue_pos - 1) : sequence[Slot(n)] >= n + 1

WriterState ==
  \A t \in Threads : Writing(t) =>
    /\ pos[t] \in Live
    /\ sequence[Slot(pos[t])] = pos[t]
    /\ pc[t] = "e_publish" => data[Slot(pos[t])] = val[t]

ReaderState ==
  \A t \in Threads : Reading(t) =>
    /\ pos[t] < dequeue_pos
    /\ enqueue_pos <= pos[t] + Capacity
    /\ sequence[Slot(pos[t])] = pos[t] + 1
    /\ IF pc[t] = "d_read" THEN data[Slot(pos[t])] \in Values ELSE val[t] \in Values

(* A ticket has one producer and one consumer. *)
OneHolder ==
  \A t, u \in Threads :
    /\ (Writing(t) /\ Writing(u)) \/ (Reading(t) /\ Reading(u))
    /\ pos[t] = pos[u]
    => t = u

(* What a thread that has yet to win its compare-exchange knows. *)
StaleTickets ==
  \A t \in Threads :
    /\ pc[t] \in {"e_check", "e_cas"} => pos[t] <= enqueue_pos
    /\ pc[t] = "e_cas" => sequence[Slot(pos[t])] >= pos[t]
    /\ pc[t] \in {"d_check", "d_cas"} => pos[t] <= dequeue_pos
    /\ pc[t] = "d_cas" => sequence[Slot(pos[t])] >= pos[t] + 1

EnqueueArgument ==
  \A t \in Threads : pc[t] \in EnqueueSteps => val[t] \in Values

(* The inductive invariant: cells and tickets agree.  cell->data is written *)
(* and read without an atomic; the protocol of sequence numbers of          *)
(* try_enqueue and try_dequeue is all that keeps its users apart.           *)
Inv ==
  /\ TicketWindow
  /\ LiveCells
  /\ FreeCells
  /\ PastTickets
  /\ WriterState
  /\ ReaderState
  /\ OneHolder
  /\ StaleTickets
  /\ EnqueueArgument

(* No data race on cell->data: of the threads between their compare-exchange *)
(* and their sequence.store, no two are at the same cell, whatever laps their *)
(* tickets belong to.                                                         *)
Holds(t) == Writing(t) \/ Reading(t)

ExclusiveCells ==
  \A t, u \in Threads :
    Holds(t) /\ Holds(u) /\ Slot(pos[t]) = Slot(pos[u]) => t = u

-----------------------------------------------------------------------------
(* The queue implements FifoQueue.  A value is accepted when its producer   *)
(* wins the compare-exchange and taken when a consumer wins its own.        *)

WriterOf(n) == IF \E t \in Threads : Writes(t, n)
               THEN CHOOSE t \in Threads : Writes(t, n)
               ELSE NoThread

ValueOf(n) == IF \E t \in Threads : Writes(t, n)
              THEN val[WriterOf(n)]
              ELSE data[Slot(n)]

itemsBar == [k \in 1..(enqueue_pos - dequeue_pos) |->
               [val |-> ValueOf(dequeue_pos + k - 1),
                writer |-> WriterOf(dequeue_pos + k - 1)]]

callBar == [t \in Threads |->
              CASE pc[t] = "idle" -> "idle"
                [] pc[t] \in {"e_load", "e_check", "e_cas"} -> "enq"
                [] Writing(t) -> "committing"
                [] pc[t] \in {"d_load", "d_check", "d_cas"} -> "deq"
                [] Reading(t) -> "releasing"]

handBar == [t \in Threads |->
              IF pc[t] = "d_read" THEN data[Slot(pos[t])] ELSE val[t]]

ticketBar == [t \in Threads |->
                IF Reading(t) THEN pos[t] ELSE 0]

Fifo == INSTANCE FifoQueue WITH
          items <- itemsBar, call <- callBar, hand <- handBar,
          taken <- dequeue_pos, ticket <- ticketBar

(* Every behaviour of the ring is one of the bounded FIFO queue: values     *)
(* leave in the order of their compare-exchange, none is lost or taken      *)
(* twice, and a call returns false only when the next cell or the oldest    *)
(* item is really not available (lines 53-56 and 83-86).                    *)
ImplementsFifo == Fifo!QueueSpec

-----------------------------------------------------------------------------
(* The other threads may stop anywhere for ever.  Thread t runs, and a weak *)
(* compare-exchange that could succeed does not fail spuriously for ever.   *)

Fairness(t) == /\ WF_vars(Step(t))
               /\ SF_vars(EnqueueCasOk(t))
               /\ SF_vars(DequeueCasOk(t))

CONSTANT Runner  \* the one thread the scheduler is bound to run
ASSUME RunnerAssumption == Runner \in Threads

RunnerSpec == Spec /\ Fairness(Runner)

(* The positions move no more but by the runner's own compare-exchanges. *)
OthersStop ==
  <>[][Step(Runner) \/ UNCHANGED <<enqueue_pos, dequeue_pos>>]_vars

(* What a caller may count on: once no other thread wins compare-exchanges  *)
(* any more, its call returns, wherever in their calls the others have      *)
(* stopped; a thread stalled between its compare-exchange and its           *)
(* sequence.store keeps nobody inside try_enqueue or try_dequeue.  While    *)
(* others go on winning, the loops of lines 48-61 and 78-91 may go on too.  *)
CallsReturn == OthersStop => (pc[Runner] # "idle" ~> pc[Runner] = "idle")
=============================================================================
