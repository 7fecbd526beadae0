------------------------- MODULE LockFreeQueueProofs -------------------------
(***************************************************************************)
(* Proofs about LockFreeQueue for every set of threads and of values and   *)
(* every capacity of at least two cells.                                   *)
(***************************************************************************)
EXTENDS LockFreeQueue, SequenceTheorems, TLAPS

(* Arithmetic of pos & mask_, on which everything below rests.             *)

(* A slot number is the index of a cell. *)
LEMMA SlotType == \A n \in Nat : Slot(n) \in Slots
  BY CapacityAssumption DEF Slot, Slots

(* The only multiple of a lap shorter than a lap is zero. *)
LEMMA ShortMultiple ==
  ASSUME NEW c \in Nat, NEW k \in Int, 0 - c < c * k, c * k < c
  PROVE  k = 0
<1>1. CASE k >= 1
  <2>1. \A i \in Nat : c * (i + 1) >= c
    OBVIOUS
  <2>2. k - 1 \in Nat /\ (k - 1) + 1 = k
    BY <1>1
  <2>3. QED
    BY <2>1, <2>2
<1>2. CASE k <= -1
  <2>1. \A i \in Nat : c * (0 - (i + 1)) <= 0 - c
    OBVIOUS
  <2>2. 0 - k - 1 \in Nat /\ 0 - ((0 - k - 1) + 1) = k
    BY <1>2
  <2>3. c * (0 - ((0 - k - 1) + 1)) <= 0 - c
    BY <2>1, <2>2
  <2>4. QED
    BY <2>2, <2>3
<1>3. QED
  BY <1>1, <1>2

(* Tickets in slots of their own laps. *)
LEMMA SlotLap ==
  ASSUME NEW n \in Nat
  PROVE  /\ n \div Capacity \in Int
         /\ n = Capacity * (n \div Capacity) + Slot(n)
  BY CapacityAssumption DEF Slot

(* Two tickets in one cell are a whole number of laps apart. *)
LEMMA SameSlot ==
  ASSUME NEW m \in Nat, NEW n \in Nat,
         0 - Capacity < n - m, n - m < Capacity, Slot(m) = Slot(n)
  PROVE  m = n
<1> DEFINE q == m \div Capacity
           r == n \div Capacity
<1>1. /\ m = Capacity * q + Slot(m) /\ q \in Int
      /\ n = Capacity * r + Slot(n) /\ r \in Int
  BY SlotLap
<1>2. Slot(m) \in Int /\ Slot(n) \in Int /\ Capacity \in Nat
  BY SlotType, CapacityAssumption DEF Slots
<1> HIDE DEF q, r
<1>3. n - m = Capacity * (r - q)
  BY <1>1, <1>2
<1>4. r - q = 0
  BY <1>1, <1>2, <1>3, ShortMultiple
<1>5. Capacity * 0 = 0
  BY <1>2
<1>6. QED
  BY <1>1, <1>2, <1>3, <1>4, <1>5

(* Tickets exactly a lap apart share a cell. *)
LEMMA SlotWrap ==
  ASSUME NEW n \in Nat
  PROVE  Slot(n + Capacity) = Slot(n)
<1> DEFINE q == n \div Capacity
           r == (n + Capacity) \div Capacity
<1>1. /\ n = Capacity * q + Slot(n) /\ q \in Int
      /\ n + Capacity = Capacity * r + Slot(n + Capacity) /\ r \in Int
      /\ n + Capacity \in Nat
  BY SlotLap, CapacityAssumption
<1>2. /\ Slot(n) \in Int /\ 0 <= Slot(n) /\ Slot(n) < Capacity
      /\ Slot(n + Capacity) \in Int /\ 0 <= Slot(n + Capacity)
      /\ Slot(n + Capacity) < Capacity
      /\ Capacity \in Nat
  BY <1>1, SlotType, CapacityAssumption DEF Slots
<1> HIDE DEF q, r
<1>3. PICK k \in Int : r = q + 1 + k
  <2>1. r - q - 1 \in Int /\ r = q + 1 + (r - q - 1)
    BY <1>1
  <2>2. QED
    BY <2>1
<1>4. Capacity * r = Capacity * q + Capacity + Capacity * k
  BY <1>1, <1>2, <1>3
<1>5. Capacity * k \in Int
  BY <1>2
<1>6. Capacity * q \in Int
  BY <1>1, <1>2
<1>7. Capacity * k = Slot(n) - Slot(n + Capacity)
  BY <1>1, <1>2, <1>4, <1>5, <1>6
<1>8. 0 - Capacity < Capacity * k /\ Capacity * k < Capacity
  BY <1>2, <1>7
<1>9. k = 0
  BY <1>2, <1>8, ShortMultiple
<1>10. Capacity * 0 = 0
  BY <1>2
<1>11. QED
  BY <1>2, <1>7, <1>9, <1>10
-----------------------------------------------------------------------------
(* Types: every position stays a natural, every cell index stays in range. *)

(* Every atomic step of the queue keeps the types. *)
LEMMA TypeStep == TypeOK /\ [Next]_vars => TypeOK'
<1> SUFFICES ASSUME TypeOK, [Next]_vars PROVE TypeOK'
  OBVIOUS
<1>1. CASE UNCHANGED vars
  BY <1>1 DEF TypeOK, vars
<1>2. ASSUME NEW t \in Threads, NEW v \in Values, EnqueueCall(t, v) PROVE TypeOK'
  BY <1>2 DEF TypeOK, EnqueueCall, Goto, EnqueueSteps
<1>3. ASSUME NEW t \in Threads, DequeueCall(t) PROVE TypeOK'
  BY <1>3 DEF TypeOK, DequeueCall, Goto, DequeueSteps
<1>4. ASSUME NEW t \in Threads, Step(t) PROVE TypeOK'
  <2> USE <1>4, SlotType, CapacityAssumption
      DEF TypeOK, Goto, Return, EnqueueSteps, DequeueSteps
  <2>1. CASE EnqueueLoad(t)     BY <2>1 DEF EnqueueLoad
  <2>2. CASE EnqueueTurn(t)     BY <2>2 DEF EnqueueTurn
  <2>3. CASE EnqueueFull(t)     BY <2>3 DEF EnqueueFull
  <2>4. CASE EnqueueBehind(t)   BY <2>4 DEF EnqueueBehind
  <2>5. CASE EnqueueCasOk(t)    BY <2>5 DEF EnqueueCasOk
  <2>6. CASE EnqueueCasFail(t)  BY <2>6 DEF EnqueueCasFail
  <2>7. CASE EnqueueWrite(t)    BY <2>7 DEF EnqueueWrite
  <2>8. CASE EnqueuePublish(t)  BY <2>8 DEF EnqueuePublish
  <2>9. CASE DequeueLoad(t)     BY <2>9 DEF DequeueLoad
  <2>10. CASE DequeueTurn(t)    BY <2>10 DEF DequeueTurn
  <2>11. CASE DequeueEmpty(t)   BY <2>11 DEF DequeueEmpty
  <2>12. CASE DequeueBehind(t)  BY <2>12 DEF DequeueBehind
  <2>13. CASE DequeueCasOk(t)   BY <2>13 DEF DequeueCasOk
  <2>14. CASE DequeueCasFail(t) BY <2>14 DEF DequeueCasFail
  <2>15. CASE DequeueRead(t)    BY <2>15 DEF DequeueRead
  <2>16. CASE DequeueRelease(t) BY <2>16 DEF DequeueRelease
  <2>17. QED
    BY <2>1, <2>2, <2>3, <2>4, <2>5, <2>6, <2>7, <2>8, <2>9, <2>10,
       <2>11, <2>12, <2>13, <2>14, <2>15, <2>16 DEF Step
<1>5. QED
  BY <1>1, <1>2, <1>3, <1>4 DEF Next

(* Every variable of the queue has its type in every reachable state of    *)
(* try_enqueue and try_dequeue: no index leaves buffer_, no position goes  *)
(* negative.                                                               *)
THEOREM TypeCorrect == Spec => []TypeOK
<1>1. Init => TypeOK
  BY CapacityAssumption DEF Init, TypeOK, Slots
<1>2. QED
  BY <1>1, TypeStep, PTL DEF Spec

-----------------------------------------------------------------------------
(* The inductive invariant.                                                *)

(* A queue that has just been constructed is empty. *)
LEMMA InvInit == Init => Inv
<1> SUFFICES ASSUME Init PROVE Inv
  OBVIOUS
<1> USE DEF Init
<1>1. \A n \in 0..(Capacity - 1) : n \in Nat /\ Slot(n) = n
  <2> SUFFICES ASSUME NEW n \in 0..(Capacity - 1) PROVE n \in Nat /\ Slot(n) = n
    OBVIOUS
  <2>1. QED
    BY CapacityAssumption DEF Slot
<1>2. FreeCells
  BY <1>1, CapacityAssumption DEF FreeCells, Free, Slots
<1>3. TicketWindow /\ LiveCells /\ PastTickets
  BY CapacityAssumption DEF TicketWindow, LiveCells, Live, PastTickets
<1>4. WriterState /\ ReaderState /\ OneHolder /\ StaleTickets /\ EnqueueArgument
  BY DEF WriterState, ReaderState, OneHolder, StaleTickets, EnqueueArgument,
         Writing, Reading, EnqueueSteps
<1>5. QED
  BY <1>2, <1>3, <1>4 DEF Inv

(* A step outside the compare-exchange and the moves of data leaves the    *)
(* shared half of the invariant alone.                                     *)
LEMMA LocalStep ==
  ASSUME TypeOK, Inv, NEW t \in Threads,
         UNCHANGED <<enqueue_pos, dequeue_pos, sequence, data>>,
         \A u \in Threads \ {t} :
           pc'[u] = pc[u] /\ pos'[u] = pos[u] /\ val'[u] = val[u],
         ~Holds(t), ~Holds(t)'
  PROVE  /\ TicketWindow'
         /\ LiveCells'
         /\ FreeCells'
         /\ PastTickets'
         /\ WriterState'
         /\ ReaderState'
         /\ OneHolder'
<1> USE DEF Inv, Holds, Writing, Reading
<1>1. TicketWindow'
  BY DEF TicketWindow
<1>2. LiveCells'
  BY DEF LiveCells, Live, Writes
<1>3. FreeCells'
  BY DEF FreeCells, Free, Reads
<1>4. PastTickets'
  BY DEF PastTickets
<1>5. WriterState'
  BY DEF WriterState, Live
<1>6. ReaderState'
  BY DEF ReaderState
<1>7. OneHolder'
  BY DEF OneHolder
<1>8. QED
  BY <1>1, <1>2, <1>3, <1>4, <1>5, <1>6, <1>7
(* Winning the compare-exchange of try_enqueue: the cell is free for this  *)
(* ticket, although the check of its sequence lies some steps back.        *)
LEMMA EnqueueCasStep ==
  ASSUME TypeOK, TypeOK', Inv, NEW t \in Threads, EnqueueCasOk(t)
  PROVE  Inv'
<1> DEFINE p == enqueue_pos
<1> USE CapacityAssumption DEF TypeOK, Inv, Writing, Reading
<1>1. /\ pc[t] = "e_cas" /\ pos[t] = p /\ enqueue_pos' = p + 1
      /\ pc' = [pc EXCEPT ![t] = "e_write"]
      /\ UNCHANGED <<dequeue_pos, sequence, data, pos, val>>
  BY DEF EnqueueCasOk, Goto
<1>2. sequence[Slot(p)] >= p
  BY <1>1 DEF StaleTickets
<1>3. p < dequeue_pos + Capacity
  <2> SUFFICES ASSUME p = dequeue_pos + Capacity PROVE FALSE
    BY DEF TicketWindow
  <2>1. dequeue_pos \in Live
    BY DEF Live
  <2>2. Slot(p) = Slot(dequeue_pos)
    BY SlotWrap
  <2>3. QED
    BY <1>2, <2>1, <2>2 DEF LiveCells
<1>4. sequence[Slot(p)] = p
  BY <1>2, <1>3 DEF FreeCells, Free, TicketWindow
<1>5. TicketWindow'
  BY <1>1, <1>3 DEF TicketWindow
<1>6. LiveCells'
  <2> SUFFICES ASSUME NEW n \in Live'
               PROVE  \/ sequence[Slot(n)] = n + 1 /\ data[Slot(n)] \in Values
                      \/ sequence[Slot(n)] = n /\ \E u \in Threads : Writes(u, n)'
    BY <1>1 DEF LiveCells
  <2>1. CASE n = p
    BY <1>1, <1>4, <2>1 DEF Writes
  <2>2. CASE n # p
    <3>1. n \in Live
      BY <1>1, <2>2 DEF Live
    <3>2. QED
      BY <1>1, <3>1 DEF LiveCells, Writes
  <2>3. QED
    BY <2>1, <2>2
<1>7. FreeCells'
  BY <1>1 DEF FreeCells, Free, Reads
<1>8. PastTickets'
  BY <1>1, <1>2 DEF PastTickets
<1>9. WriterState'
  BY <1>1, <1>3, <1>4 DEF WriterState, Live, TicketWindow
<1>10. ReaderState'
  <2> SUFFICES ASSUME NEW u \in Threads, Reading(u)
               PROVE  p + 1 <= pos[u] + Capacity
    BY <1>1 DEF ReaderState
  <2>1. p # pos[u] + Capacity
    BY <1>4, SlotWrap DEF ReaderState
  <2>2. QED
    BY <2>1 DEF ReaderState
<1>11. OneHolder'
  BY <1>1 DEF OneHolder, WriterState, Live
<1>12. StaleTickets'
  BY <1>1 DEF StaleTickets
<1>13. EnqueueArgument'
  BY <1>1 DEF EnqueueArgument, EnqueueSteps
<1>14. QED
  BY <1>5, <1>6, <1>7, <1>8, <1>9, <1>10, <1>11, <1>12, <1>13

(* Writing cell->data disturbs no other accepted value: live tickets do    *)
(* not share cells.                                                        *)
LEMMA EnqueueWriteStep ==
  ASSUME TypeOK, TypeOK', Inv, NEW t \in Threads, EnqueueWrite(t)
  PROVE  Inv'
<1> DEFINE p == pos[t]
<1> USE CapacityAssumption, SlotType DEF TypeOK, Inv, Writing, Reading
<1>1. /\ pc[t] = "e_write"
      /\ pc' = [pc EXCEPT ![t] = "e_publish"]
      /\ data' = [data EXCEPT ![Slot(p)] = val[t]]
      /\ UNCHANGED <<enqueue_pos, dequeue_pos, sequence, pos, val>>
  BY DEF EnqueueWrite, Goto
<1>2. val[t] \in Values
  BY <1>1 DEF EnqueueArgument, EnqueueSteps
<1>3. LiveCells'
  BY <1>1, <1>2 DEF LiveCells, Live, Writes
<1>4. FreeCells'
  BY <1>1 DEF FreeCells, Free, Reads
<1>5. WriterState'
  <2> SUFFICES ASSUME NEW u \in Threads, u # t, pc[u] = "e_publish"
               PROVE  Slot(pos[u]) # Slot(p)
    BY <1>1, <1>2 DEF WriterState, Live
  <2> SUFFICES ASSUME Slot(pos[u]) = Slot(p) PROVE FALSE
    OBVIOUS
  <2>1. pos[u] = p
    BY <1>1 DEF WriterState
  <2>2. QED
    BY <1>1, <2>1 DEF OneHolder
<1>6. ReaderState'
  BY <1>1, <1>2 DEF ReaderState
<1>7. OneHolder'
  BY <1>1 DEF OneHolder
<1>8. TicketWindow' /\ PastTickets' /\ StaleTickets'
  BY <1>1 DEF TicketWindow, PastTickets, StaleTickets
<1>9. EnqueueArgument'
  BY <1>1 DEF EnqueueArgument, EnqueueSteps
<1>10. QED
  BY <1>3, <1>4, <1>5, <1>6, <1>7, <1>8, <1>9

(* Storing pos + 1 hands the cell from its producer to its consumer.       *)
LEMMA EnqueuePublishStep ==
  ASSUME TypeOK, TypeOK', Inv, NEW t \in Threads, EnqueuePublish(t)
  PROVE  Inv'
<1> DEFINE p == pos[t]
<1> USE CapacityAssumption, SlotType DEF TypeOK, Inv, Writing, Reading
<1>1. /\ pc[t] = "e_publish"
      /\ pc' = [pc EXCEPT ![t] = "idle"]
      /\ pos' = [pos EXCEPT ![t] = 0]
      /\ val' = [val EXCEPT ![t] = NoValue]
      /\ sequence' = [sequence EXCEPT ![Slot(p)] = p + 1]
      /\ UNCHANGED <<enqueue_pos, dequeue_pos, data>>
  BY DEF EnqueuePublish, Goto, Return
<1>2. p \in Nat /\ p \in Live /\ sequence[Slot(p)] = p /\ data[Slot(p)] = val[t]
  BY <1>1 DEF WriterState
<1>3. val[t] \in Values
  BY <1>1 DEF EnqueueArgument, EnqueueSteps
<1>4. \A i \in Slots : sequence'[i] >= sequence[i]
  BY <1>1, <1>2
<1>5. \A n \in Live : Slot(n) = Slot(p) => n = p
  <2> SUFFICES ASSUME NEW n \in Live, Slot(n) = Slot(p) PROVE n = p
    OBVIOUS
  <2>1. n \in Nat /\ 0 - Capacity < p - n /\ p - n < Capacity
    BY <1>2 DEF Live, TicketWindow
  <2>2. QED
    BY <1>2, <2>1, SameSlot
<1>6. \A n \in Free : Slot(n) # Slot(p)
  BY <1>2, SameSlot DEF Live, Free, TicketWindow
<1>7. LiveCells'
  <2> SUFFICES ASSUME NEW n \in Live
               PROVE  \/ sequence'[Slot(n)] = n + 1 /\ data[Slot(n)] \in Values
                      \/ sequence'[Slot(n)] = n /\ \E u \in Threads : Writes(u, n)'
    BY <1>1 DEF LiveCells, Live
  <2>1. CASE n = p
    BY <1>1, <1>2, <1>3, <2>1
  <2>2. CASE n # p
    <3>1. n \in Nat /\ sequence'[Slot(n)] = sequence[Slot(n)]
      BY <1>1, <1>2, <1>5, <2>2 DEF Live
    <3>2. \A u \in Threads : Writes(u, n) => Writes(u, n)'
      BY <1>1, <2>2 DEF Writes
    <3>3. QED
      BY <3>1, <3>2 DEF LiveCells
  <2>3. QED
    BY <2>1, <2>2
<1>8. FreeCells'
  <2> SUFFICES ASSUME NEW n \in Free
               PROVE  \/ sequence'[Slot(n)] = n
                      \/ /\ sequence'[Slot(n)] = n + 1 - Capacity
                         /\ \E u \in Threads : Reads(u, n - Capacity)'
    BY <1>1 DEF FreeCells, Free
  <2>1. n \in Nat /\ sequence'[Slot(n)] = sequence[Slot(n)]
    BY <1>1, <1>2, <1>6 DEF Free
  <2>2. \A u \in Threads : Reads(u, n - Capacity) => Reads(u, n - Capacity)'
    BY <1>1 DEF Reads
  <2>3. QED
    BY <2>1, <2>2 DEF FreeCells
<1>9. PastTickets'
  BY <1>1, <1>4 DEF PastTickets
<1>10. WriterState'
  BY <1>1, <1>2, <1>5 DEF WriterState, Live, OneHolder
<1>11. ReaderState'
  <2> SUFFICES ASSUME NEW u \in Threads, Reading(u)
               PROVE  Slot(pos[u]) # Slot(p)
    BY <1>1, <1>2 DEF ReaderState
  <2>1. pos[u] < p /\ p < pos[u] + Capacity /\ pos[u] \in Nat
    BY <1>2 DEF ReaderState, Live
  <2>2. QED
    BY <1>2, <2>1, SameSlot
<1>12. OneHolder'
  BY <1>1 DEF OneHolder
<1>13. TicketWindow'
  BY <1>1 DEF TicketWindow
<1>14. StaleTickets'
  BY <1>1, <1>4 DEF StaleTickets
<1>15. EnqueueArgument'
  BY <1>1 DEF EnqueueArgument, EnqueueSteps
<1>16. QED
  BY <1>7, <1>8, <1>9, <1>10, <1>11, <1>12, <1>13, <1>14, <1>15
(* Winning the compare-exchange of try_dequeue: the ticket is accepted and *)
(* its value is complete.                                                  *)
LEMMA DequeueCasStep ==
  ASSUME TypeOK, TypeOK', Inv, NEW t \in Threads, DequeueCasOk(t)
  PROVE  Inv'
<1> DEFINE p == dequeue_pos
<1> USE CapacityAssumption, SlotType DEF TypeOK, Inv, Writing, Reading
<1>1. /\ pc[t] = "d_cas" /\ pos[t] = p /\ dequeue_pos' = p + 1
      /\ pc' = [pc EXCEPT ![t] = "d_read"]
      /\ UNCHANGED <<enqueue_pos, sequence, data, pos, val>>
  BY DEF DequeueCasOk, Goto
<1>2. sequence[Slot(p)] >= p + 1
  BY <1>1 DEF StaleTickets
<1>3. p < enqueue_pos
  <2> SUFFICES ASSUME p = enqueue_pos PROVE FALSE
    BY DEF TicketWindow
  <2>1. p \in Free
    BY DEF Free
  <2>2. QED
    BY <1>2, <2>1 DEF FreeCells
<1>4. sequence[Slot(p)] = p + 1 /\ data[Slot(p)] \in Values
  <2>1. p \in Live
    BY <1>3 DEF Live
  <2>2. QED
    BY <1>2, <2>1 DEF LiveCells
<1>5. LiveCells'
  BY <1>1 DEF LiveCells, Live, Writes
<1>6. FreeCells'
  <2> SUFFICES ASSUME NEW n \in Free'
               PROVE  \/ sequence[Slot(n)] = n
                      \/ /\ sequence[Slot(n)] = n + 1 - Capacity
                         /\ \E u \in Threads : Reads(u, n - Capacity)'
    BY <1>1 DEF FreeCells
  <2>1. CASE n = p + Capacity
    <3>1. sequence[Slot(n)] = n + 1 - Capacity
      BY <1>4, <2>1, SlotWrap
    <3>2. Reads(t, n - Capacity)'
      BY <1>1, <2>1 DEF Reads
    <3>3. QED
      BY <3>1, <3>2
  <2>2. CASE n # p + Capacity
    <3>1. n \in Free
      BY <1>1, <2>2 DEF Free
    <3>2. \A u \in Threads : Reads(u, n - Capacity) => Reads(u, n - Capacity)'
      BY <1>1 DEF Reads
    <3>3. QED
      BY <3>1, <3>2 DEF FreeCells
  <2>3. QED
    BY <2>1, <2>2
<1>7. PastTickets'
  BY <1>1, <1>2 DEF PastTickets
<1>8. WriterState'
  BY <1>1, <1>4 DEF WriterState, Live
<1>9. ReaderState'
  BY <1>1, <1>4 DEF ReaderState, TicketWindow
<1>10. OneHolder'
  BY <1>1 DEF OneHolder, ReaderState
<1>11. TicketWindow'
  BY <1>1, <1>3 DEF TicketWindow
<1>12. StaleTickets'
  BY <1>1 DEF StaleTickets
<1>13. EnqueueArgument'
  BY <1>1 DEF EnqueueArgument, EnqueueSteps
<1>14. QED
  BY <1>5, <1>6, <1>7, <1>8, <1>9, <1>10, <1>11, <1>12, <1>13

(* A taken ticket's cell is no accepted ticket's, nor another consumer's.  *)
LEMMA ReaderCell ==
  ASSUME TypeOK, Inv, NEW t \in Threads, Reading(t)
  PROVE  /\ pos[t] \in Nat /\ sequence[Slot(pos[t])] = pos[t] + 1
         /\ \A n \in Live : n \in Nat /\ Slot(n) # Slot(pos[t])
         /\ \A u \in Threads :
              Reading(u) /\ Slot(pos[u]) = Slot(pos[t]) => u = t
         /\ \A u \in Threads : Writing(u) => Slot(pos[u]) # Slot(pos[t])
<1> USE CapacityAssumption DEF TypeOK, Inv
<1>1. pos[t] \in Nat /\ sequence[Slot(pos[t])] = pos[t] + 1
  BY DEF ReaderState
<1>2. \A n \in Live : n \in Nat /\ Slot(n) # Slot(pos[t])
  <2> SUFFICES ASSUME NEW n \in Live PROVE n \in Nat /\ Slot(n) # Slot(pos[t])
    OBVIOUS
  <2>1. n \in Nat /\ pos[t] < n /\ n - pos[t] < Capacity
    BY DEF Live, ReaderState, TicketWindow
  <2>2. QED
    BY <1>1, <2>1, SameSlot
<1>3. \A u \in Threads : Reading(u) /\ Slot(pos[u]) = Slot(pos[t]) => u = t
  BY <1>1 DEF ReaderState, OneHolder
<1>4. \A u \in Threads : Writing(u) => Slot(pos[u]) # Slot(pos[t])
  BY <1>2 DEF WriterState
<1>5. QED
  BY <1>1, <1>2, <1>3, <1>4

(* Moving a value out of its cell disturbs no accepted value.              *)
LEMMA DequeueReadStep ==
  ASSUME TypeOK, TypeOK', Inv, NEW t \in Threads, DequeueRead(t)
  PROVE  Inv'
<1> DEFINE p == pos[t]
<1> USE CapacityAssumption, SlotType DEF TypeOK, Inv
<1>1. /\ pc[t] = "d_read"
      /\ pc' = [pc EXCEPT ![t] = "d_release"]
      /\ val' = [val EXCEPT ![t] = data[Slot(p)]]
      /\ data' = [data EXCEPT ![Slot(p)] = NoValue]
      /\ UNCHANGED <<enqueue_pos, dequeue_pos, sequence, pos>>
  BY DEF DequeueRead, Goto
<1>2. Reading(t) /\ ~Writing(t) /\ ~Writing(t)'
  BY <1>1 DEF Reading, Writing
<1>3. /\ p \in Nat
      /\ \A n \in Live : n \in Nat /\ Slot(n) # Slot(p)
      /\ \A u \in Threads : Reading(u) /\ Slot(pos[u]) = Slot(p) => u = t
      /\ \A u \in Threads : Writing(u) => Slot(pos[u]) # Slot(p)
  BY <1>2, ReaderCell
<1>4. LiveCells'
  BY <1>1, <1>3 DEF LiveCells, Live, Writes, Writing
<1>5. FreeCells'
  BY <1>1 DEF FreeCells, Free, Reads, Reading
<1>6. WriterState'
  BY <1>1, <1>3 DEF WriterState, Live, Writing
<1>7. ReaderState'
  BY <1>1, <1>3 DEF ReaderState, Reading
<1>8. OneHolder'
  BY <1>1 DEF OneHolder, Writing, Reading
<1>9. TicketWindow' /\ PastTickets' /\ StaleTickets'
  BY <1>1 DEF TicketWindow, PastTickets, StaleTickets
<1>10. EnqueueArgument'
  BY <1>1 DEF EnqueueArgument, EnqueueSteps
<1>11. QED
  BY <1>4, <1>5, <1>6, <1>7, <1>8, <1>9, <1>10

(* Storing pos + mask_ + 1 hands the cell to the producer of the next lap. *)
LEMMA DequeueReleaseStep ==
  ASSUME TypeOK, TypeOK', Inv, NEW t \in Threads, DequeueRelease(t)
  PROVE  Inv'
<1> DEFINE p == pos[t]
<1> USE CapacityAssumption, SlotType DEF TypeOK, Inv
<1>1. /\ pc[t] = "d_release"
      /\ pc' = [pc EXCEPT ![t] = "idle"]
      /\ pos' = [pos EXCEPT ![t] = 0]
      /\ val' = [val EXCEPT ![t] = NoValue]
      /\ sequence' = [sequence EXCEPT ![Slot(p)] = p + Capacity]
      /\ UNCHANGED <<enqueue_pos, dequeue_pos, data>>
  BY DEF DequeueRelease, Goto, Return
<1>2. Reading(t) /\ ~Writing(t) /\ ~Holds(t)'
  BY <1>1 DEF Reading, Writing, Holds
<1>3. /\ p \in Nat /\ sequence[Slot(p)] = p + 1
      /\ \A n \in Live : n \in Nat /\ Slot(n) # Slot(p)
      /\ \A u \in Threads : Reading(u) /\ Slot(pos[u]) = Slot(p) => u = t
      /\ \A u \in Threads : Writing(u) => Slot(pos[u]) # Slot(p)
  BY <1>2, ReaderCell
<1>4. \A i \in Slots : sequence'[i] >= sequence[i]
  BY <1>1, <1>3
<1>5. LiveCells'
  BY <1>1, <1>3 DEF LiveCells, Live, Writes, Writing
<1>6. FreeCells'
  <2> SUFFICES ASSUME NEW n \in Free
               PROVE  \/ sequence'[Slot(n)] = n
                      \/ /\ sequence'[Slot(n)] = n + 1 - Capacity
                         /\ \E u \in Threads : Reads(u, n - Capacity)'
    BY <1>1 DEF FreeCells, Free
  <2>1. n \in Nat
    BY DEF Free
  <2>2. CASE Slot(n) = Slot(p)
    <3>1. n # p + 1
      <4> SUFFICES ASSUME n = p + 1 PROVE FALSE
        OBVIOUS
      <4>1. 0 - Capacity < n - p /\ n - p < Capacity /\ n # p
        BY <1>3
      <4>2. QED
        BY <1>3, <2>1, <2>2, <4>1, SameSlot
    <3>2. n = p + Capacity
      <4>1. sequence[Slot(n)] = n \/ sequence[Slot(n)] = n + 1 - Capacity
        BY DEF FreeCells
      <4>2. n = p + 1 \/ n + 1 - Capacity = p + 1
        BY <1>3, <2>2, <4>1
      <4>3. QED
        BY <1>3, <2>1, <3>1, <4>2
    <3>3. QED
      BY <1>1, <1>3, <2>1, <2>2, <3>2
  <2>3. CASE Slot(n) # Slot(p)
    <3>1. sequence'[Slot(n)] = sequence[Slot(n)]
      BY <1>1, <1>3, <2>1, <2>3
    <3>2. \A u \in Threads : Reads(u, n - Capacity) => Reads(u, n - Capacity)'
      <4> SUFFICES ASSUME NEW u \in Threads, Reads(u, n - Capacity)
                   PROVE  Reads(u, n - Capacity)'
        OBVIOUS
      <4>1. u # t
        <5> SUFFICES ASSUME n - Capacity = p PROVE FALSE
          BY DEF Reads
        <5>1. n = p + Capacity
          BY <1>3, <2>1
        <5>2. QED
          BY <1>3, <2>3, <5>1, SlotWrap
      <4>2. QED
        BY <1>1, <4>1 DEF Reads, Reading
    <3>3. QED
      BY <3>1, <3>2 DEF FreeCells
  <2>4. QED
    BY <2>2, <2>3
<1>7. PastTickets'
  BY <1>1, <1>4 DEF PastTickets
<1>8. WriterState'
  BY <1>1, <1>3 DEF WriterState, Live, Writing
<1>9. ReaderState'
  BY <1>1, <1>3 DEF ReaderState, Reading
<1>10. OneHolder'
  BY <1>1 DEF OneHolder, Writing, Reading
<1>11. TicketWindow'
  BY <1>1 DEF TicketWindow
<1>12. StaleTickets'
  BY <1>1, <1>4 DEF StaleTickets
<1>13. EnqueueArgument'
  BY <1>1 DEF EnqueueArgument, EnqueueSteps
<1>14. QED
  BY <1>5, <1>6, <1>7, <1>8, <1>9, <1>10, <1>11, <1>12, <1>13
(* Every atomic step of try_enqueue and try_dequeue keeps the invariant. *)
LEMMA InvStep == TypeOK /\ TypeOK' /\ Inv /\ [Next]_vars => Inv'
<1> SUFFICES ASSUME TypeOK, TypeOK', Inv, [Next]_vars PROVE Inv'
  OBVIOUS
<1>1. CASE UNCHANGED vars
  BY <1>1 DEF vars, Inv, TicketWindow, LiveCells, Live, FreeCells, Free,
     PastTickets, WriterState, ReaderState, OneHolder, StaleTickets,
     EnqueueArgument, Writes, Reads, Writing, Reading
<1>2. ASSUME NEW t \in Threads, NEW v \in Values, EnqueueCall(t, v) PROVE Inv'
  <2>1. StaleTickets' /\ EnqueueArgument'
    BY <1>2 DEF EnqueueCall, Goto, TypeOK, Inv, StaleTickets, EnqueueArgument,
       EnqueueSteps
  <2>2. QED
    BY <1>2, <2>1, LocalStep
       DEF EnqueueCall, Goto, Inv, TypeOK, Holds, Writing, Reading
<1>3. ASSUME NEW t \in Threads, DequeueCall(t) PROVE Inv'
  <2>1. StaleTickets' /\ EnqueueArgument'
    BY <1>3 DEF DequeueCall, Goto, TypeOK, Inv, StaleTickets, EnqueueArgument,
       EnqueueSteps
  <2>2. QED
    BY <1>3, <2>1, LocalStep
       DEF DequeueCall, Goto, Inv, TypeOK, Holds, Writing, Reading
<1>4. ASSUME NEW t \in Threads, Step(t) PROVE Inv'
  <2>1. CASE \/ EnqueueLoad(t) \/ EnqueueTurn(t) \/ EnqueueFull(t)
             \/ EnqueueBehind(t) \/ EnqueueCasFail(t)
             \/ DequeueLoad(t) \/ DequeueTurn(t) \/ DequeueEmpty(t)
             \/ DequeueBehind(t) \/ DequeueCasFail(t)
    <3> USE <2>1 DEF EnqueueLoad, EnqueueTurn, EnqueueFull, EnqueueBehind,
          EnqueueCasFail, DequeueLoad, DequeueTurn, DequeueEmpty,
          DequeueBehind, DequeueCasFail, Goto, Return, TypeOK, Inv
    <3>1. StaleTickets'
      BY CapacityAssumption, SlotType DEF StaleTickets
    <3>2. EnqueueArgument'
      BY DEF EnqueueArgument, EnqueueSteps
    <3>3. /\ UNCHANGED <<enqueue_pos, dequeue_pos, sequence, data>>
          /\ \A u \in Threads \ {t} :
               pc'[u] = pc[u] /\ pos'[u] = pos[u] /\ val'[u] = val[u]
          /\ ~Holds(t) /\ ~Holds(t)'
      BY DEF Holds, Writing, Reading
    <3>4. QED
      BY <3>1, <3>2, <3>3, LocalStep
  <2>2. CASE EnqueueCasOk(t)    BY <2>2, EnqueueCasStep
  <2>3. CASE EnqueueWrite(t)    BY <2>3, EnqueueWriteStep
  <2>4. CASE EnqueuePublish(t)  BY <2>4, EnqueuePublishStep
  <2>5. CASE DequeueCasOk(t)    BY <2>5, DequeueCasStep
  <2>6. CASE DequeueRead(t)     BY <2>6, DequeueReadStep
  <2>7. CASE DequeueRelease(t)  BY <2>7, DequeueReleaseStep
  <2>8. QED
    BY <1>4, <2>1, <2>2, <2>3, <2>4, <2>5, <2>6, <2>7 DEF Step
<1>5. QED
  BY <1>1, <1>2, <1>3, <1>4 DEF Next

(* In every reachable state the sequence numbers and the tickets of        *)
(* try_enqueue and try_dequeue agree: an accepted ticket's cell holds its  *)
(* value or is being filled by its only producer, a free ticket's cell is  *)
(* empty or being emptied by its only consumer, and never more than        *)
(* capacity_ tickets are accepted and not taken.                           *)
THEOREM Invariant == Spec => []Inv
<1>1. Init => TypeOK
  BY CapacityAssumption DEF Init, TypeOK, Slots
<1>2. Init /\ [][Next]_vars => []TypeOK
  BY <1>1, TypeStep, PTL
<1>3. QED
  BY <1>2, InvInit, InvStep, PTL DEF Spec

(* Two threads in one cell would hold the same position. *)
LEMMA InvExclusive == TypeOK /\ Inv => ExclusiveCells
<1> SUFFICES ASSUME TypeOK, Inv, NEW t \in Threads, NEW u \in Threads,
                    Holds(t), Holds(u), Slot(pos[t]) = Slot(pos[u])
             PROVE  t = u
  BY DEF ExclusiveCells
<1>1. CASE Reading(t) \/ Reading(u)
  BY <1>1, ReaderCell DEF Holds
<1>2. CASE Writing(t) /\ Writing(u)
  <2>1. pos[t] = pos[u]
    BY <1>2 DEF Inv, WriterState
  <2>2. QED
    BY <1>2, <2>1 DEF Inv, OneHolder
<1>3. QED
  BY <1>1, <1>2 DEF Holds

(* The plain reads and writes of cell->data in try_enqueue and try_dequeue *)
(* are free of data races: between the compare-exchange and the store of   *)
(* the sequence a thread has its cell to itself, for any number of threads *)
(* and any capacity.                                                       *)
THEOREM Exclusion == Spec => []ExclusiveCells
<1>1. Spec => []TypeOK
  BY TypeCorrect
<1>2. Spec => []Inv
  BY Invariant
<1>3. QED
  BY <1>1, <1>2, InvExclusive, PTL
-----------------------------------------------------------------------------
(* The ring implements FifoQueue.                                          *)

(* The arguments and results of calls: a thread that is not in try_enqueue *)
(* and has taken nothing holds no value.                                   *)
EmptyHands ==
  \A t \in Threads :
    pc[t] \in {"idle", "d_load", "d_check", "d_cas"} => val[t] = NoValue

(* Every return of try_enqueue and try_dequeue leaves the caller's hands   *)
(* empty.                                                                  *)
LEMMA HandsStep == TypeOK /\ EmptyHands /\ [Next]_vars => EmptyHands'
<1> SUFFICES ASSUME TypeOK, EmptyHands, [Next]_vars PROVE EmptyHands'
  OBVIOUS
<1> USE DEF TypeOK, EmptyHands, Goto, Return
<1>1. CASE UNCHANGED vars
  BY <1>1 DEF vars
<1>2. ASSUME NEW t \in Threads, NEW v \in Values, EnqueueCall(t, v)
      PROVE  EmptyHands'
  BY <1>2 DEF EnqueueCall
<1>3. ASSUME NEW t \in Threads, DequeueCall(t) PROVE EmptyHands'
  BY <1>3 DEF DequeueCall
<1>4. ASSUME NEW t \in Threads, Step(t) PROVE EmptyHands'
  BY <1>4 DEF Step, EnqueueLoad, EnqueueTurn, EnqueueFull, EnqueueBehind,
     EnqueueCasOk, EnqueueCasFail, EnqueueWrite, EnqueuePublish, DequeueLoad,
     DequeueTurn, DequeueEmpty, DequeueBehind, DequeueCasOk, DequeueCasFail,
     DequeueRead, DequeueRelease
<1>5. QED
  BY <1>1, <1>2, <1>3, <1>4 DEF Next

(* What the queue of FifoQueue sees of a thread at each step of its call.  *)
CallIs ==
  \A t \in Threads :
    /\ pc[t] = "idle" => callBar[t] = "idle"
    /\ pc[t] \in {"e_load", "e_check", "e_cas"} => callBar[t] = "enq"
    /\ Writing(t) => callBar[t] = "committing"
    /\ pc[t] \in {"d_load", "d_check", "d_cas"} => callBar[t] = "deq"
    /\ Reading(t) => callBar[t] = "releasing"

(* Every thread is in one phase of a call. *)
EachInPhase == callBar = [u \in Threads |-> callBar[u]]

(* callBar gives each thread one phase, and nothing else. *)
LEMMA PhasesFunction == EachInPhase
<1> DEFINE F(u) == CASE pc[u] = "idle" -> "idle"
                     [] pc[u] \in {"e_load", "e_check", "e_cas"} -> "enq"
                     [] Writing(u) -> "committing"
                     [] pc[u] \in {"d_load", "d_check", "d_cas"} -> "deq"
                     [] Reading(u) -> "releasing"
<1>1. callBar = [u \in Threads |-> F(u)]
  BY DEF callBar
<1> HIDE DEF F
<1>2. QED
  BY <1>1 DEF EachInPhase

(* The steps of a call fall into the five phases of FifoQueue. *)
LEMMA Classify == TypeOK => CallIs
<1> SUFFICES ASSUME TypeOK, NEW t \in Threads
             PROVE
    /\ pc[t] = "idle" => callBar[t] = "idle"
    /\ pc[t] \in {"e_load", "e_check", "e_cas"} => callBar[t] = "enq"
    /\ Writing(t) => callBar[t] = "committing"
    /\ pc[t] \in {"d_load", "d_check", "d_cas"} => callBar[t] = "deq"
    /\ Reading(t) => callBar[t] = "releasing"
  BY DEF CallIs
<1>1. callBar[t] =
        CASE pc[t] = "idle" -> "idle"
          [] pc[t] \in {"e_load", "e_check", "e_cas"} -> "enq"
          [] pc[t] \in {"e_write", "e_publish"} -> "committing"
          [] pc[t] \in {"d_load", "d_check", "d_cas"} -> "deq"
          [] pc[t] \in {"d_read", "d_release"} -> "releasing"
  BY DEF callBar, Writing, Reading
<1>2. CASE pc[t] = "idle"
  BY <1>1, <1>2 DEF Writing, Reading
<1>3. CASE pc[t] \in {"e_load", "e_check", "e_cas"}
  BY <1>1, <1>3 DEF Writing, Reading
<1>4. CASE pc[t] \in {"e_write", "e_publish"}
  BY <1>1, <1>4 DEF Writing, Reading
<1>5. CASE pc[t] \in {"d_load", "d_check", "d_cas"}
  BY <1>1, <1>5 DEF Writing, Reading
<1>6. CASE pc[t] \in {"d_read", "d_release"}
  BY <1>1, <1>6 DEF Writing, Reading
<1>7. QED
  BY <1>2, <1>3, <1>4, <1>5, <1>6
     DEF TypeOK, EnqueueSteps, DequeueSteps

(* Who writes an accepted ticket, and with which value. *)
WriterIs ==
  \A n \in Nat :
    /\ \A t \in Threads :
         Writes(t, n) => WriterOf(n) = t /\ ValueOf(n) = val[t]
    /\ (\A t \in Threads : ~Writes(t, n)) =>
         WriterOf(n) = NoThread /\ ValueOf(n) = data[Slot(n)]

(* A ticket has at most one producer, so that WriterOf names it. *)
LEMMA WriterUnique == OneHolder => WriterIs
<1> SUFFICES ASSUME OneHolder, NEW n \in Nat
             PROVE
    /\ \A t \in Threads :
         Writes(t, n) => WriterOf(n) = t /\ ValueOf(n) = val[t]
    /\ (\A t \in Threads : ~Writes(t, n)) =>
         WriterOf(n) = NoThread /\ ValueOf(n) = data[Slot(n)]
  BY DEF WriterIs
<1>1. ASSUME NEW t \in Threads, Writes(t, n)
      PROVE  WriterOf(n) = t /\ ValueOf(n) = val[t]
  <2>1. PICK u \in Threads : u = (CHOOSE x \in Threads : Writes(x, n)) /\ Writes(u, n)
    BY <1>1
  <2>2. u = t
    BY <1>1, <2>1 DEF OneHolder, Writes
  <2>3. WriterOf(n) = t
    BY <1>1, <2>1, <2>2 DEF WriterOf
  <2>4. QED
    BY <1>1, <2>3 DEF ValueOf
<1>2. ASSUME \A t \in Threads : ~Writes(t, n)
      PROVE  WriterOf(n) = NoThread /\ ValueOf(n) = data[Slot(n)]
  BY <1>2 DEF WriterOf, ValueOf
<1>3. QED
  BY <1>1, <1>2

(* What a step of thread t does not touch stays what FifoQueue sees of the *)
(* other threads.                                                          *)
LEMMA OthersKeep ==
  ASSUME TypeOK, TypeOK', NEW t \in Threads,
         \A u \in Threads \ {t} :
           /\ pc'[u] = pc[u] /\ pos'[u] = pos[u] /\ val'[u] = val[u]
           /\ pc[u] = "d_read" => data'[Slot(pos[u])] = data[Slot(pos[u])]
  PROVE  /\ callBar' = [callBar EXCEPT ![t] = callBar'[t]]
         /\ handBar' = [handBar EXCEPT ![t] = handBar'[t]]
         /\ ticketBar' = [ticketBar EXCEPT ![t] = ticketBar'[t]]
<1>1. CallIs /\ CallIs'
  BY Classify, PTL
<1>2. \A u \in Threads \ {t} : callBar'[u] = callBar[u]
  BY <1>1 DEF CallIs, TypeOK, EnqueueSteps, DequeueSteps, Writing, Reading
<1>3. DOMAIN callBar = Threads /\ DOMAIN callBar' = Threads
  BY DEF callBar
<1>4. callBar' = [callBar EXCEPT ![t] = callBar'[t]]
  <2>1. EachInPhase'
    BY PhasesFunction, PTL
  <2>2. callBar' = [u \in Threads |-> callBar'[u]]
    BY <2>1 DEF EachInPhase
  <2>3. QED
    BY <1>2, <1>3, <2>2
<1>5. handBar' = [handBar EXCEPT ![t] = handBar'[t]]
  BY ZenonT(40) DEF handBar
<1>6. ticketBar' = [ticketBar EXCEPT ![t] = ticketBar'[t]]
  BY DEF ticketBar, Reading
<1>7. QED
  BY <1>4, <1>5, <1>6

(* The queue stays as it is when no position moves and every accepted      *)
(* ticket keeps its value and its writer.                                  *)
LEMMA ItemsKeep ==
  ASSUME TypeOK, UNCHANGED <<enqueue_pos, dequeue_pos>>,
         \A n \in Live :
           WriterOf(n)' = WriterOf(n) /\ ValueOf(n)' = ValueOf(n)
  PROVE  itemsBar' = itemsBar
<1>1. \A k \in 1..(enqueue_pos - dequeue_pos) : dequeue_pos + k - 1 \in Live
  BY DEF Live, TypeOK
<1>2. QED
  BY <1>1 DEF itemsBar

(* A step that stays in one phase of its call, away from the cells, is one *)
(* that FifoQueue does not see; a call and an unsuccessful return leave    *)
(* its items alone.                                                        *)
LEMMA LocalKeep ==
  ASSUME TypeOK, TypeOK', Inv, Inv', NEW t \in Threads,
         UNCHANGED <<enqueue_pos, dequeue_pos, sequence, data>>,
         \A u \in Threads \ {t} :
           pc'[u] = pc[u] /\ pos'[u] = pos[u] /\ val'[u] = val[u],
         ~Holds(t), ~Holds(t)'
  PROVE  /\ itemsBar' = itemsBar
         /\ callBar' = [callBar EXCEPT ![t] = callBar'[t]]
         /\ handBar' = [handBar EXCEPT ![t] = val'[t]]
         /\ ticketBar' = ticketBar
<1>1. WriterIs /\ WriterIs'
  BY WriterUnique, PTL DEF Inv
<1>2. \A n \in Nat : \A u \in Threads : Writes(u, n)' <=> Writes(u, n)
  BY DEF Writes, Writing, Holds
<1>3. \A n \in Nat : WriterOf(n)' = WriterOf(n) /\ ValueOf(n)' = ValueOf(n)
  <2> SUFFICES ASSUME NEW n \in Nat
               PROVE  WriterOf(n)' = WriterOf(n) /\ ValueOf(n)' = ValueOf(n)
    OBVIOUS
  <2>1. CASE \E u \in Threads : Writes(u, n)
    <3>1. PICK u \in Threads : Writes(u, n) /\ Writes(u, n)'
      BY <1>2, <2>1
    <3>2. u # t
      BY <3>1 DEF Holds, Writes
    <3>3. QED
      BY <1>1, <3>1, <3>2 DEF WriterIs
  <2>2. CASE \A u \in Threads : ~Writes(u, n)
    BY <1>1, <1>2, <2>2 DEF WriterIs
  <2>3. QED
    BY <2>1, <2>2
<1>4. itemsBar' = itemsBar
  BY <1>3, ItemsKeep DEF Live, TypeOK
<1>5. /\ callBar' = [callBar EXCEPT ![t] = callBar'[t]]
      /\ handBar' = [handBar EXCEPT ![t] = handBar'[t]]
      /\ ticketBar' = [ticketBar EXCEPT ![t] = ticketBar'[t]]
  BY OthersKeep
<1>6. handBar'[t] = val'[t]
  BY DEF handBar, Holds, Reading
<1>7. ticketBar'[t] = ticketBar[t] /\ DOMAIN ticketBar = Threads
  BY DEF ticketBar, Holds
<1>8. QED
  BY <1>4, <1>5, <1>6, <1>7 DEF ticketBar

(* Entering try_enqueue and try_dequeue, and the loads and comparisons     *)
(* that lead to the compare-exchange.                                      *)
LEMMA CallRefines ==
  ASSUME TypeOK, TypeOK', Inv, Inv', NEW t \in Threads
  PROVE  /\ \A v \in Values : EnqueueCall(t, v) => Fifo!EnqInvoke(t, v)
         /\ DequeueCall(t) => Fifo!DeqInvoke(t)
         /\ \/ EnqueueLoad(t) \/ EnqueueTurn(t) \/ EnqueueBehind(t)
            \/ EnqueueCasFail(t) \/ DequeueLoad(t) \/ DequeueTurn(t)
            \/ DequeueBehind(t) \/ DequeueCasFail(t)
            => UNCHANGED Fifo!queueVars
<1>1. CallIs /\ CallIs'
  BY Classify, PTL
<1>2. /\ DOMAIN callBar = Threads /\ DOMAIN handBar = Threads
      /\ ~Holds(t) => handBar[t] = val[t]
  BY DEF callBar, handBar, Holds, Reading
<1>3. ASSUME NEW v \in Values, EnqueueCall(t, v) PROVE Fifo!EnqInvoke(t, v)
  <2> USE <1>3 DEF EnqueueCall, Goto, TypeOK
  <2>1. ~Holds(t) /\ ~Holds(t)'
    BY DEF Holds, Writing, Reading
  <2>2. callBar[t] = "idle" /\ callBar'[t] = "enq"
    BY <1>1 DEF CallIs
  <2>3. /\ itemsBar' = itemsBar
        /\ callBar' = [callBar EXCEPT ![t] = callBar'[t]]
        /\ handBar' = [handBar EXCEPT ![t] = val'[t]]
        /\ ticketBar' = ticketBar
    BY <2>1, LocalKeep
  <2>4. QED
    BY <2>2, <2>3 DEF Fifo!EnqInvoke
<1>4. ASSUME DequeueCall(t) PROVE Fifo!DeqInvoke(t)
  <2> USE <1>4 DEF DequeueCall, Goto, TypeOK
  <2>1. ~Holds(t) /\ ~Holds(t)'
    BY DEF Holds, Writing, Reading
  <2>2. callBar[t] = "idle" /\ callBar'[t] = "deq"
    BY <1>1 DEF CallIs
  <2>3. /\ itemsBar' = itemsBar
        /\ callBar' = [callBar EXCEPT ![t] = callBar'[t]]
        /\ handBar' = [handBar EXCEPT ![t] = val'[t]]
        /\ ticketBar' = ticketBar
    BY <2>1, LocalKeep
  <2>4. handBar' = handBar
    BY <1>2, <2>1, <2>3 DEF handBar
  <2>5. QED
    BY <2>2, <2>3, <2>4 DEF Fifo!DeqInvoke
<1>5. ASSUME \/ EnqueueLoad(t) \/ EnqueueTurn(t) \/ EnqueueBehind(t)
             \/ EnqueueCasFail(t) \/ DequeueLoad(t) \/ DequeueTurn(t)
             \/ DequeueBehind(t) \/ DequeueCasFail(t)
      PROVE  UNCHANGED Fifo!queueVars
  <2> USE <1>5 DEF EnqueueLoad, EnqueueTurn, EnqueueBehind, EnqueueCasFail,
        DequeueLoad, DequeueTurn, DequeueBehind, DequeueCasFail, Goto, TypeOK
  <2>1. ~Holds(t) /\ ~Holds(t)'
    BY DEF Holds, Writing, Reading
  <2>2. /\ UNCHANGED <<enqueue_pos, dequeue_pos, sequence, data, val>>
        /\ \A u \in Threads \ {t} :
             pc'[u] = pc[u] /\ pos'[u] = pos[u] /\ val'[u] = val[u]
    OBVIOUS
  <2>3. callBar'[t] = callBar[t]
    BY <1>1 DEF CallIs
  <2>4. /\ itemsBar' = itemsBar
        /\ callBar' = [callBar EXCEPT ![t] = callBar'[t]]
        /\ handBar' = [handBar EXCEPT ![t] = val'[t]]
        /\ ticketBar' = ticketBar
    BY <2>1, <2>2, LocalKeep
  <2>5. callBar' = callBar
    BY <2>3, <2>4, PhasesFunction DEF EachInPhase
  <2>6. handBar' = handBar
    BY <1>2, <2>1, <2>2, <2>4 DEF handBar
  <2>7. QED
    BY <2>2, <2>4, <2>5, <2>6 DEF Fifo!queueVars
<1>6. QED
  BY <1>3, <1>4, <1>5

(* The number of items FifoQueue sees is that of accepted tickets not yet  *)
(* taken.                                                                  *)
LEMMA ItemsLength ==
  ASSUME TypeOK, Inv
  PROVE  /\ enqueue_pos - dequeue_pos \in Nat
         /\ Len(itemsBar) = enqueue_pos - dequeue_pos
         /\ DOMAIN itemsBar = 1..(enqueue_pos - dequeue_pos)
<1>1. enqueue_pos - dequeue_pos \in Nat
  BY DEF TypeOK, Inv, TicketWindow
<1>2. QED
  BY <1>1 DEF itemsBar

(* try_enqueue returns false only when the queue is full or the cell it    *)
(* would fill next is still being emptied.                                 *)
LEMMA FullRefines ==
  ASSUME TypeOK, TypeOK', Inv, Inv', NEW t \in Threads, EnqueueFull(t)
  PROVE  Fifo!EnqReject(t)
<1>0. /\ enqueue_pos - dequeue_pos \in Nat
      /\ Len(itemsBar) = enqueue_pos - dequeue_pos
      /\ DOMAIN itemsBar = 1..(enqueue_pos - dequeue_pos)
  BY ItemsLength
<1>1. CallIs /\ CallIs'
  BY Classify, PTL
<1> USE CapacityAssumption, SlotType DEF TypeOK
<1>2. /\ pc[t] = "e_check" /\ sequence[Slot(pos[t])] < pos[t]
      /\ pc' = [pc EXCEPT ![t] = "idle"]
      /\ pos' = [pos EXCEPT ![t] = 0]
      /\ val' = [val EXCEPT ![t] = NoValue]
      /\ UNCHANGED <<enqueue_pos, dequeue_pos, sequence, data>>
  BY DEF EnqueueFull, Goto, Return
<1>3. ~Holds(t) /\ ~Holds(t)'
  BY <1>2 DEF Holds, Writing, Reading
<1>4. callBar[t] = "enq" /\ callBar'[t] = "idle"
  BY <1>1, <1>2 DEF CallIs
<1>5. /\ itemsBar' = itemsBar
      /\ callBar' = [callBar EXCEPT ![t] = callBar'[t]]
      /\ handBar' = [handBar EXCEPT ![t] = val'[t]]
      /\ ticketBar' = ticketBar
  BY <1>2, <1>3, LocalKeep
<1>6. pos[t] = enqueue_pos
  <2>1. pos[t] <= enqueue_pos
    BY <1>2 DEF Inv, StaleTickets
  <2>2. ~(pos[t] \in 0..(enqueue_pos - 1))
    BY <1>2 DEF Inv, PastTickets
  <2>3. pos[t] \in Nat /\ enqueue_pos \in Nat
    OBVIOUS
  <2>4. QED
    BY <2>1, <2>2, <2>3
<1>7. Fifo!NextCellBusy
  <2>1. CASE enqueue_pos = dequeue_pos + Capacity
    BY <2>1, <1>0 DEF Fifo!NextCellBusy
  <2>2. CASE enqueue_pos # dequeue_pos + Capacity
    <3>1. enqueue_pos \in Free
      BY <2>2 DEF Free, Inv, TicketWindow
    <3>2. PICK u \in Threads : Reads(u, enqueue_pos - Capacity)
      BY <1>2, <1>6, <3>1 DEF Inv, FreeCells
    <3>3. callBar[u] = "releasing" /\ ticketBar[u] = enqueue_pos - Capacity
      BY <1>1, <3>2 DEF CallIs, ticketBar, Reads
    <3>4. ticketBar[u] + Capacity = dequeue_pos + Len(itemsBar)
      BY <1>0, <3>3
    <3>5. QED
      BY <3>3, <3>4 DEF Fifo!NextCellBusy
  <2>3. QED
    BY <2>1, <2>2
<1>8. QED
  BY <1>2, <1>4, <1>5, <1>7 DEF Fifo!EnqReject

(* try_dequeue returns false only when the queue is empty or its oldest    *)
(* item is still being written.                                            *)
LEMMA EmptyRefines ==
  ASSUME TypeOK, TypeOK', Inv, Inv', EmptyHands, NEW t \in Threads,
         DequeueEmpty(t)
  PROVE  Fifo!DeqReject(t)
<1>0. /\ enqueue_pos - dequeue_pos \in Nat
      /\ Len(itemsBar) = enqueue_pos - dequeue_pos
      /\ DOMAIN itemsBar = 1..(enqueue_pos - dequeue_pos)
  BY ItemsLength
<1>1. CallIs /\ CallIs'
  BY Classify, PTL
<1> USE CapacityAssumption, SlotType DEF TypeOK
<1>2. /\ pc[t] = "d_check" /\ sequence[Slot(pos[t])] < pos[t] + 1
      /\ pc' = [pc EXCEPT ![t] = "idle"]
      /\ pos' = [pos EXCEPT ![t] = 0]
      /\ val' = [val EXCEPT ![t] = NoValue]
      /\ UNCHANGED <<enqueue_pos, dequeue_pos, sequence, data>>
  BY DEF DequeueEmpty, Goto, Return
<1>3. ~Holds(t) /\ ~Holds(t)' /\ handBar[t] = NoValue
  BY <1>2 DEF Holds, Writing, Reading, EmptyHands, handBar
<1>4. callBar[t] = "deq" /\ callBar'[t] = "idle"
  BY <1>1, <1>2 DEF CallIs
<1>5. /\ itemsBar' = itemsBar
      /\ callBar' = [callBar EXCEPT ![t] = callBar'[t]]
      /\ handBar' = [handBar EXCEPT ![t] = val'[t]]
      /\ ticketBar' = ticketBar
  BY <1>2, <1>3, LocalKeep
<1>6. handBar' = handBar
  BY <1>2, <1>3, <1>5 DEF handBar
<1>7. pos[t] = dequeue_pos
  <2>1. pos[t] <= dequeue_pos
    BY <1>2 DEF Inv, StaleTickets
  <2>2. ~(pos[t] \in 0..(dequeue_pos - 1))
    BY <1>2 DEF Inv, PastTickets
  <2>3. pos[t] \in Nat /\ dequeue_pos \in Nat
    OBVIOUS
  <2>4. QED
    BY <2>1, <2>2, <2>3
<1>8. ~Fifo!HeadReady
  <2> SUFFICES ASSUME itemsBar # <<>> PROVE Head(itemsBar).writer # NoThread
    BY DEF Fifo!HeadReady
  <2>1. dequeue_pos < enqueue_pos
    <3> SUFFICES ASSUME enqueue_pos = dequeue_pos PROVE itemsBar = <<>>
      BY DEF Inv, TicketWindow
    <3>1. QED
      BY DEF itemsBar
  <2>2. PICK u \in Threads : Writes(u, dequeue_pos)
    BY <1>2, <1>7, <2>1 DEF Inv, LiveCells, Live
  <2>3. WriterOf(dequeue_pos) = u
    BY <2>2, WriterUnique DEF WriterIs, Inv
  <2>4. Head(itemsBar).writer = WriterOf(dequeue_pos)
    <3>1. Head(itemsBar) = itemsBar[1]
      BY <1>0, <2>1 DEF itemsBar
    <3>2. dequeue_pos + 1 - 1 = dequeue_pos
      OBVIOUS
    <3>3. QED
      BY <2>1, <3>1, <3>2 DEF itemsBar
  <2>5. QED
    BY <2>3, <2>4, NoThreadAssumption
<1>9. QED
  BY <1>2, <1>4, <1>5, <1>6, <1>8 DEF Fifo!DeqReject

(* What FifoQueue sees in an accepted ticket's cell. *)
Item(n) == [val |-> ValueOf(n), writer |-> WriterOf(n)]

(* Every accepted ticket stands for an item: a value, and the thread that  *)
(* is writing it, or nobody.                                               *)
LEMMA ItemsType ==
  ASSUME TypeOK, Inv
  PROVE  /\ itemsBar \in Seq(Fifo!Items)
         /\ Len(itemsBar) = enqueue_pos - dequeue_pos
         /\ \A k \in 1..Len(itemsBar) : itemsBar[k] = Item(dequeue_pos + k - 1)
         /\ \A n \in Live : Item(n) \in Fifo!Items
<1>0. /\ enqueue_pos - dequeue_pos \in Nat /\ dequeue_pos \in Nat
      /\ Len(itemsBar) = enqueue_pos - dequeue_pos
      /\ DOMAIN itemsBar = 1..(enqueue_pos - dequeue_pos)
  BY ItemsLength DEF TypeOK
<1>1. WriterIs
  BY WriterUnique DEF Inv
<1>2. ASSUME NEW n \in Live PROVE Item(n) \in Fifo!Items
  <2>1. n \in Nat
    BY DEF Live, TypeOK
  <2>2. CASE \E u \in Threads : Writes(u, n)
    <3>1. PICK u \in Threads : Writes(u, n)
      BY <2>2
    <3>2. val[u] \in Values
      BY <3>1 DEF Inv, EnqueueArgument, EnqueueSteps, Writes, Writing
    <3>3. WriterOf(n) = u /\ ValueOf(n) = val[u]
      BY <1>1, <2>1, <3>1 DEF WriterIs
    <3>4. QED
      BY <3>2, <3>3 DEF Item, Fifo!Items
  <2>3. CASE \A u \in Threads : ~Writes(u, n)
    <3>1. data[Slot(n)] \in Values
      BY <2>3 DEF Inv, LiveCells
    <3>2. WriterOf(n) = NoThread /\ ValueOf(n) = data[Slot(n)]
      BY <1>1, <2>1, <2>3 DEF WriterIs
    <3>3. QED
      BY <3>1, <3>2 DEF Item, Fifo!Items
  <2>4. QED
    BY <2>2, <2>3
<1>3. itemsBar = [k \in 1..(enqueue_pos - dequeue_pos) |-> Item(dequeue_pos + k - 1)]
  BY DEF itemsBar, Item
<1>4. \A k \in 1..(enqueue_pos - dequeue_pos) : Item(dequeue_pos + k - 1) \in Fifo!Items
  <2> SUFFICES ASSUME NEW k \in 1..(enqueue_pos - dequeue_pos)
               PROVE  Item(dequeue_pos + k - 1) \in Fifo!Items
    OBVIOUS
  <2>1. dequeue_pos + k - 1 \in Live
    BY <1>0 DEF Live, TypeOK
  <2>2. QED
    BY <1>2, <2>1
<1>5. itemsBar \in Seq(Fifo!Items)
  <2> HIDE DEF Item
  <2>1. itemsBar \in [1..(enqueue_pos - dequeue_pos) -> Fifo!Items]
    BY <1>3, <1>4
  <2>2. QED
    BY <1>0, <2>1
<1>6. QED
  BY <1>0, <1>2, <1>3, <1>5

(* The lemma above, as a fact about states. *)
ItemsAre ==
  /\ itemsBar \in Seq(Fifo!Items)
  /\ Len(itemsBar) = enqueue_pos - dequeue_pos
  /\ \A k \in 1..Len(itemsBar) : itemsBar[k] = Item(dequeue_pos + k - 1)
  /\ \A n \in Live : Item(n) \in Fifo!Items

(* Both of them hold whenever the invariant does. *)
LEMMA ItemsHold == TypeOK /\ Inv => ItemsAre /\ WriterIs
  BY ItemsType, WriterUnique DEF ItemsAre, Inv

(* The items of a state and of the next one. *)
LEMMA ItemsBoth ==
  ASSUME TypeOK, TypeOK', Inv, Inv'
  PROVE  ItemsAre /\ ItemsAre' /\ WriterIs /\ WriterIs'
  BY ItemsHold, PTL

(* A sequence that extends another by one element. *)
LEMMA AppendIs ==
  ASSUME NEW S, NEW s \in Seq(S), NEW e \in S, NEW r \in Seq(S),
         Len(r) = Len(s) + 1,
         \A i \in 1..Len(s) : r[i] = s[i],
         r[Len(s) + 1] = e
  PROVE  r = Append(s, e)
<1>1. /\ Append(s, e) \in Seq(S) /\ Len(Append(s, e)) = Len(s) + 1
      /\ \A i \in 1..Len(s) : Append(s, e)[i] = s[i]
      /\ Append(s, e)[Len(s) + 1] = e
  BY AppendProperties
<1>2. Len(s) \in Nat
  OBVIOUS
<1>3. \A i \in 1..Len(r) : i \in 1..Len(s) \/ i = Len(s) + 1
  BY <1>2
<1>4. \A i \in 1..Len(r) : r[i] = Append(s, e)[i]
  BY <1>1, <1>3
<1>5. QED
  BY <1>1, <1>4, SeqEqual

(* A sequence that lacks another's first element. *)
LEMMA TailIs ==
  ASSUME NEW S, NEW s \in Seq(S), s # <<>>, NEW r \in Seq(S),
         Len(r) = Len(s) - 1,
         \A i \in 1..Len(r) : r[i] = s[i + 1]
  PROVE  r = Tail(s)
<1>1. /\ Tail(s) \in Seq(S) /\ Len(Tail(s)) = Len(s) - 1
      /\ \A i \in 1..Len(Tail(s)) : Tail(s)[i] = s[i + 1]
  BY HeadTailProperties
<1>2. QED
  BY <1>1, SeqEqual

(* try_enqueue's compare-exchange puts the value at the end of the queue.  *)
LEMMA AcceptRefines ==
  ASSUME TypeOK, TypeOK', Inv, Inv', NEW t \in Threads, EnqueueCasOk(t)
  PROVE  Fifo!EnqAccept(t)
<1>0. ItemsAre /\ ItemsAre' /\ WriterIs /\ WriterIs'
  BY ItemsBoth
<1>1. CallIs /\ CallIs'
  BY Classify, PTL
<1>2. PICK p \in Nat, d \in Nat : p = enqueue_pos /\ d = dequeue_pos
  BY DEF TypeOK
<1>3. /\ pc[t] = "e_cas" /\ pos[t] = p /\ enqueue_pos' = p + 1 /\ dequeue_pos' = d
      /\ pc' = [pc EXCEPT ![t] = "e_write"]
      /\ UNCHANGED <<sequence, data, pos, val>>
  BY <1>2 DEF EnqueueCasOk, Goto
<1>4. /\ p - d \in Nat /\ p < d + Capacity /\ d <= p
      /\ Len(itemsBar) = p - d
      /\ Len(itemsBar') = p + 1 - d
  BY <1>0, <1>2, <1>3, CapacityAssumption DEF Inv, TicketWindow, TypeOK, ItemsAre
<1>5. sequence[Slot(p)] = p
  BY <1>2, <1>3, <1>4, CapacityAssumption, SlotType
     DEF TypeOK, Inv, FreeCells, Free, StaleTickets
<1>6. ~Fifo!NextCellBusy
  <2>1. Len(itemsBar) # Capacity /\ dequeue_pos + Len(itemsBar) = p
    BY <1>2, <1>4, CapacityAssumption
  <2>2. ASSUME NEW u \in Threads, callBar[u] = "releasing",
               ticketBar[u] + Capacity = p
        PROVE  FALSE
    <3>1. Reading(u)
      BY <1>1, <2>2 DEF CallIs, TypeOK, EnqueueSteps, DequeueSteps, Writing, Reading
    <3>2. ticketBar[u] = pos[u] /\ pos[u] \in Nat
      BY <3>1 DEF ticketBar, TypeOK
    <3>3. sequence[Slot(pos[u])] = pos[u] + 1 /\ Slot(p) = Slot(pos[u])
      BY <2>2, <3>1, <3>2, SlotWrap DEF Inv, ReaderState
    <3>4. QED
      BY <1>5, <2>2, <3>2, <3>3, CapacityAssumption
  <2>3. QED
    BY <2>1, <2>2 DEF Fifo!NextCellBusy
<1>7. callBar[t] = "enq" /\ callBar'[t] = "committing"
  BY <1>1, <1>3 DEF CallIs, Writing, TypeOK
<1>8. callBar' = [callBar EXCEPT ![t] = callBar'[t]]
  BY <1>3, OthersKeep DEF TypeOK
<1>9. handBar' = handBar /\ ticketBar' = ticketBar /\ handBar[t] = val[t]
  BY <1>3 DEF handBar, ticketBar, Reading, TypeOK
<1>10. Item(p)' = [val |-> handBar[t], writer |-> t]
  <2>1. Writes(t, p)'
    BY <1>3 DEF Writes, Writing, TypeOK
  <2>2. QED
    BY <1>0, <1>3, <1>9, <2>1 DEF WriterIs, Item
<1>11. \A n \in Live : n \in Nat /\ Item(n)' = Item(n)
  <2> SUFFICES ASSUME NEW n \in Live PROVE n \in Nat /\ Item(n)' = Item(n)
    OBVIOUS
  <2>1. n \in Nat /\ n # p
    BY <1>2 DEF Live
  <2>2. \A u \in Threads : Writes(u, n)' <=> Writes(u, n)
    BY <1>3, <2>1 DEF Writes, Writing, TypeOK
  <2>3. WriterOf(n)' = WriterOf(n) /\ ValueOf(n)' = ValueOf(n)
    BY <1>0, <1>3, <2>1, <2>2 DEF WriterIs
  <2>4. QED
    BY <2>1, <2>3 DEF Item
<1>12. itemsBar' = Append(itemsBar, [val |-> handBar[t], writer |-> t])
  <2>1. [val |-> handBar[t], writer |-> t] \in Fifo!Items
    BY <1>3, <1>9 DEF Fifo!Items, Inv, EnqueueArgument, EnqueueSteps
  <2>2. itemsBar \in Seq(Fifo!Items) /\ itemsBar' \in Seq(Fifo!Items)
    BY <1>0 DEF ItemsAre, Fifo!Items
  <2>3. \A k \in 1..Len(itemsBar') : itemsBar'[k] = Item(d + k - 1)'
    BY <1>0, <1>3 DEF ItemsAre
  <2>4. \A k \in 1..Len(itemsBar) : itemsBar[k] = Item(d + k - 1)
    BY <1>0, <1>2 DEF ItemsAre
  <2>5. itemsBar'[Len(itemsBar) + 1] = [val |-> handBar[t], writer |-> t]
    <3>1. /\ Len(itemsBar) + 1 \in 1..Len(itemsBar')
          /\ d + (Len(itemsBar) + 1) - 1 = p
      BY <1>4
    <3>2. QED
      BY <1>10, <2>3, <3>1
  <2>6. ASSUME NEW k \in 1..Len(itemsBar) PROVE itemsBar'[k] = itemsBar[k]
    <3>1. k \in 1..Len(itemsBar') /\ d + k - 1 \in Live
      BY <1>2, <1>4 DEF Live
    <3>2. QED
      BY <1>11, <2>3, <2>4, <3>1
  <2>7. Len(itemsBar') = Len(itemsBar) + 1
    BY <1>4
  <2>8. QED
    BY <2>1, <2>2, <2>5, <2>6, <2>7, AppendIs
<1>13. QED
  BY <1>2, <1>3, <1>6, <1>7, <1>8, <1>9, <1>12 DEF Fifo!EnqAccept

(* Writing cell->data is a step of its producer only: to everybody else    *)
(* the value has been in the queue since the compare-exchange.             *)
LEMMA WriteRefines ==
  ASSUME TypeOK, TypeOK', Inv, Inv', NEW t \in Threads, EnqueueWrite(t)
  PROVE  UNCHANGED Fifo!queueVars
<1>0. WriterIs /\ WriterIs'
  BY ItemsBoth
<1>1. CallIs /\ CallIs'
  BY Classify, PTL
<1>2. PICK p \in Nat : p = pos[t]
  BY DEF TypeOK
<1>3. /\ pc[t] = "e_write"
      /\ pc' = [pc EXCEPT ![t] = "e_publish"]
      /\ data' = [data EXCEPT ![Slot(p)] = val[t]]
      /\ UNCHANGED <<enqueue_pos, dequeue_pos, sequence, pos, val>>
  BY <1>2 DEF EnqueueWrite, Goto
<1>4. Writing(t) /\ Writing(t)' /\ ~Reading(t) /\ p \in Live
  BY <1>2, <1>3 DEF Writing, Reading, Inv, WriterState, TypeOK
<1>5. \A u \in Threads : Reading(u) => Slot(pos[u]) # Slot(p)
  BY <1>2, <1>4, ReaderCell
<1>6. \A n \in Live : n \in Nat /\ (Slot(n) = Slot(p) => n = p)
  <2> SUFFICES ASSUME NEW n \in Live
               PROVE  n \in Nat /\ (Slot(n) = Slot(p) => n = p)
    OBVIOUS
  <2>1. n \in Nat /\ 0 - Capacity < p - n /\ p - n < Capacity
    BY <1>4, CapacityAssumption DEF Live, Inv, TicketWindow, TypeOK
  <2>2. QED
    BY <2>1, SameSlot
<1>7. itemsBar' = itemsBar
  <2>1. ASSUME NEW n \in Live
        PROVE  WriterOf(n)' = WriterOf(n) /\ ValueOf(n)' = ValueOf(n)
    <3>1. n \in Nat /\ (n # p => Slot(n) # Slot(p))
      BY <1>6
    <3>2. \A u \in Threads : Writes(u, n)' <=> Writes(u, n)
      BY <1>3 DEF Writes, Writing, TypeOK
    <3>3. CASE \E u \in Threads : Writes(u, n)
      BY <1>0, <1>3, <3>1, <3>2, <3>3 DEF WriterIs
    <3>4. CASE \A u \in Threads : ~Writes(u, n)
      <4>1. n # p
        BY <1>2, <1>4, <3>4 DEF Writes
      <4>2. data'[Slot(n)] = data[Slot(n)]
        BY <1>3, <3>1, <4>1, SlotType DEF TypeOK
      <4>3. QED
        BY <1>0, <3>1, <3>2, <3>4, <4>2 DEF WriterIs
    <3>5. QED
      BY <3>3, <3>4
  <2>2. QED
    BY <1>3, <2>1, ItemsKeep
<1>8. \A u \in Threads \ {t} :
        /\ pc'[u] = pc[u] /\ pos'[u] = pos[u] /\ val'[u] = val[u]
        /\ pc[u] = "d_read" => data'[Slot(pos[u])] = data[Slot(pos[u])]
  BY <1>3, <1>5, SlotType DEF TypeOK, Reading
<1>9. /\ callBar' = [callBar EXCEPT ![t] = callBar'[t]]
      /\ handBar' = [handBar EXCEPT ![t] = handBar'[t]]
      /\ ticketBar' = [ticketBar EXCEPT ![t] = ticketBar'[t]]
  BY <1>8, OthersKeep
<1>10. callBar'[t] = callBar[t]
  BY <1>1, <1>4 DEF CallIs
<1>11. callBar' = callBar
  BY <1>9, <1>10, PhasesFunction DEF EachInPhase
<1>12. handBar'[t] = handBar[t] /\ ticketBar'[t] = ticketBar[t]
  BY <1>3, <1>4 DEF handBar, ticketBar, Reading, TypeOK
<1>13. handBar' = handBar /\ ticketBar' = ticketBar
  <2>1. /\ handBar = [u \in Threads |-> handBar[u]]
        /\ ticketBar = [u \in Threads |-> ticketBar[u]]
    BY DEF handBar, ticketBar
  <2>2. QED
    BY <1>9, <1>12, <2>1
<1>14. QED
  BY <1>3, <1>7, <1>11, <1>13 DEF Fifo!queueVars

(* The store of the sequence that ends try_enqueue completes the item.     *)
LEMMA CommitRefines ==
  ASSUME TypeOK, TypeOK', Inv, Inv', NEW t \in Threads, EnqueuePublish(t)
  PROVE  Fifo!EnqCommit(t)
<1>0. ItemsAre /\ ItemsAre' /\ WriterIs /\ WriterIs'
  BY ItemsBoth
<1>1. CallIs /\ CallIs'
  BY Classify, PTL
<1>2. PICK p \in Nat, d \in Nat : p = pos[t] /\ d = dequeue_pos
  BY DEF TypeOK
<1>3. /\ pc[t] = "e_publish"
      /\ pc' = [pc EXCEPT ![t] = "idle"]
      /\ pos' = [pos EXCEPT ![t] = 0]
      /\ val' = [val EXCEPT ![t] = NoValue]
      /\ dequeue_pos' = d
      /\ UNCHANGED <<enqueue_pos, data>>
  BY <1>2 DEF EnqueuePublish, Goto, Return
<1>4. /\ Writing(t) /\ ~Writing(t)' /\ ~Reading(t) /\ ~Reading(t)'
      /\ Writes(t, p) /\ data[Slot(p)] = val[t]
  BY <1>2, <1>3 DEF Writing, Reading, Writes, Inv, WriterState, TypeOK
<1>5. callBar[t] = "committing" /\ callBar'[t] = "idle"
  BY <1>1, <1>3, <1>4 DEF CallIs, TypeOK
<1>6. /\ callBar' = [callBar EXCEPT ![t] = callBar'[t]]
      /\ handBar' = [handBar EXCEPT ![t] = handBar'[t]]
      /\ ticketBar' = [ticketBar EXCEPT ![t] = ticketBar'[t]]
  BY <1>3, OthersKeep DEF TypeOK
<1>7. handBar'[t] = NoValue
  BY <1>3 DEF handBar, TypeOK
<1>8. ticketBar' = ticketBar
  <2>1. ticketBar'[t] = ticketBar[t]
    BY <1>4 DEF ticketBar
  <2>2. ticketBar = [u \in Threads |-> ticketBar[u]]
    BY DEF ticketBar
  <2>3. QED
    BY <1>6, <2>1, <2>2
<1>9. ASSUME NEW n \in Live
      PROVE  Item(n)' = IF Item(n).writer = t
                        THEN [val |-> Item(n).val, writer |-> NoThread]
                        ELSE Item(n)
  <2>1. n \in Nat
    BY DEF Live, TypeOK
  <2>2. CASE n = p
    <3>1. \A u \in Threads : ~Writes(u, n)'
      <4> SUFFICES ASSUME NEW u \in Threads, Writes(u, n)' PROVE FALSE
        OBVIOUS
      <4>1. u # t
        BY <1>4 DEF Writes
      <4>2. Writes(u, n)
        BY <1>3, <4>1 DEF Writes, Writing, TypeOK
      <4>3. QED
        BY <1>4, <2>2, <4>1, <4>2 DEF Inv, OneHolder, Writes
    <3>2. WriterOf(n) = t /\ ValueOf(n) = val[t]
      BY <1>0, <1>4, <2>1, <2>2 DEF WriterIs
    <3>3. WriterOf(n)' = NoThread /\ ValueOf(n)' = data[Slot(n)]
      BY <1>0, <1>3, <2>1, <3>1 DEF WriterIs
    <3>4. QED
      BY <1>4, <2>2, <3>2, <3>3 DEF Item
  <2>3. CASE n # p
    <3>1. \A u \in Threads : Writes(u, n)' <=> Writes(u, n) /\ u # t
      BY <1>2, <1>3, <1>4, <2>3 DEF Writes, Writing, TypeOK
    <3>2. ~Writes(t, n)
      BY <1>2, <2>3 DEF Writes
    <3>3. /\ WriterOf(n)' = WriterOf(n) /\ ValueOf(n)' = ValueOf(n)
          /\ WriterOf(n) # t
      <4>1. CASE \E u \in Threads : Writes(u, n)
        <5>1. PICK u \in Threads : Writes(u, n) /\ Writes(u, n)' /\ u # t
          BY <3>1, <3>2, <4>1
        <5>2. val'[u] = val[u]
          BY <1>3, <5>1 DEF TypeOK
        <5>3. QED
          BY <1>0, <2>1, <5>1, <5>2 DEF WriterIs
      <4>2. CASE \A u \in Threads : ~Writes(u, n)
        BY <1>0, <1>3, <2>1, <3>1, <4>2, NoThreadAssumption DEF WriterIs
      <4>3. QED
        BY <4>1, <4>2
    <3>4. QED
      BY <3>3 DEF Item
  <2>4. QED
    BY <2>2, <2>3
<1>10. itemsBar' = [k \in 1..Len(itemsBar) |->
                      IF itemsBar[k].writer = t
                      THEN [val |-> itemsBar[k].val, writer |-> NoThread]
                      ELSE itemsBar[k]]
  <2>1. Len(itemsBar') = Len(itemsBar) /\ Len(itemsBar) = enqueue_pos - d
    BY <1>0, <1>2, <1>3 DEF ItemsAre
  <2>2. \A k \in 1..Len(itemsBar) :
          itemsBar[k] = Item(d + k - 1) /\ itemsBar'[k] = Item(d + k - 1)'
    BY <1>0, <1>2, <1>3, <2>1 DEF ItemsAre
  <2>3. \A k \in 1..Len(itemsBar) : d + k - 1 \in Live
    BY <1>2, <2>1 DEF Live, TypeOK
  <2>4. \A k \in 1..Len(itemsBar) :
          itemsBar'[k] = IF itemsBar[k].writer = t
                         THEN [val |-> itemsBar[k].val, writer |-> NoThread]
                         ELSE itemsBar[k]
    BY <1>9, <2>2, <2>3
  <2>5. itemsBar' = [k \in 1..Len(itemsBar) |-> itemsBar'[k]]
    <3>1. itemsBar' \in Seq(Fifo!Items)
      BY <1>0 DEF ItemsAre, Fifo!Items
    <3>2. QED
      BY <2>1, <3>1
  <2>6. QED
    BY <2>4, <2>5
<1>11. QED
  BY <1>2, <1>3, <1>5, <1>6, <1>7, <1>8, <1>10 DEF Fifo!EnqCommit

(* try_dequeue's compare-exchange takes the oldest item, which is complete *)
(* although the check of its sequence lies some steps back.                *)
LEMMA TakeRefines ==
  ASSUME TypeOK, TypeOK', Inv, Inv', NEW t \in Threads, DequeueCasOk(t)
  PROVE  Fifo!DeqTake(t)
<1>0. ItemsAre /\ ItemsAre' /\ WriterIs /\ WriterIs'
  BY ItemsBoth
<1>1. CallIs /\ CallIs'
  BY Classify, PTL
<1>2. PICK d \in Nat, e \in Nat : d = dequeue_pos /\ e = enqueue_pos
  BY DEF TypeOK
<1>3. /\ pc[t] = "d_cas" /\ pos[t] = d /\ dequeue_pos' = d + 1 /\ enqueue_pos' = e
      /\ pc' = [pc EXCEPT ![t] = "d_read"]
      /\ UNCHANGED <<sequence, data, pos, val>>
  BY <1>2 DEF DequeueCasOk, Goto
<1>4. Reading(t)' /\ ~Writing(t) /\ ~Writing(t)' /\ ~Reading(t)
  BY <1>3 DEF Reading, Writing, TypeOK
<1>5. d < e /\ d \in Live
  BY <1>2, <1>3 DEF Inv, TicketWindow, TypeOK, Live
<1>6. sequence[Slot(d)] = d + 1
  BY <1>3, <1>4 DEF Inv, ReaderState
<1>7. \A u \in Threads : ~Writes(u, d)
  BY <1>6 DEF Inv, WriterState, Writes
<1>8. WriterOf(d) = NoThread /\ ValueOf(d) = data[Slot(d)]
  BY <1>0, <1>7 DEF WriterIs
<1>9. /\ Len(itemsBar) = e - d /\ Len(itemsBar') = e - (d + 1)
      /\ itemsBar \in Seq(Fifo!Items) /\ itemsBar' \in Seq(Fifo!Items)
  BY <1>0, <1>2, <1>3 DEF ItemsAre, Fifo!Items
<1>10. itemsBar # <<>> /\ Head(itemsBar) = Item(d)
  <2>1. itemsBar[1] = Item(d + 1 - 1)
    BY <1>0, <1>2, <1>5, <1>9 DEF ItemsAre
  <2>2. d + 1 - 1 = d
    OBVIOUS
  <2>3. itemsBar # <<>> /\ Head(itemsBar) = itemsBar[1]
    BY <1>5, <1>9
  <2>4. QED
    BY <2>1, <2>2, <2>3
<1>11. Fifo!HeadReady
  BY <1>8, <1>10 DEF Fifo!HeadReady, Item
<1>12. callBar[t] = "deq" /\ callBar'[t] = "releasing"
  BY <1>1, <1>3, <1>4 DEF CallIs
<1>13. handBar'[t] = Head(itemsBar).val /\ ticketBar'[t] = dequeue_pos
  BY <1>2, <1>3, <1>4, <1>8, <1>10 DEF handBar, ticketBar, Item, TypeOK
<1>14. /\ callBar' = [callBar EXCEPT ![t] = callBar'[t]]
       /\ handBar' = [handBar EXCEPT ![t] = handBar'[t]]
       /\ ticketBar' = [ticketBar EXCEPT ![t] = ticketBar'[t]]
  BY <1>3, OthersKeep DEF TypeOK
<1>15. \A n \in Nat : Item(n)' = Item(n)
  <2> SUFFICES ASSUME NEW n \in Nat PROVE Item(n)' = Item(n)
    OBVIOUS
  <2>1. \A u \in Threads : Writes(u, n)' <=> Writes(u, n)
    BY <1>3 DEF Writes, Writing, TypeOK
  <2>2. WriterOf(n)' = WriterOf(n) /\ ValueOf(n)' = ValueOf(n)
    BY <1>0, <1>3, <2>1 DEF WriterIs
  <2>3. QED
    BY <2>2 DEF Item
<1>16. itemsBar' = Tail(itemsBar)
  <2>1. \A k \in 1..Len(itemsBar) : itemsBar[k] = Item(d + k - 1)
    BY <1>0, <1>2 DEF ItemsAre
  <2>2. \A k \in 1..Len(itemsBar') : itemsBar'[k] = Item(d + 1 + k - 1)'
    BY <1>0, <1>3 DEF ItemsAre
  <2>3. ASSUME NEW k \in 1..Len(itemsBar') PROVE itemsBar'[k] = itemsBar[k + 1]
    <3>1. /\ k + 1 \in 1..Len(itemsBar) /\ d + 1 + k - 1 \in Nat
          /\ d + 1 + k - 1 = d + (k + 1) - 1
      BY <1>9
    <3>2. QED
      BY <1>15, <2>1, <2>2, <3>1
  <2>4. Len(itemsBar') = Len(itemsBar) - 1
    BY <1>9
  <2>5. QED
    BY <1>9, <1>10, <2>3, <2>4, TailIs
<1>17. dequeue_pos' = dequeue_pos + 1
  BY <1>2, <1>3
<1>18. QED
  BY <1>11, <1>12, <1>13, <1>14, <1>16, <1>17 DEF Fifo!DeqTake

(* Moving the value out of its cell is a step of its consumer only. *)
LEMMA ReadRefines ==
  ASSUME TypeOK, TypeOK', Inv, Inv', NEW t \in Threads, DequeueRead(t)
  PROVE  UNCHANGED Fifo!queueVars
<1>0. WriterIs /\ WriterIs'
  BY ItemsBoth
<1>1. CallIs /\ CallIs'
  BY Classify, PTL
<1>2. PICK p \in Nat : p = pos[t]
  BY DEF TypeOK
<1>3. /\ pc[t] = "d_read"
      /\ pc' = [pc EXCEPT ![t] = "d_release"]
      /\ val' = [val EXCEPT ![t] = data[Slot(p)]]
      /\ data' = [data EXCEPT ![Slot(p)] = NoValue]
      /\ UNCHANGED <<enqueue_pos, dequeue_pos, sequence, pos>>
  BY <1>2 DEF DequeueRead, Goto
<1>4. Reading(t) /\ Reading(t)' /\ ~Writing(t) /\ ~Writing(t)'
  BY <1>3 DEF Writing, Reading, TypeOK
<1>5. /\ \A n \in Live : n \in Nat /\ Slot(n) # Slot(p)
      /\ \A u \in Threads : Reading(u) /\ Slot(pos[u]) = Slot(p) => u = t
  BY <1>2, <1>4, ReaderCell
<1>6. itemsBar' = itemsBar
  <2>1. ASSUME NEW n \in Live
        PROVE  WriterOf(n)' = WriterOf(n) /\ ValueOf(n)' = ValueOf(n)
    <3>1. n \in Nat /\ data'[Slot(n)] = data[Slot(n)]
      BY <1>3, <1>5, SlotType DEF TypeOK
    <3>2. \A u \in Threads : Writes(u, n)' <=> Writes(u, n)
      BY <1>3 DEF Writes, Writing, TypeOK
    <3>3. CASE \E u \in Threads : Writes(u, n)
      <4>1. PICK u \in Threads : Writes(u, n)
        BY <3>3
      <4>2. u # t /\ val'[u] = val[u]
        BY <1>3, <1>4, <4>1 DEF Writes, TypeOK
      <4>3. QED
        BY <1>0, <3>1, <3>2, <4>1, <4>2 DEF WriterIs
    <3>4. CASE \A u \in Threads : ~Writes(u, n)
      BY <1>0, <3>1, <3>2, <3>4 DEF WriterIs
    <3>5. QED
      BY <3>3, <3>4
  <2>2. QED
    BY <1>3, <2>1, ItemsKeep
<1>7. \A u \in Threads \ {t} :
        /\ pc'[u] = pc[u] /\ pos'[u] = pos[u] /\ val'[u] = val[u]
        /\ pc[u] = "d_read" => data'[Slot(pos[u])] = data[Slot(pos[u])]
  BY <1>3, <1>5, SlotType DEF TypeOK, Reading
<1>8. /\ callBar' = [callBar EXCEPT ![t] = callBar'[t]]
      /\ handBar' = [handBar EXCEPT ![t] = handBar'[t]]
      /\ ticketBar' = [ticketBar EXCEPT ![t] = ticketBar'[t]]
  BY <1>7, OthersKeep
<1>9. callBar'[t] = callBar[t]
  BY <1>1, <1>4 DEF CallIs
<1>10. callBar' = callBar
  BY <1>8, <1>9, PhasesFunction DEF EachInPhase
<1>11. handBar'[t] = handBar[t] /\ ticketBar'[t] = ticketBar[t]
  BY <1>2, <1>3, <1>4 DEF handBar, ticketBar, TypeOK
<1>12. handBar' = handBar /\ ticketBar' = ticketBar
  <2>1. /\ handBar = [u \in Threads |-> handBar[u]]
        /\ ticketBar = [u \in Threads |-> ticketBar[u]]
    BY DEF handBar, ticketBar
  <2>2. QED
    BY <1>8, <1>11, <2>1
<1>13. QED
  BY <1>3, <1>6, <1>10, <1>12 DEF Fifo!queueVars

(* The store of the sequence that ends try_dequeue frees the cell. *)
LEMMA ReleaseRefines ==
  ASSUME TypeOK, TypeOK', Inv, Inv', NEW t \in Threads, DequeueRelease(t)
  PROVE  Fifo!DeqRelease(t)
<1>0. WriterIs /\ WriterIs'
  BY ItemsBoth
<1>1. CallIs /\ CallIs'
  BY Classify, PTL
<1>2. /\ pc[t] = "d_release"
      /\ pc' = [pc EXCEPT ![t] = "idle"]
      /\ pos' = [pos EXCEPT ![t] = 0]
      /\ val' = [val EXCEPT ![t] = NoValue]
      /\ UNCHANGED <<enqueue_pos, dequeue_pos, data>>
  BY DEF DequeueRelease, Goto, Return
<1>3. Reading(t) /\ ~Reading(t)' /\ ~Writing(t) /\ ~Writing(t)'
  BY <1>2 DEF Writing, Reading, TypeOK
<1>4. \A u \in Threads \ {t} :
        /\ pc'[u] = pc[u] /\ pos'[u] = pos[u] /\ val'[u] = val[u]
  BY <1>2 DEF TypeOK
<1>5. itemsBar' = itemsBar
  <2>1. ASSUME NEW n \in Live
        PROVE  WriterOf(n)' = WriterOf(n) /\ ValueOf(n)' = ValueOf(n)
    <3>1. n \in Nat
      BY DEF Live, TypeOK
    <3>2. \A u \in Threads : Writes(u, n)' <=> Writes(u, n)
      BY <1>3, <1>4 DEF Writes, Writing
    <3>3. CASE \E u \in Threads : Writes(u, n)
      <4>1. PICK u \in Threads : Writes(u, n)
        BY <3>3
      <4>2. u # t /\ val'[u] = val[u]
        BY <1>3, <1>4, <4>1 DEF Writes
      <4>3. QED
        BY <1>0, <3>1, <3>2, <4>1, <4>2 DEF WriterIs
    <3>4. CASE \A u \in Threads : ~Writes(u, n)
      BY <1>0, <1>2, <3>1, <3>2, <3>4 DEF WriterIs
    <3>5. QED
      BY <3>3, <3>4
  <2>2. QED
    BY <1>2, <2>1, ItemsKeep
<1>6. /\ callBar' = [callBar EXCEPT ![t] = callBar'[t]]
      /\ handBar' = [handBar EXCEPT ![t] = handBar'[t]]
      /\ ticketBar' = [ticketBar EXCEPT ![t] = ticketBar'[t]]
  BY <1>2, <1>4, OthersKeep
<1>7. callBar[t] = "releasing" /\ callBar'[t] = "idle"
  BY <1>1, <1>2, <1>3 DEF CallIs, TypeOK
<1>8. handBar'[t] = NoValue /\ ticketBar'[t] = 0
  BY <1>2, <1>3 DEF handBar, ticketBar, TypeOK
<1>9. QED
  BY <1>2, <1>5, <1>6, <1>7, <1>8 DEF Fifo!DeqRelease

(* A queue that has just been constructed is an empty FIFO queue. *)
LEMMA InitRefines == Init => Fifo!QueueInit
<1> SUFFICES ASSUME Init PROVE Fifo!QueueInit
  OBVIOUS
<1>1. CallIs
  <2>1. TypeOK
    BY CapacityAssumption DEF Init, TypeOK, Slots
  <2>2. QED
    BY <2>1, Classify
<1>2. \A t \in Threads : callBar[t] = "idle"
  BY <1>1 DEF CallIs, Init
<1>3. callBar = [t \in Threads |-> "idle"]
  BY <1>2, PhasesFunction DEF EachInPhase
<1>4. itemsBar = <<>>
  BY DEF itemsBar, Init
<1>5. handBar = [t \in Threads |-> NoValue] /\ ticketBar = [t \in Threads |-> 0]
  BY DEF handBar, ticketBar, Reading, Init
<1>6. QED
  BY <1>3, <1>4, <1>5 DEF Fifo!QueueInit, Init

(* Every atomic step of the ring is a step of FifoQueue or none. *)
LEMMA StepRefines ==
  TypeOK /\ TypeOK' /\ Inv /\ Inv' /\ EmptyHands /\ [Next]_vars
    => [Fifo!QueueNext]_(Fifo!queueVars)
<1> SUFFICES ASSUME TypeOK, TypeOK', Inv, Inv', EmptyHands, [Next]_vars
             PROVE  Fifo!QueueNext \/ UNCHANGED Fifo!queueVars
  OBVIOUS
<1>1. CASE UNCHANGED vars
  BY <1>1 DEF vars, Fifo!queueVars, itemsBar, callBar, handBar, ticketBar,
     ValueOf, WriterOf, Writes, Writing, Reading
<1>2. ASSUME NEW t \in Threads, NEW v \in Values, EnqueueCall(t, v)
      PROVE  Fifo!QueueNext
  BY <1>2, CallRefines DEF Fifo!QueueNext
<1>3. ASSUME NEW t \in Threads, DequeueCall(t) PROVE Fifo!QueueNext
  BY <1>3, CallRefines DEF Fifo!QueueNext
<1>4. ASSUME NEW t \in Threads, Step(t)
      PROVE  Fifo!QueueNext \/ UNCHANGED Fifo!queueVars
  <2>1. CASE \/ EnqueueLoad(t) \/ EnqueueTurn(t) \/ EnqueueBehind(t)
             \/ EnqueueCasFail(t) \/ DequeueLoad(t) \/ DequeueTurn(t)
             \/ DequeueBehind(t) \/ DequeueCasFail(t)
    BY <2>1, CallRefines
  <2>2. CASE EnqueueFull(t)     BY <2>2, FullRefines DEF Fifo!QueueNext
  <2>3. CASE EnqueueCasOk(t)    BY <2>3, AcceptRefines DEF Fifo!QueueNext
  <2>4. CASE EnqueueWrite(t)    BY <2>4, WriteRefines
  <2>5. CASE EnqueuePublish(t)  BY <2>5, CommitRefines DEF Fifo!QueueNext
  <2>6. CASE DequeueEmpty(t)    BY <2>6, EmptyRefines DEF Fifo!QueueNext
  <2>7. CASE DequeueCasOk(t)    BY <2>7, TakeRefines DEF Fifo!QueueNext
  <2>8. CASE DequeueRead(t)     BY <2>8, ReadRefines
  <2>9. CASE DequeueRelease(t)  BY <2>9, ReleaseRefines DEF Fifo!QueueNext
  <2>10. QED
    BY <1>4, <2>1, <2>2, <2>3, <2>4, <2>5, <2>6, <2>7, <2>8, <2>9 DEF Step
<1>5. QED
  BY <1>1, <1>2, <1>3, <1>4 DEF Next

(* The ring of try_enqueue and try_dequeue is a bounded FIFO queue, for    *)
(* any number of threads and any capacity of at least two: what leaves it  *)
(* leaves in the order of the compare-exchanges that let it in, nothing is *)
(* lost or taken twice, and a call returns false only when the next cell   *)
(* or the oldest item is really not available.                             *)
THEOREM Refinement == Spec => ImplementsFifo
<1>1. Spec => []TypeOK
  BY TypeCorrect
<1>2. Spec => []Inv
  BY Invariant
<1>3. Init => EmptyHands
  BY DEF Init, EmptyHands
<1>4. Spec => []EmptyHands
  BY <1>1, <1>3, HandsStep, PTL DEF Spec
<1>5. QED
  BY <1>1, <1>2, <1>4, InitRefines, StepRefines, PTL
     DEF Spec, ImplementsFifo, Fifo!QueueSpec
=============================================================================
