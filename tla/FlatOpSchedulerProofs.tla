------------------------ MODULE FlatOpSchedulerProofs ------------------------
(***************************************************************************)
(* Proofs about FlatOpScheduler, for any number of callers, executor       *)
(* threads and operations, and for visitors that may throw.                *)
(***************************************************************************)
EXTENDS FlatOpScheduler, TLAPS

(***************************************************************************)
(* schedule(), drainQueue() and the constructor respect the types.         *)
(***************************************************************************)
LEMMA TypeStep == TypeOK /\ [Next]_vars => TypeOK'
<1> SUFFICES ASSUME TypeOK, [Next]_vars PROVE TypeOK'
  OBVIOUS
<1> USE DEF TypeOK
<1>1. ASSUME NEW c \in Callers, NEW op \in Ops, Schedule(c, op) PROVE TypeOK'
  BY <1>1 DEF Schedule
<1>2. ASSUME NEW c \in Callers, AddDrain(c) PROVE TypeOK'
  BY <1>2 DEF AddDrain, queues
<1>3. ASSUME NEW w \in Workers, StartDrain(w) PROVE TypeOK'
  BY <1>3 DEF StartDrain, queues
<1>4. ASSUME NEW w \in Workers, EndDrain(w) PROVE TypeOK'
  BY <1>4 DEF EndDrain
<1>5. ASSUME NEW w \in Workers, Swap(w) PROVE TypeOK'
  BY <1>5 DEF Swap
<1>6. ASSUME NEW w \in Workers, Visit(w) PROVE TypeOK'
  BY <1>6 DEF Visit, queues
<1>7. ASSUME NEW w \in Workers, VisitThrows(w) PROVE TypeOK'
  BY <1>7 DEF VisitThrows, queues
<1>8. ASSUME NEW w \in Workers, ClearUsed(w) PROVE TypeOK'
  BY <1>8 DEF ClearUsed
<1>9. CASE UNCHANGED vars
  BY <1>9 DEF vars
<1> QED
  BY <1>1, <1>2, <1>3, <1>4, <1>5, <1>6, <1>7, <1>8, <1>9 DEF Next, Drain

(***************************************************************************)
(* The licence to drain is passed from the caller that found no drain in   *)
(* progress to the executor and on to one worker, never duplicated.        *)
(***************************************************************************)
LEMMA LicenceStep == TypeOK /\ OneLicence /\ [Next]_vars => OneLicence'
<1> SUFFICES ASSUME TypeOK, OneLicence, [Next]_vars PROVE OneLicence'
  OBVIOUS
<1> USE DEF TypeOK, OneLicence, SerialExecution, Adding, Draining
<1>1. ASSUME NEW c \in Callers, NEW op \in Ops, Schedule(c, op) PROVE OneLicence'
  BY <1>1 DEF Schedule
<1>2. ASSUME NEW c \in Callers, AddDrain(c) PROVE OneLicence'
  BY <1>2 DEF AddDrain, queues
<1>3. ASSUME NEW w \in Workers, StartDrain(w) PROVE OneLicence'
  BY <1>3 DEF StartDrain, queues
<1>4. ASSUME NEW w \in Workers, EndDrain(w) PROVE OneLicence'
  BY <1>4 DEF EndDrain
<1>5. ASSUME NEW w \in Workers, Swap(w) PROVE OneLicence'
  BY <1>5 DEF Swap
<1>6. ASSUME NEW w \in Workers, Visit(w) PROVE OneLicence'
  BY <1>6 DEF Visit, queues
<1>7. ASSUME NEW w \in Workers, VisitThrows(w) PROVE OneLicence'
  BY <1>7 DEF VisitThrows, queues
<1>8. ASSUME NEW w \in Workers, ClearUsed(w) PROVE OneLicence'
  BY <1>8 DEF ClearUsed
<1>9. CASE UNCHANGED vars
  BY <1>9 DEF vars
<1> QED
  BY <1>1, <1>2, <1>3, <1>4, <1>5, <1>6, <1>7, <1>8, <1>9 DEF Next, Drain

(***************************************************************************)
(* No step loses track of an operation: one lemma per part of Accounted.   *)
(***************************************************************************)
LEMMA FilledStep == IInv /\ [Next]_vars => FilledIsLast'
<1> SUFFICES ASSUME IInv, [Next]_vars PROVE FilledIsLast'
  OBVIOUS
<1> USE DEF IInv, TypeOK, Accounted, FilledIsLast
<1>1. ASSUME NEW c \in Callers, NEW op \in Ops, Schedule(c, op) PROVE FilledIsLast'
  <2>1. /\ Len(scheduled') = Len(scheduled) + 1
        /\ Len(m_filledQueue') = Len(m_filledQueue) + 1
    BY <1>1 DEF Schedule
  <2>2. /\ Taken \in Nat
        /\ Taken' = Taken
        /\ Taken + Len(m_filledQueue) = Len(scheduled)
    BY <2>1 DEF Taken
  <2>3. ASSUME NEW i \in 1..Len(m_filledQueue')
        PROVE  m_filledQueue'[i] = scheduled'[Taken' + i]
    <3>1. CASE i = Len(m_filledQueue) + 1
      BY <1>1, <2>2, <3>1 DEF Schedule
    <3>2. CASE i \in 1..Len(m_filledQueue)
      <4>1. m_filledQueue'[i] = m_filledQueue[i]
        BY <1>1, <3>2 DEF Schedule
      <4>2. scheduled'[Taken + i] = scheduled[Taken + i]
        BY <1>1, <2>2, <3>2 DEF Schedule
      <4> QED
        BY <2>2, <3>2, <4>1, <4>2
    <3> QED
      BY <2>1, <3>1, <3>2
  <2>4. Len(m_filledQueue') <= Len(scheduled')
    BY <2>1
  <2> QED
    BY <2>3, <2>4
<1>2. ASSUME NEW w \in Workers, Swap(w) PROVE FilledIsLast'
  BY <1>2 DEF Swap, AtRest, Taken
<1>3. CASE UNCHANGED <<scheduled, m_filledQueue>>
  BY <1>3 DEF Taken
<1> QED
  BY <1>1, <1>2, <1>3
     DEF Next, Drain, AddDrain, StartDrain, EndDrain, Visit, VisitThrows, ClearUsed, vars, queues

(***************************************************************************)
(* An index within the batch, shifted by the number of operations before   *)
(* the batch, is an index within all operations scheduled.                 *)
(***************************************************************************)
LEMMA WithinScheduled ==
    \A e, p, u, s, f \in Nat : \A i \in 1..u :
        e + 1 - p >= 0 /\ e + 1 - p + u = s - f => e + 1 - p + i \in 1..s
OBVIOUS

LEMMA BatchStep ==
    ASSUME IInv, [Next]_vars, NEW v \in Workers, workerPc'[v] = "visit"
    PROVE  BatchContinues(v)'
<1> USE DEF IInv, TypeOK, Accounted, BatchContinues, Taken
<1>1. ASSUME NEW c \in Callers, NEW op \in Ops, Schedule(c, op) PROVE BatchContinues(v)'
  <2>1. /\ Len(scheduled') = Len(scheduled) + 1
        /\ Taken' = Taken
        /\ \A i \in 1..Len(scheduled) : scheduled'[i] = scheduled[i]
    BY <1>1 DEF Schedule
  <2>2. /\ UNCHANGED <<m_usedQueue, position, executed>>
        /\ BatchContinues(v)
    BY <1>1 DEF Schedule
  <2>3. /\ Len(scheduled) \in Nat /\ Len(executed) \in Nat /\ Len(m_usedQueue) \in Nat
        /\ position[v] \in Nat /\ Len(m_filledQueue) \in Nat
        /\ Len(m_filledQueue) <= Len(scheduled)
    BY DEF FilledIsLast
  <2>4. ASSUME NEW i \in 1..Len(m_usedQueue)
        PROVE  m_usedQueue[i] = scheduled'[Len(executed) + 1 - position[v] + i]
    <3>1. Len(executed) + 1 - position[v] + i \in 1..Len(scheduled)
      <4>1. /\ Len(executed) + 1 - position[v] >= 0
            /\ Len(executed) + 1 - position[v] + Len(m_usedQueue) = Len(scheduled) - Len(m_filledQueue)
        BY ONLY <2>2 DEF BatchContinues, Taken
      <4> QED
        BY ONLY <2>3, <4>1, i \in 1..Len(m_usedQueue), WithinScheduled
    <3> QED
      BY ONLY <2>1, <2>2, <3>1, i \in 1..Len(m_usedQueue) DEF BatchContinues
  <2> QED
    BY ONLY <2>1, <2>2, <2>4 DEF BatchContinues
<1>2. ASSUME NEW w \in Workers, Swap(w) PROVE BatchContinues(v)'
  <2>1. v = w
    BY <1>2 DEF Swap, OneLicence, SerialExecution, Draining
  <2>2. m_usedQueue = <<>> /\ Len(executed) = Taken
    BY <1>2 DEF Swap, AtRest
  <2>3. /\ position'[v] = 1
        /\ Taken' = Len(scheduled)
        /\ Len(m_usedQueue') = Len(m_filledQueue)
    BY <1>2, <2>1, <2>2 DEF Swap
  <2> QED
    BY <1>2, <2>1, <2>2, <2>3 DEF Swap, FilledIsLast
<1>3. ASSUME NEW w \in Workers, Visit(w) PROVE BatchContinues(v)'
  <2>1. v = w
    BY <1>3 DEF Visit, OneLicence, SerialExecution, Draining
  <2>2. /\ Len(executed') = Len(executed) + 1
        /\ position'[v] = position[v] + 1
        /\ Taken' = Taken
        /\ UNCHANGED <<m_usedQueue, scheduled>>
    BY <1>3, <2>1 DEF Visit, queues
  <2>3. Len(executed') + 1 - position'[v] = Len(executed) + 1 - position[v]
    <3>1. position[v] \in Nat /\ Len(executed) \in Nat
      OBVIOUS
    <3> QED
      BY <2>2, <3>1
  <2>4. BatchContinues(v) /\ position[v] <= Len(m_usedQueue)
    BY <1>3, <2>1 DEF Visit
  <2>5. position'[v] <= Len(m_usedQueue') + 1
    BY <2>2, <2>4
  <2> QED
    BY ONLY <2>2, <2>3, <2>4, <2>5 DEF BatchContinues
<1>4. ASSUME NEW w \in Workers, ClearUsed(w) PROVE BatchContinues(v)'
  <2>1. v = w
    BY <1>4 DEF ClearUsed, OneLicence, SerialExecution, Draining
  <2> QED
    BY <1>4, <2>1 DEF ClearUsed
<1>5. CASE /\ UNCHANGED <<scheduled, executed, m_filledQueue, m_usedQueue, position>>
           /\ workerPc[v] = "visit"
  BY <1>5
<1> QED
  BY <1>1, <1>2, <1>3, <1>4, <1>5
     DEF Next, Drain, AddDrain, StartDrain, EndDrain, VisitThrows, vars, queues

LEMMA AtRestStep ==
    IInv /\ [Next]_vars => (AtRest => m_usedQueue = <<>> /\ Len(executed) = Taken)'
<1> DEFINE Goal == AtRest => m_usedQueue = <<>> /\ Len(executed) = Taken
<1> SUFFICES ASSUME IInv, [Next]_vars PROVE Goal'
  OBVIOUS
<1> USE DEF IInv, TypeOK, OneLicence, SerialExecution, Adding, Draining, Accounted, AtRest, Taken
<1>1. ASSUME NEW c \in Callers, NEW op \in Ops, Schedule(c, op) PROVE Goal'
  <2>1. Taken' = Taken
    BY <1>1 DEF Schedule
  <2> QED
    BY <1>1, <2>1 DEF Schedule
<1>2. ASSUME NEW c \in Callers, AddDrain(c) PROVE Goal'
  BY <1>2 DEF AddDrain, queues
<1>3. ASSUME NEW w \in Workers, StartDrain(w) PROVE Goal'
  BY <1>3 DEF StartDrain, queues
<1>4. ASSUME NEW w \in Workers, EndDrain(w) PROVE Goal'
  BY <1>4 DEF EndDrain
<1>5. ASSUME NEW w \in Workers, Swap(w) PROVE Goal'
  BY <1>5 DEF Swap
<1>6. ASSUME NEW w \in Workers, Visit(w) PROVE Goal'
  BY <1>6 DEF Visit, queues
<1>7. ASSUME NEW w \in Workers, VisitThrows(w) PROVE Goal'
  BY <1>7 DEF VisitThrows, queues
<1>8. ASSUME NEW w \in Workers, ClearUsed(w) PROVE Goal'
  BY <1>8 DEF ClearUsed, BatchContinues
<1>9. CASE UNCHANGED vars
  BY <1>9 DEF vars
<1> QED
  BY <1>1, <1>2, <1>3, <1>4, <1>5, <1>6, <1>7, <1>8, <1>9 DEF Next, Drain

(***************************************************************************)
(* Executing the next operation of the batch extends the common prefix.    *)
(***************************************************************************)
LEMMA OrderStep == IInv /\ [Next]_vars => ExecutedInScheduleOrder'
<1> SUFFICES ASSUME IInv, [Next]_vars PROVE ExecutedInScheduleOrder'
  OBVIOUS
<1> USE DEF IInv, TypeOK, ExecutedInScheduleOrder
<1>1. ASSUME NEW c \in Callers, NEW op \in Ops, Schedule(c, op)
      PROVE  ExecutedInScheduleOrder'
  BY <1>1 DEF Schedule
<1>2. ASSUME NEW w \in Workers, Visit(w) PROVE ExecutedInScheduleOrder'
  <2>1. /\ m_usedQueue[position[w]] = scheduled[Len(executed) + 1]
        /\ Len(executed) < Len(scheduled)
    BY <1>2 DEF Visit, Accounted, BatchContinues, FilledIsLast, Taken
  <2> QED
    BY <1>2, <2>1 DEF Visit
<1>3. CASE UNCHANGED <<scheduled, executed>>
  BY <1>3
<1> QED
  BY <1>1, <1>2, <1>3
     DEF Next, Drain, AddDrain, StartDrain, EndDrain, Swap, VisitThrows, ClearUsed, vars

(***************************************************************************)
(* The constructor establishes the invariant and every step keeps it.      *)
(***************************************************************************)
THEOREM Invariance == Spec => []IInv
<1>1. Init => IInv
  <2> SUFFICES ASSUME Init PROVE IInv
    OBVIOUS
  <2>1. TypeOK
    <3>1. <<>> \in Seq(Ops)
      OBVIOUS
    <3>2. [w \in Workers |-> 1] \in [Workers -> Nat \ {0}]
      OBVIOUS
    <3> QED
      BY <3>1, <3>2 DEF Init, TypeOK
  <2>2. OneLicence
    BY DEF Init, OneLicence, SerialExecution, Adding, Draining
  <2>3. Accounted
    BY DEF Init, Accounted, FilledIsLast, Taken
  <2>4. ExecutedInScheduleOrder
    BY DEF Init, ExecutedInScheduleOrder
  <2> QED
    BY <2>1, <2>2, <2>3, <2>4 DEF IInv
<1>2. IInv /\ [Next]_vars => IInv'
  <2> SUFFICES ASSUME IInv, [Next]_vars PROVE IInv'
    OBVIOUS
  <2>1. Accounted'
    BY FilledStep, BatchStep, AtRestStep DEF Accounted
  <2> QED
    BY <2>1, TypeStep, LicenceStep, OrderStep DEF IInv
<1> QED
  BY <1>1, <1>2, PTL DEF Spec

(***************************************************************************)
(* Operations of one handle never run concurrently.                        *)
(***************************************************************************)
THEOREM Serialized == Spec => []SerialExecution
<1>1. IInv => SerialExecution
  BY DEF IInv, OneLicence
<1> QED
  BY <1>1, Invariance, PTL

(***************************************************************************)
(* The assertion at the head of the drain loop never fails.                *)
(***************************************************************************)
THEOREM AssertionHolds == Spec => []UsedQueueEmptyAtSwap
<1>1. IInv => UsedQueueEmptyAtSwap
  BY DEF IInv, Accounted, AtRest, UsedQueueEmptyAtSwap
<1> QED
  BY <1>1, Invariance, PTL

(***************************************************************************)
(* First scheduled, first executed; nothing twice, nothing skipped.        *)
(***************************************************************************)
THEOREM FirstInFirstOut == Spec => []ExecutedInScheduleOrder
<1>1. IInv => ExecutedInScheduleOrder
  BY DEF IInv
<1> QED
  BY <1>1, Invariance, PTL

(***************************************************************************)
(* An operation in m_filledQueue always has somebody on the way to drain   *)
(* it, unless a visitor threw: the check of the queue and the reset of     *)
(* m_drainInProgress in drainQueue() share a critical section.             *)
(***************************************************************************)
THEOREM WakeupNeverLost == Spec => []NoLostWakeup
<1>1. Init => LicenceHeld
  BY DEF Init, LicenceHeld
<1>2. ASSUME IInv, LicenceHeld, [Next]_vars PROVE LicenceHeld'
  <2> USE <1>2 DEF IInv, TypeOK, OneLicence, SerialExecution, LicenceHeld, Adding, Draining, Abandoned
  <2>1. ASSUME NEW c \in Callers, NEW op \in Ops, Schedule(c, op) PROVE LicenceHeld'
    BY <2>1 DEF Schedule
  <2>2. ASSUME NEW c \in Callers, AddDrain(c) PROVE LicenceHeld'
    BY <2>2 DEF AddDrain, queues
  <2>3. ASSUME NEW w \in Workers, StartDrain(w) PROVE LicenceHeld'
    BY <2>3 DEF StartDrain, queues
  <2>4. ASSUME NEW w \in Workers, EndDrain(w) PROVE LicenceHeld'
    BY <2>4 DEF EndDrain
  <2>5. ASSUME NEW w \in Workers, Swap(w) PROVE LicenceHeld'
    BY <2>5 DEF Swap
  <2>6. ASSUME NEW w \in Workers, Visit(w) PROVE LicenceHeld'
    BY <2>6 DEF Visit, queues
  <2>7. ASSUME NEW w \in Workers, ClearUsed(w) PROVE LicenceHeld'
    BY <2>7 DEF ClearUsed
  <2>8. ASSUME NEW w \in Workers, VisitThrows(w) PROVE LicenceHeld'
    <3>1. m_usedQueue' # <<>> /\ UNCHANGED queues
      BY <2>8 DEF VisitThrows, queues
    <3>2. Draining' = {}
      BY <2>8 DEF VisitThrows
    <3>3. m_drainInProgress
      BY <2>8 DEF VisitThrows
    <3> QED
      BY <3>1, <3>2, <3>3 DEF queues
  <2>9. CASE UNCHANGED vars
    BY <2>9 DEF vars
  <2> QED
    BY <2>1, <2>2, <2>3, <2>4, <2>5, <2>6, <2>7, <2>8, <2>9 DEF Next, Drain
<1>3. LicenceHeld => NoLostWakeup
  BY DEF LicenceHeld, NoLostWakeup
<1> QED
  BY <1>1, <1>2, <1>3, Invariance, PTL DEF Spec

=============================================================================
