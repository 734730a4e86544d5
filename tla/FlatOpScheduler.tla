--------------------------- MODULE FlatOpScheduler ---------------------------
(***************************************************************************)
(* FlatOpScheduler (flatOpScheduler.h): the operations of one file handle  *)
(* are queued by any number of threads and executed one after another by a *)
(* single "drain" task that whoever finds no drain in progress hands to    *)
(* the executor.  Everything a POSIX or null-device file handle does       *)
(* (read, write, fsync, flush, release) goes through it.                   *)
(*                                                                         *)
(* An atomic step is a critical section of m_queueMutex or the code        *)
(* between two of them that touches state another thread can see.          *)
(***************************************************************************)
EXTENDS Naturals, Sequences

CONSTANTS
    Callers,    \* threads that call schedule()
    Workers,    \* executor threads
    Ops,        \* operations; each is scheduled at most once
    ThrowingOps \* operations whose visitor may leave operator() by an exception

ASSUME FlatOpAssumption ==
    /\ ThrowingOps \subseteq Ops
    /\ Callers # {} /\ Workers # {}

VARIABLES
    m_filledQueue,      \* operations waiting for the next swap
    m_usedQueue,        \* operations of the batch being executed
    m_drainInProgress,
    callerPc,           \* "idle", or "add": unlocked, about to call executor->add
    executor,           \* drain tasks handed over and not yet started
    workerPc,           \* where in drainQueue() a worker is
    position,           \* the worker's place in the for loop over m_usedQueue
    scheduled,          \* history: operations in the order schedule() queued them
    executed            \* history: operations in the order the visitor finished them

vars == <<m_filledQueue, m_usedQueue, m_drainInProgress, callerPc, executor,
          workerPc, position, scheduled, executed>>

queues == <<m_filledQueue, m_usedQueue, m_drainInProgress>>

InSeq(x, s) == \E i \in 1..Len(s) : s[i] = x

(***************************************************************************)
(* Initial state: the constructor and the member initialisers.             *)
(***************************************************************************)
Init ==
    /\ m_filledQueue = <<>>
    /\ m_usedQueue = <<>>
    /\ m_drainInProgress = FALSE
    /\ callerPc = [c \in Callers |-> "idle"]
    /\ executor = 0
    /\ workerPc = [w \in Workers |-> "idle"]
    /\ position = [w \in Workers |-> 1]
    /\ scheduled = <<>>
    /\ executed = <<>>

\* Faulty variant of schedule(): it always starts a drain.
ScheduleAlwaysDrains(c, op) ==
    /\ callerPc[c] = "idle"
    /\ ~InSeq(op, scheduled)
    /\ m_filledQueue' = Append(m_filledQueue, op)
    /\ scheduled' = Append(scheduled, op)
    /\ callerPc' = [callerPc EXCEPT ![c] = "add"]
    /\ m_drainInProgress' = TRUE
    /\ UNCHANGED <<m_usedQueue, executor, workerPc, position, executed>>

(***************************************************************************)
(* schedule(): the critical section that queues the operation and decides  *)
(* whether this thread has to start a drain ...                            *)
(***************************************************************************)
Schedule(c, op) ==
    /\ callerPc[c] = "idle"
    /\ ~InSeq(op, scheduled)
    /\ m_filledQueue' = Append(m_filledQueue, op)
    /\ scheduled' = Append(scheduled, op)
    /\ callerPc' = [callerPc EXCEPT ![c] = IF m_drainInProgress THEN "idle" ELSE "add"]
    /\ m_drainInProgress' = TRUE
    /\ UNCHANGED <<m_usedQueue, executor, workerPc, position, executed>>

(***************************************************************************)
(* ... and, outside the lock, m_executor->add(drainQueue).                 *)
(***************************************************************************)
AddDrain(c) ==
    /\ callerPc[c] = "add"
    /\ executor' = executor + 1
    /\ callerPc' = [callerPc EXCEPT ![c] = "idle"]
    /\ UNCHANGED <<queues, workerPc, position, scheduled, executed>>

(***************************************************************************)
(* drainQueue(): a worker takes the task and runs startDrain().            *)
(***************************************************************************)
StartDrain(w) ==
    /\ workerPc[w] = "idle"
    /\ executor > 0
    /\ executor' = executor - 1
    /\ workerPc' = [workerPc EXCEPT ![w] = "swap"]
    /\ UNCHANGED <<queues, callerPc, position, scheduled, executed>>

\* Faulty variant of the loop head: the drain ends without resetting
\* m_drainInProgress.
EndDrainKeepsFlag(w) ==
    /\ workerPc[w] = "swap"
    /\ m_filledQueue = <<>>
    /\ workerPc' = [workerPc EXCEPT ![w] = "idle"]
    /\ UNCHANGED <<queues, callerPc, executor, position, scheduled, executed>>

(***************************************************************************)
(* The critical section at the head of the loop.  Nothing queued: the      *)
(* drain ends, under the same lock.  Otherwise the queues are swapped.     *)
(***************************************************************************)
EndDrain(w) ==
    /\ workerPc[w] = "swap"
    /\ m_filledQueue = <<>>
    /\ m_drainInProgress' = FALSE
    /\ workerPc' = [workerPc EXCEPT ![w] = "idle"]
    /\ UNCHANGED <<m_filledQueue, m_usedQueue, callerPc, executor, position, scheduled, executed>>

Swap(w) ==
    /\ workerPc[w] = "swap"
    /\ m_filledQueue # <<>>
    /\ m_usedQueue' = m_filledQueue
    /\ m_filledQueue' = m_usedQueue
    /\ workerPc' = [workerPc EXCEPT ![w] = "visit"]
    /\ position' = [position EXCEPT ![w] = 1]
    /\ UNCHANGED <<m_drainInProgress, callerPc, executor, scheduled, executed>>

\* Faulty variant of the loop: the batch is executed from its back.
VisitFromBack(w) ==
    /\ workerPc[w] = "visit"
    /\ position[w] <= Len(m_usedQueue)
    /\ executed' = Append(executed, m_usedQueue[Len(m_usedQueue) + 1 - position[w]])
    /\ position' = [position EXCEPT ![w] = @ + 1]
    /\ UNCHANGED <<queues, callerPc, executor, workerPc, scheduled>>

(***************************************************************************)
(* One round of the for loop: apply_visitor executes the operation and     *)
(* fulfils its promise.                                                    *)
(***************************************************************************)
Visit(w) ==
    /\ workerPc[w] = "visit"
    /\ position[w] <= Len(m_usedQueue)
    /\ executed' = Append(executed, m_usedQueue[position[w]])
    /\ position' = [position EXCEPT ![w] = @ + 1]
    /\ UNCHANGED <<queues, callerPc, executor, workerPc, scheduled>>

(***************************************************************************)
(* The visitor throws instead: the exception leaves drainQueue() and the   *)
(* executor's worker is free again; nothing resets the scheduler's state.  *)
(***************************************************************************)
VisitThrows(w) ==
    /\ workerPc[w] = "visit"
    /\ position[w] <= Len(m_usedQueue)
    /\ m_usedQueue[position[w]] \in ThrowingOps
    /\ workerPc' = [workerPc EXCEPT ![w] = "idle"]
    /\ UNCHANGED <<queues, callerPc, executor, position, scheduled, executed>>

\* Faulty variant: the used queue is not cleared.
KeepUsed(w) ==
    /\ workerPc[w] = "visit"
    /\ position[w] > Len(m_usedQueue)
    /\ workerPc' = [workerPc EXCEPT ![w] = "swap"]
    /\ UNCHANGED <<queues, callerPc, executor, position, scheduled, executed>>

\* Faulty variant: the loop does not stop at the end of the batch.
ClearUsedLate(w) ==
    /\ workerPc[w] = "visit"
    /\ position[w] > Len(m_usedQueue) + 1
    /\ m_usedQueue' = <<>>
    /\ workerPc' = [workerPc EXCEPT ![w] = "swap"]
    /\ UNCHANGED <<m_filledQueue, m_drainInProgress, callerPc, executor, position, scheduled, executed>>

(***************************************************************************)
(* After the loop: m_usedQueue.clear(), back to the head of while (true).  *)
(***************************************************************************)
ClearUsed(w) ==
    /\ workerPc[w] = "visit"
    /\ position[w] > Len(m_usedQueue)
    /\ m_usedQueue' = <<>>
    /\ workerPc' = [workerPc EXCEPT ![w] = "swap"]
    /\ UNCHANGED <<m_filledQueue, m_drainInProgress, callerPc, executor, position, scheduled, executed>>

Drain(w) ==
    \/ StartDrain(w)
    \/ EndDrain(w)
    \/ Swap(w)
    \/ Visit(w)
    \/ VisitThrows(w)
    \/ ClearUsed(w)

Next ==
    \/ \E c \in Callers, op \in Ops : Schedule(c, op)
    \/ \E c \in Callers : AddDrain(c)
    \/ \E w \in Workers : Drain(w)

Spec == Init /\ [][Next]_vars

(***************************************************************************)
(* A thread that left the lock in schedule() goes on to call add(), and    *)
(* the executor's threads keep running the tasks they were given: that is  *)
(* all the scheduling assumed.  Nobody is obliged to call schedule().      *)
(***************************************************************************)
FairSpec ==
    /\ Spec
    /\ \A c \in Callers : WF_vars(AddDrain(c))
    /\ \A w \in Workers : WF_vars(Drain(w))

-----------------------------------------------------------------------------

\* The threads holding the scheduler's one licence to drain.
Adding == {c \in Callers : callerPc[c] = "add"}
Draining == {w \in Workers : workerPc[w] # "idle"}

(***************************************************************************)
(* Types of the scheduler's members and of the threads' control state.     *)
(***************************************************************************)
TypeOK ==
    /\ m_filledQueue \in Seq(Ops)
    /\ m_usedQueue \in Seq(Ops)
    /\ m_drainInProgress \in BOOLEAN
    /\ callerPc \in [Callers -> {"idle", "add"}]
    /\ executor \in Nat
    /\ workerPc \in [Workers -> {"idle", "swap", "visit"}]
    /\ position \in [Workers -> Nat \ {0}]
    /\ scheduled \in Seq(Ops)
    /\ executed \in Seq(Ops)

(***************************************************************************)
(* Two executor threads are never inside drainQueue() at the same time, so *)
(* operations of one handle never run concurrently: m_usedQueue and the    *)
(* visitor are used without a lock, and PosixFileHandle's write is an      *)
(* lseek followed by a writev on one shared file offset.                   *)
(***************************************************************************)
SerialExecution ==
    \A v, w \in Draining : v = w

(***************************************************************************)
(* The assertion at the head of the drain loop (flatOpScheduler.h:58):     *)
(* m_usedQueue is empty whenever the queues are about to be swapped, so    *)
(* the swap can neither lose nor reorder operations.                       *)
(***************************************************************************)
UsedQueueEmptyAtSwap ==
    \A w \in Workers : workerPc[w] = "swap" => m_usedQueue = <<>>

(***************************************************************************)
(* Operations are executed in the order in which schedule() queued them,   *)
(* none twice and none skipped, across any number of batches and drains.   *)
(***************************************************************************)
ExecutedInScheduleOrder ==
    /\ Len(executed) <= Len(scheduled)
    /\ \A i \in 1..Len(executed) : executed[i] = scheduled[i]

\* An exception ended the drain in the middle of a batch.
Abandoned == Draining = {} /\ m_usedQueue # <<>>

(***************************************************************************)
(* No lost wakeup: while an operation waits in m_filledQueue somebody will *)
(* drain it - a caller on its way to add(), a task in the executor or a    *)
(* running drain that has yet to look at the queue again - unless a        *)
(* visitor threw out of drainQueue().                                      *)
(***************************************************************************)
NoLostWakeup ==
    m_filledQueue # <<>> =>
        Adding # {} \/ executor > 0 \/ Draining # {} \/ Abandoned

(***************************************************************************)
(* Every operation given to schedule() is eventually executed, which every *)
(* future schedule() returns depends on, unless an operation throws.       *)
(***************************************************************************)
EveryOpExecuted ==
    \A op \in Ops : InSeq(op, scheduled) ~> InSeq(op, executed) \/ Abandoned

(***************************************************************************)
(* The inductive strengthening.  At most one licence to drain is out: with *)
(* a caller about to call add(), with a task in the executor or with a     *)
(* running drain; and none while m_drainInProgress is false.               *)
(***************************************************************************)
OneLicence ==
    /\ \A c, d \in Adding : c = d
    /\ SerialExecution
    /\ executor <= 1
    /\ Adding # {} => executor = 0 /\ Draining = {}
    /\ executor = 1 => Draining = {}
    /\ ~m_drainInProgress => Adding = {} /\ executor = 0 /\ Draining = {}

\* How many of the scheduled operations a swap has taken out of m_filledQueue.
Taken == Len(scheduled) - Len(m_filledQueue)

(***************************************************************************)
(* Where every scheduled operation is: m_filledQueue holds the last ones;  *)
(* the batch of a running drain continues exactly where `executed' ends;   *)
(* and whenever a drain could start or is about to swap, all operations    *)
(* taken have been executed.                                               *)
(***************************************************************************)
FilledIsLast ==
    /\ Len(m_filledQueue) <= Len(scheduled)
    /\ \A i \in 1..Len(m_filledQueue) : m_filledQueue[i] = scheduled[Taken + i]

BatchContinues(w) ==
    LET before == Len(executed) + 1 - position[w] IN
    /\ position[w] <= Len(m_usedQueue) + 1
    /\ before >= 0
    /\ before + Len(m_usedQueue) = Taken
    /\ \A i \in 1..Len(m_usedQueue) : m_usedQueue[i] = scheduled[before + i]

AtRest ==
    \/ ~m_drainInProgress
    \/ Adding # {}
    \/ executor > 0
    \/ \E w \in Workers : workerPc[w] = "swap"

Accounted ==
    /\ FilledIsLast
    /\ \A w \in Workers : workerPc[w] = "visit" => BatchContinues(w)
    /\ AtRest => m_usedQueue = <<>> /\ Len(executed) = Taken

(***************************************************************************)
(* The invariant that is inductive for every number of threads and         *)
(* operations; the properties above follow from it.                        *)
(***************************************************************************)
IInv == TypeOK /\ OneLicence /\ Accounted /\ ExecutedInScheduleOrder

(***************************************************************************)
(* The strengthening of NoLostWakeup: a queued operation means a drain is  *)
(* in progress, and that means the licence to drain is with somebody or    *)
(* was lost to an exception.                                               *)
(***************************************************************************)
LicenceHeld ==
    /\ m_filledQueue # <<>> => m_drainInProgress
    /\ m_drainInProgress => Adding # {} \/ executor > 0 \/ Draining # {} \/ Abandoned

(***************************************************************************)
(* What the scheduler promises: a queue served one operation at a time.    *)
(* The queue's content is what is left of the batch followed by the        *)
(* operations waiting for the next one.                                    *)
(***************************************************************************)
Unexecuted ==
    LET finished == Len(executed) - (Taken - Len(m_usedQueue))
    IN  SubSeq(m_usedQueue, finished + 1, Len(m_usedQueue))

Serial == INSTANCE SerialQueue WITH pending <- Unexecuted \o m_filledQueue, done <- executed

(***************************************************************************)
(* The scheduler implements the serial queue: every step of the threads is *)
(* an Enqueue, a Serve of the oldest operation, or invisible.              *)
(***************************************************************************)
ImplementsSerialQueue == Serial!Spec

=============================================================================
