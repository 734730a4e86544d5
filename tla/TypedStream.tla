----------------------------- MODULE TypedStream -----------------------------
(***************************************************************************)
(* An outgoing message stream (streaming/typedStream.h).  Threads of the   *)
(* application send numbered messages, of which the stream keeps a copy    *)
(* until the server acknowledges it; handler threads serve the server's    *)
(* requests and acknowledgements.  All of them share m_bufferMutex, so     *)
(* only the single operations on the concurrent priority queue are atomic. *)
(* The queue is ordered by StreamLess, the "less than" on sequence         *)
(* numbers, and try_pop takes the greatest element: the highest number.    *)
(*                                                                         *)
(* A message is represented by its sequence number.                        *)
(***************************************************************************)
EXTENDS Naturals, Sequences, FiniteSets

CONSTANTS
    Senders,        \* application threads that call send(), close()
    Handlers,       \* threads that run the StreamManager's callbacks
    MaxSequence,    \* bound: sequence numbers given out
    MaxTasks        \* bound: requests and acknowledgements received

ASSUME TypedStreamAssumption ==
    /\ MaxSequence \in Nat
    /\ MaxTasks \in Nat

VARIABLES
    m_sequenceId,   \* next sequence number
    m_buffer,       \* the messages in the priority queue
    sender,         \* what a sender is doing and the number it was given
    task,           \* what a handler is doing, with its argument
    held,           \* held[h]: the message a handler popped last, as a set
    processed,      \* processed[h]: a request's vector of popped messages
    passed,         \* history: messages given to the communicator
    firstUnacked,   \* history: one above the highest acknowledged number
    tasks,          \* history: number of requests and acknowledgements so far
    lifetime        \* "open" or "destroyed"

vars == <<m_sequenceId, m_buffer, sender, task, held, processed, passed,
          firstUnacked, tasks, lifetime>>

IdleSender == [pc |-> "idle", number |-> 0]
IdleTask == [pc |-> "idle", lower |-> 0, upper |-> 0]

Busy == \/ \E t \in Senders : sender[t].pc # "idle"
        \/ \E h \in Handlers : task[h].pc # "idle"

Init ==
    /\ m_sequenceId = 0
    /\ m_buffer = {}
    /\ sender = [t \in Senders |-> IdleSender]
    /\ task = [h \in Handlers |-> IdleTask]
    /\ held = [h \in Handlers |-> {}]
    /\ processed = [h \in Handlers |-> <<>>]
    /\ passed = {}
    /\ firstUnacked = 0
    /\ tasks = 0
    /\ lifetime = "open"

(***************************************************************************)
(* send(), which close() calls with an end-of-stream message: take a       *)
(* number; saveAndPass() then puts a copy into the queue and, after        *)
(* releasing the lock, gives the message to the communicator.              *)
(***************************************************************************)
Take(t) ==
    /\ lifetime = "open"
    /\ sender[t].pc = "idle"
    /\ m_sequenceId < MaxSequence
    /\ m_sequenceId' = m_sequenceId + 1
    /\ sender' = [sender EXCEPT ![t] = [pc |-> "save", number |-> m_sequenceId]]
    /\ UNCHANGED <<m_buffer, task, held, processed, passed, firstUnacked, tasks, lifetime>>

Save(t) ==
    /\ lifetime = "open"
    /\ sender[t].pc = "save"
    /\ m_buffer' = m_buffer \cup {sender[t].number}
    /\ sender' = [sender EXCEPT ![t].pc = "pass"]
    /\ UNCHANGED <<m_sequenceId, task, held, processed, passed, firstUnacked, tasks, lifetime>>

Pass(t) ==
    /\ sender[t].pc = "pass"
    /\ passed' = passed \cup {sender[t].number}
    /\ sender' = [sender EXCEPT ![t] = IdleSender]
    /\ UNCHANGED <<m_sequenceId, m_buffer, task, held, processed, firstUnacked, tasks, lifetime>>

(***************************************************************************)
(* A request or an acknowledgement arrives.  The server may ask for any    *)
(* range; it acknowledges what it has received.                            *)
(***************************************************************************)
Begin(h, pc, lower, upper) ==
    /\ lifetime = "open"
    /\ task[h].pc = "idle"
    /\ tasks < MaxTasks
    /\ tasks' = tasks + 1
    /\ task' = [task EXCEPT ![h] = [pc |-> pc, lower |-> lower, upper |-> upper]]

HandleMessageRequest(h, lower, upper) ==
    /\ lower <= upper
    /\ Begin(h, "request", lower, upper)
    /\ UNCHANGED <<m_sequenceId, m_buffer, sender, held, processed, passed, firstUnacked, lifetime>>

HandleMessageAcknowledgement(h, upper) ==
    /\ 0..upper \subseteq passed
    /\ Begin(h, "ack", 0, upper)
    /\ firstUnacked' = IF upper >= firstUnacked THEN upper + 1 ELSE firstUnacked
    /\ UNCHANGED <<m_sequenceId, m_buffer, sender, held, processed, passed, lifetime>>

(***************************************************************************)
(* The loops over m_buffer of both handlers: try_pop() a message n ...     *)
(***************************************************************************)
IsTop(n) == n \in m_buffer /\ \A k \in m_buffer : k <= n

\* Faulty variant: the message is copied, not removed.
TryCopy(h, n) ==
    /\ task[h].pc \in {"request", "ack"}
    /\ held[h] = {}
    /\ IsTop(n)
    /\ held' = [held EXCEPT ![h] = {n}]
    /\ UNCHANGED <<m_sequenceId, m_buffer, sender, task, processed, passed, firstUnacked, tasks, lifetime>>

TryPop(h, n) ==
    /\ task[h].pc \in {"request", "ack"}
    /\ held[h] = {}
    /\ IsTop(n)
    /\ m_buffer' = m_buffer \ {n}
    /\ held' = [held EXCEPT ![h] = {n}]
    /\ UNCHANGED <<m_sequenceId, sender, task, processed, passed, firstUnacked, tasks, lifetime>>

\* ... or leave the loop because the queue is empty ...
AfterLoop(h) == [task EXCEPT ![h] = IF @.pc = "request" THEN [@ EXCEPT !.pc = "resend"] ELSE IdleTask]

TryPopFails(h) ==
    /\ task[h].pc \in {"request", "ack"}
    /\ held[h] = {}
    /\ m_buffer = {}
    /\ task' = AfterLoop(h)
    /\ UNCHANGED <<m_sequenceId, m_buffer, sender, held, processed, passed, firstUnacked, tasks, lifetime>>

\* Faulty variant: the acknowledged number is taken as the first one to keep.
AboveRangeByOne(h, n) == n > task[h].upper + 1

\* ... or because n is above the range: it is put back.
AboveRange(h, n) == n > task[h].upper

\* Faulty variant: no break after the push.
PutBackAndGoOn(h, n) ==
    /\ n \in held[h]
    /\ AboveRange(h, n)
    /\ m_buffer' = m_buffer \cup {n}
    /\ held' = [held EXCEPT ![h] = {}]
    /\ UNCHANGED <<m_sequenceId, sender, task, processed, passed, firstUnacked, tasks, lifetime>>

PutBack(h, n) ==
    /\ n \in held[h]
    /\ AboveRange(h, n)
    /\ m_buffer' = m_buffer \cup {n}
    /\ held' = [held EXCEPT ![h] = {}]
    /\ task' = AfterLoop(h)
    /\ UNCHANGED <<m_sequenceId, sender, processed, passed, firstUnacked, tasks, lifetime>>

\* Otherwise a request collects it and an acknowledgement destroys it.
Collect(h, n) ==
    /\ n \in held[h]
    /\ ~AboveRange(h, n)
    /\ held' = [held EXCEPT ![h] = {}]
    /\ processed' = IF task[h].pc = "request"
                    THEN [processed EXCEPT ![h] = Append(@, n)]
                    ELSE processed
    /\ UNCHANGED <<m_sequenceId, m_buffer, sender, task, passed, firstUnacked, tasks, lifetime>>

(***************************************************************************)
(* The second loop of a request: every collected message returns to the    *)
(* queue, and those not below the range are passed to the communicator.    *)
(***************************************************************************)
Resend(h) ==
    /\ task[h].pc = "resend"
    /\ processed[h] # <<>>
    /\ LET n == Head(processed[h]) IN
       /\ m_buffer' = m_buffer \cup {n}
       /\ passed' = IF n >= task[h].lower THEN passed \cup {n} ELSE passed
    /\ processed' = [processed EXCEPT ![h] = Tail(@)]
    /\ UNCHANGED <<m_sequenceId, sender, task, held, firstUnacked, tasks, lifetime>>

RequestDone(h) ==
    /\ task[h].pc = "resend"
    /\ processed[h] = <<>>
    /\ task' = [task EXCEPT ![h] = IdleTask]
    /\ UNCHANGED <<m_sequenceId, m_buffer, sender, held, processed, passed, firstUnacked, tasks, lifetime>>

(***************************************************************************)
(* The destructor runs once no thread uses the stream: close(), whatever   *)
(* was sent before.                                                        *)
(***************************************************************************)
Destroy ==
    /\ lifetime = "open"
    /\ ~Busy
    /\ m_buffer' = {}
    /\ passed' = passed \cup {m_sequenceId}
    /\ m_sequenceId' = m_sequenceId + 1
    /\ lifetime' = "destroyed"
    /\ UNCHANGED <<sender, task, held, processed, firstUnacked, tasks>>

SendStep(t) == Save(t) \/ Pass(t)

HandleStep(h) ==
    \/ \E n \in 0..MaxSequence : TryPop(h, n) \/ PutBack(h, n) \/ Collect(h, n)
    \/ TryPopFails(h)
    \/ Resend(h)
    \/ RequestDone(h)

Next ==
    \/ \E t \in Senders : Take(t) \/ SendStep(t)
    \/ \E h \in Handlers, lower, upper \in 0..MaxSequence : HandleMessageRequest(h, lower, upper)
    \/ \E h \in Handlers, upper \in 0..MaxSequence : HandleMessageAcknowledgement(h, upper)
    \/ \E h \in Handlers : HandleStep(h)
    \/ Destroy

Spec == Init /\ [][Next]_vars

\* Threads in the middle of a call go on.
Fairness ==
    /\ \A t \in Senders : WF_vars(SendStep(t))
    /\ \A h \in Handlers : WF_vars(HandleStep(h))

FairSpec == Spec /\ Fairness

-----------------------------------------------------------------------------

(***************************************************************************)
(* Where message n is: how many copies the queue, the handlers that took   *)
(* it out of the queue and the sender that has yet to save it hold.        *)
(***************************************************************************)
InVector(h, n) == \E i \in 1..Len(processed[h]) : processed[h][i] = n

Holders(n) ==
    {t \in Senders : sender[t] = [pc |-> "save", number |-> n]}
    \cup {h \in Handlers : n \in held[h]}
    \cup {h \in Handlers : InVector(h, n)}

(***************************************************************************)
(* While the stream is open, every message that the server has not         *)
(* acknowledged is kept, however sends, requests and acknowledgements      *)
(* interleave on the queue: it can always be resent.                       *)
(***************************************************************************)
UnacknowledgedKept ==
    lifetime = "open" =>
        \A n \in firstUnacked..(m_sequenceId - 1) : n \in m_buffer \/ Holders(n) # {}

(***************************************************************************)
(* No message is in two places: concurrent handlers never both hold it, so *)
(* the queue never gets two copies (try_pop moves, m_sequenceId++).        *)
(***************************************************************************)
OnePlace ==
    \A n \in 0..MaxSequence :
        /\ n \in m_buffer => Holders(n) = {}
        /\ \A x, y \in Holders(n) : x = y

(***************************************************************************)
(* A handler that started always finishes, although others put messages    *)
(* back into the queue it is emptying (both loops over m_buffer).          *)
(***************************************************************************)
HandlersFinish == \A h \in Handlers : task[h].pc # "idle" ~> task[h].pc = "idle"

=============================================================================
