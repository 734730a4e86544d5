---------------------------- MODULE ConnectionPool ----------------------------
(***************************************************************************)
(* The pool of connections to the server (connectionPool.cc): connect()    *)
(* opens them one after another; send(), called from any number of         *)
(* threads, waits for an idle connection, reconnects broken ones in the    *)
(* background and returns a connection to the queue of idle ones when the  *)
(* message is written; stop() closes everything and wakes waiting senders. *)
(*                                                                         *)
(* Sockets and futures are external: a connection breaks, a write or a     *)
(* reconnection fails at any time, within a bound.  A send() call is       *)
(* represented by its message.                                             *)
(***************************************************************************)
EXTENDS Naturals, Sequences, FiniteSets

CONSTANTS
    m_connectionsNumber,    \* size of the pool
    Messages,               \* one for every call of send()
    MayStop,                \* whether somebody calls stop()
    MaxFailures             \* bound: connections broken, failed writes and failures of connect()

ASSUME ConnectionPoolAssumption ==
    /\ m_connectionsNumber \in Nat \ {0}
    /\ MayStop \in BOOLEAN
    /\ MaxFailures \in Nat

VARIABLES
    m_connected,        \* connect() has succeeded and stop() was not called
    m_idleConnections,  \* queue of idle connections
    good,               \* good[c]: the transport of c works
    async,              \* async[c]: what the executor is doing with c
    pool,               \* where connect() and stop() are
    opening,            \* the connection connect() is at
    pc,                 \* pc[m]: where the send() of m is
    client,             \* client[m]: the connection it took last, 0 for none
    answers,            \* answers[m]: how often its callback was called
    failures            \* failures so far

vars == <<m_connected, m_idleConnections, good, async, pool, opening, pc, client, answers, failures>>

m_connections == 1..m_connectionsNumber

Init ==
    /\ m_connected = FALSE
    /\ m_idleConnections = <<>>
    /\ good = [c \in m_connections |-> FALSE]
    /\ async = [c \in m_connections |-> "none"]
    /\ pool = "connect"
    /\ opening = 1
    /\ pc = [m \in Messages |-> "new"]
    /\ client = [m \in Messages |-> 0]
    /\ answers = [m \in Messages |-> 0]
    /\ failures = 0

Fail ==
    /\ failures < MaxFailures
    /\ failures' = failures + 1

\* m_idleConnections.abort(): the threads waiting in pop() leave it.
Aborted == [m \in Messages |-> IF pc[m] = "pop" THEN "aborted" ELSE pc[m]]

(***************************************************************************)
(* connect() opens the connections in turn.  When one fails, close() drops *)
(* the others and the exception leaves connect(), which may be called      *)
(* again.                                                                  *)
(***************************************************************************)
ConnectSucceeds ==
    /\ pool = "connect"
    /\ opening <= m_connectionsNumber
    /\ good' = [good EXCEPT ![opening] = TRUE]
    /\ m_idleConnections' = Append(m_idleConnections, opening)
    /\ opening' = opening + 1
    /\ UNCHANGED <<m_connected, async, pool, pc, client, answers, failures>>

ConnectFails ==
    /\ pool = "connect"
    /\ opening <= m_connectionsNumber
    /\ Fail
    /\ m_idleConnections' = <<>>
    /\ pc' = Aborted
    /\ good' = [c \in m_connections |-> FALSE]
    /\ opening' = 1
    /\ UNCHANGED <<m_connected, async, pool, client, answers>>

ConnectDone ==
    /\ pool = "connect"
    /\ opening = m_connectionsNumber + 1
    /\ m_connected' = TRUE
    /\ pool' = "running"
    /\ UNCHANGED <<m_idleConnections, good, async, opening, pc, client, answers, failures>>

\* Call the callback of m and return from send().
Answer(m) ==
    /\ answers' = [answers EXCEPT ![m] = @ + 1]
    /\ pc' = [pc EXCEPT ![m] = "returned"]

Goto(m, place) == pc' = [pc EXCEPT ![m] = place]

(***************************************************************************)
(* send(): nothing is sent unless the pool is connected.                   *)
(***************************************************************************)
Send(m) ==
    /\ pc[m] = "new"
    /\ IF m_connected
       THEN Goto(m, "loop") /\ UNCHANGED answers
       ELSE Answer(m)
    /\ UNCHANGED <<m_connected, m_idleConnections, good, async, pool, opening, client, failures>>

\* The head of the while loop: has the pool been stopped?
LoopHead(m) ==
    /\ pc[m] = "loop"
    /\ IF m_connected
       THEN Goto(m, "enter") /\ UNCHANGED answers
       ELSE Answer(m)
    /\ UNCHANGED <<m_connected, m_idleConnections, good, async, pool, opening, client, failures>>

\* m_idleConnections.pop(): from now on abort() concerns this thread.
EnterPop(m) ==
    /\ pc[m] = "enter"
    /\ Goto(m, "pop")
    /\ UNCHANGED <<m_connected, m_idleConnections, good, async, pool, opening, client, answers, failures>>

Pop(m) ==
    /\ pc[m] = "pop"
    /\ m_idleConnections # <<>>
    /\ client' = [client EXCEPT ![m] = Head(m_idleConnections)]
    /\ m_idleConnections' = Tail(m_idleConnections)
    /\ Goto(m, "popped")
    /\ UNCHANGED <<m_connected, good, async, pool, opening, answers, failures>>

\* catch (tbb::user_abort)
PopAborted(m) ==
    /\ pc[m] = "aborted"
    /\ Answer(m)
    /\ UNCHANGED <<m_connected, m_idleConnections, good, async, pool, opening, client, failures>>

\* A broken connection is handed to the executor to reconnect.
Reconnect(m) ==
    /\ pc[m] = "popped"
    /\ ~good[client[m]] /\ m_connected
    /\ async' = [async EXCEPT ![client[m]] = "connect"]
    /\ client' = [client EXCEPT ![m] = 0]
    /\ Goto(m, "loop")
    /\ UNCHANGED <<m_connected, m_idleConnections, good, pool, opening, answers, failures>>

NoReconnect(m) ==
    /\ pc[m] = "popped"
    /\ good[client[m]] \/ ~m_connected
    /\ Goto(m, "while")
    /\ UNCHANGED <<m_connected, m_idleConnections, good, async, pool, opening, client, answers, failures>>


\* The condition of the while loop looks at the connection once more.
LoopCondition(m) ==
    /\ pc[m] = "while"
    /\ Goto(m, IF good[client[m]] THEN "write" ELSE "loop")
    /\ UNCHANGED <<m_connected, m_idleConnections, good, async, pool, opening, client, answers, failures>>

\* Faulty variant: the connection is returned to the queue before it is written.
WriteReturnsFirst(m) ==
    /\ pc[m] = "write"
    /\ IF good[client[m]]
       THEN /\ Goto(m, "written")
            /\ async' = [async EXCEPT ![client[m]] = "write"]
            /\ m_idleConnections' = Append(m_idleConnections, client[m])
            /\ UNCHANGED answers
       ELSE /\ Answer(m)
            /\ UNCHANGED <<async, m_idleConnections>>
    /\ UNCHANGED <<m_connected, good, pool, opening, client, failures>>

\* And so does the test before the write.
Write(m) ==
    /\ pc[m] = "write"
    /\ IF good[client[m]]
       THEN /\ Goto(m, "written")
            /\ async' = [async EXCEPT ![client[m]] = "write"]
            /\ UNCHANGED answers
       ELSE /\ Answer(m)
            /\ UNCHANGED async
    /\ UNCHANGED <<m_connected, m_idleConnections, good, pool, opening, client, failures>>

(***************************************************************************)
(* Continuations of the futures of write() and connect().  An exception    *)
(* skips those of send(), which have no onError.  What is being written    *)
(* when the connection closes may have got through or not.                 *)
(***************************************************************************)
\* Faulty variant: the connection is not returned to the queue.
WriteKeepsConnection(m) ==
    /\ pc[m] = "written"
    /\ async[client[m]] = "write"
    /\ Answer(m)
    /\ async' = [async EXCEPT ![client[m]] = "none"]
    /\ UNCHANGED <<m_connected, m_idleConnections, good, pool, opening, client, failures>>

WriteSucceeds(m) ==
    /\ pc[m] = "written"
    /\ async[client[m]] = "write"
    /\ Answer(m)
    /\ async' = [async EXCEPT ![client[m]] = "emplace"]
    /\ UNCHANGED <<m_connected, m_idleConnections, good, pool, opening, client, failures>>

WriteFails(m) ==
    /\ pc[m] = "written"
    /\ async[client[m]] = "write"
    /\ IF good[client[m]] THEN Fail ELSE UNCHANGED failures
    /\ good' = [good EXCEPT ![client[m]] = FALSE]
    /\ async' = [async EXCEPT ![client[m]] = "none"]
    /\ Goto(m, "failed")
    /\ UNCHANGED <<m_connected, m_idleConnections, pool, opening, client, answers>>

Emplace(c) ==
    /\ async[c] = "emplace"
    /\ async' = [async EXCEPT ![c] = "none"]
    /\ m_idleConnections' = Append(m_idleConnections, c)
    /\ UNCHANGED <<m_connected, good, pool, opening, pc, client, answers, failures>>

ReconnectSucceeds(c) ==
    /\ async[c] = "connect"
    /\ async' = [async EXCEPT ![c] = "none"]
    /\ good' = [good EXCEPT ![c] = m_connected]
    /\ m_idleConnections' = IF m_connected THEN Append(m_idleConnections, c) ELSE m_idleConnections
    /\ UNCHANGED <<m_connected, pool, opening, pc, client, answers, failures>>

\* A connection whose reconnection fails is not queued again, so this needs no bound.
ReconnectFails(c) ==
    /\ async[c] = "connect"
    /\ async' = [async EXCEPT ![c] = "none"]
    /\ UNCHANGED <<m_connected, m_idleConnections, good, pool, opening, pc, client, answers, failures>>

\* The server or the network closes a connection.
Break(c) ==
    /\ good[c]
    /\ Fail
    /\ good' = [good EXCEPT ![c] = FALSE]
    /\ UNCHANGED <<m_connected, m_idleConnections, async, pool, opening, pc, client, answers>>

(***************************************************************************)
(* stop(): reset the flag, then close(): clear the queue, abort the waits, *)
(* close the pipelines.                                                    *)
(***************************************************************************)
Stop ==
    /\ MayStop
    /\ m_connected
    /\ m_connected' = FALSE
    /\ pool' = "clear"
    /\ UNCHANGED <<m_idleConnections, good, async, opening, pc, client, answers, failures>>

Clear ==
    /\ pool = "clear"
    /\ m_idleConnections' = <<>>
    /\ pool' = "abort"
    /\ UNCHANGED <<m_connected, good, async, opening, pc, client, answers, failures>>


Abort ==
    /\ pool = "abort"
    /\ pc' = Aborted
    /\ pool' = "close"
    /\ UNCHANGED <<m_connected, m_idleConnections, good, async, opening, client, answers, failures>>

ClosePipelines ==
    /\ pool = "close"
    /\ good' = [c \in m_connections |-> FALSE]
    /\ pool' = "stopped"
    /\ UNCHANGED <<m_connected, m_idleConnections, async, opening, pc, client, answers, failures>>

SendStep(m) ==
    \/ LoopHead(m) \/ EnterPop(m) \/ Pop(m) \/ PopAborted(m)
    \/ Reconnect(m) \/ NoReconnect(m) \/ LoopCondition(m) \/ Write(m)

Outcome(m) == WriteSucceeds(m) \/ WriteFails(m)
Continuation(c) == Emplace(c) \/ ReconnectSucceeds(c) \/ ReconnectFails(c)
PoolStep == ConnectSucceeds \/ ConnectDone \/ Clear \/ Abort \/ ClosePipelines

Next ==
    \/ PoolStep
    \/ ConnectFails
    \/ Stop
    \/ \E m \in Messages : Send(m) \/ SendStep(m) \/ Outcome(m)
    \/ \E c \in m_connections : Continuation(c) \/ Break(c)

Spec == Init /\ [][Next]_vars

(***************************************************************************)
(* Threads in send(), connect() or stop() go on, and futures complete.     *)
(* The bounded queue serves pop() in the order of arrival, so a waiting    *)
(* thread is not passed over for ever.                                     *)
(***************************************************************************)
FairSpec ==
    /\ Spec
    /\ WF_vars(PoolStep)
    /\ \A m \in Messages : SF_vars(SendStep(m)) /\ WF_vars(Outcome(m))
    /\ \A c \in m_connections : WF_vars(Continuation(c))

-----------------------------------------------------------------------------

\* Who can use connection c: places in the queue, senders, the executor.
IdlePlaces(c) == {i \in 1..Len(m_idleConnections) : m_idleConnections[i] = c}
Users(c) == {m \in Messages : client[m] = c /\ pc[m] \in {"popped", "while", "write"}}
Uses(c) == Cardinality(IdlePlaces(c)) + Cardinality(Users(c)) + (IF async[c] = "none" THEN 0 ELSE 1)

(***************************************************************************)
(* No connection is used by two senders at once, queued twice, or written  *)
(* to while it is being reconnected (send(), stop(), and continuations).   *)
(***************************************************************************)
ExclusiveUse == \A c \in m_connections : Uses(c) <= 1

(***************************************************************************)
(* As long as nothing has failed, no connection gets lost: each is idle,   *)
(* with a sender or with the executor (send() and its continuations).      *)
(***************************************************************************)
KeptWithoutFailures ==
    m_connected /\ failures = 0 => \A c \in m_connections : Uses(c) = 1



=============================================================================
