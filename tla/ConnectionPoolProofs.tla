------------------------- MODULE ConnectionPoolProofs -------------------------
(***************************************************************************)
(* Proof that ConnectionPool gives a connection to one user at a time, for *)
(* any number of connections, messages and failures.                       *)
(***************************************************************************)
EXTENDS ConnectionPool, FiniteSetTheorems, TLAPS

Places == {"new", "loop", "enter", "pop", "aborted", "popped", "while", "write", "written",
           "failed", "returned"}

TypeOK ==
    /\ m_idleConnections \in Seq(m_connections)
    /\ async \in [m_connections -> {"none", "connect", "write", "emplace"}]
    /\ opening \in Nat \ {0}
    /\ pc \in [Messages -> Places]
    /\ client \in [Messages -> m_connections \cup {0}]

\* The send() of m is between pop() and the end of its loop with connection c.
UsedBy(m, c) == client[m] = c /\ pc[m] \in {"popped", "while", "write"}

\* Connections in the queue are there once and nobody uses them.
QueuedOnce ==
    \A i, j \in 1..Len(m_idleConnections) : m_idleConnections[i] = m_idleConnections[j] => i = j
QueuedFree ==
    \A i \in 1..Len(m_idleConnections) :
        /\ async[m_idleConnections[i]] = "none"
        /\ \A m \in Messages : ~UsedBy(m, m_idleConnections[i])

\* A connection has one sender, and the executor leaves it to the sender.
OneSender == \A m, n \in Messages, c \in m_connections : UsedBy(m, c) /\ UsedBy(n, c) => m = n
SenderAlone == \A m \in Messages, c \in m_connections : UsedBy(m, c) => async[c] = "none"

\* Until connect() is done nobody sends, and it queues each connection once.
Opening ==
    pool = "connect" =>
        /\ ~m_connected
        /\ \A m \in Messages : pc[m] \in {"new", "returned"}
        /\ \A c \in m_connections : async[c] = "none"
        /\ \A i \in 1..Len(m_idleConnections) : m_idleConnections[i] < opening

(***************************************************************************)
(* The inductive invariant.  ExclusiveUse counts users; that a connection  *)
(* stays with one while it moves from the queue to a sender, to the        *)
(* executor and back says that each of the three excludes the others.      *)
(***************************************************************************)
IInv == TypeOK /\ QueuedOnce /\ QueuedFree /\ OneSender /\ SenderAlone /\ Opening

-----------------------------------------------------------------------------

\* Every step keeps the types.
LEMMA TypesKept == TypeOK /\ [Next]_vars => TypeOK'
<1> SUFFICES ASSUME TypeOK, [Next]_vars PROVE TypeOK'
  OBVIOUS
<1>1. CASE UNCHANGED vars
  BY <1>1 DEF vars, TypeOK
<1>2. CASE PoolStep \/ ConnectFails \/ Stop
  <2>1. CASE ConnectSucceeds
    <3>1. opening \in m_connections
      BY <2>1, ConnectionPoolAssumption DEF ConnectSucceeds, TypeOK, m_connections
    <3> QED BY <2>1, <3>1 DEF ConnectSucceeds, TypeOK
  <2>2. CASE ConnectFails
    BY <2>2 DEF ConnectFails, Aborted, TypeOK, Places
  <2>3. CASE ConnectDone
    BY <2>3 DEF ConnectDone, TypeOK
  <2>4. CASE Stop
    BY <2>4 DEF Stop, TypeOK
  <2>5. CASE Clear
    BY <2>5 DEF Clear, TypeOK
  <2>6. CASE Abort
    BY <2>6 DEF Abort, Aborted, TypeOK, Places
  <2>7. CASE ClosePipelines
    BY <2>7 DEF ClosePipelines, TypeOK
  <2> QED BY <1>2, <2>1, <2>2, <2>3, <2>4, <2>5, <2>6, <2>7 DEF PoolStep
<1>3. ASSUME NEW m \in Messages, Send(m) \/ SendStep(m) \/ Outcome(m)
      PROVE  TypeOK'
  <2>1. CASE Send(m) \/ LoopHead(m) \/ EnterPop(m) \/ PopAborted(m) \/ NoReconnect(m)
             \/ LoopCondition(m)
    BY <2>1 DEF Send, LoopHead, EnterPop, PopAborted, NoReconnect, LoopCondition, Answer, Goto,
                TypeOK, Places
  <2>2. CASE Pop(m)
    BY <2>2 DEF Pop, Goto, TypeOK, Places
  <2>3. CASE Reconnect(m)
    BY <2>3 DEF Reconnect, Goto, TypeOK, Places
  <2>4. CASE Write(m)
    BY <2>4 DEF Write, Goto, Answer, TypeOK, Places
  <2>5. CASE WriteSucceeds(m)
    BY <2>5 DEF WriteSucceeds, Answer, TypeOK, Places
  <2>6. CASE WriteFails(m)
    BY <2>6 DEF WriteFails, Goto, TypeOK, Places
  <2> QED BY <1>3, <2>1, <2>2, <2>3, <2>4, <2>5, <2>6 DEF SendStep, Outcome
<1>4. ASSUME NEW c \in m_connections, Continuation(c) \/ Break(c)
      PROVE  TypeOK'
  <2>1. CASE Emplace(c)
    BY <2>1 DEF Emplace, TypeOK
  <2>2. CASE ReconnectSucceeds(c)
    BY <2>2 DEF ReconnectSucceeds, TypeOK
  <2>3. CASE ReconnectFails(c)
    BY <2>3 DEF ReconnectFails, TypeOK
  <2>4. CASE Break(c)
    BY <2>4 DEF Break, TypeOK
  <2> QED BY <1>4, <2>1, <2>2, <2>3, <2>4 DEF Continuation
<1> QED BY <1>1, <1>2, <1>3, <1>4 DEF Next

-----------------------------------------------------------------------------

\* Nobody gets a connection by the step, and the executor takes none on.
Quiet ==
    /\ \A m \in Messages, c \in m_connections : UsedBy(m, c)' => UsedBy(m, c)
    /\ \A c \in m_connections : async[c] = "none" => async'[c] = "none"

\* Who may use a connection, apart from connect().
Exclusion == QueuedOnce /\ QueuedFree /\ OneSender /\ SenderAlone

\* A quiet step that leaves or clears the queue keeps users apart.
LEMMA QuietKeeps ==
    ASSUME TypeOK, TypeOK', Exclusion, Quiet,
           UNCHANGED m_idleConnections \/ m_idleConnections' = <<>>
    PROVE  Exclusion'
<1>1. OneSender' /\ SenderAlone'
  BY DEF Exclusion, OneSender, SenderAlone, Quiet
<1>2. CASE m_idleConnections' = <<>>
  BY <1>1, <1>2 DEF Exclusion, QueuedOnce, QueuedFree
<1>3. CASE UNCHANGED m_idleConnections
  <2>1. \A i \in 1..Len(m_idleConnections) : m_idleConnections[i] \in m_connections
    BY DEF TypeOK
  <2>2. QueuedFree'
    BY <1>3, <2>1 DEF Exclusion, QueuedFree, Quiet
  <2>3. QueuedOnce'
    BY <1>3 DEF Exclusion, QueuedOnce
  <2> QED BY <1>1, <2>2, <2>3 DEF Exclusion
<1> QED BY <1>2, <1>3

\* A connection that nobody uses and that is not in the queue is put there.
LEMMA AppendKeeps ==
    ASSUME TypeOK, TypeOK', Exclusion, Quiet,
           NEW c \in m_connections,
           m_idleConnections' = Append(m_idleConnections, c),
           \A i \in 1..Len(m_idleConnections) : m_idleConnections[i] # c,
           async'[c] = "none",
           \A m \in Messages : ~UsedBy(m, c)
    PROVE  Exclusion'
<1>1. OneSender' /\ SenderAlone'
  BY DEF Exclusion, OneSender, SenderAlone, Quiet
<1>2. /\ Len(m_idleConnections') = Len(m_idleConnections) + 1
      /\ \A i \in 1..Len(m_idleConnections) :
            m_idleConnections'[i] = m_idleConnections[i] /\ m_idleConnections[i] \in m_connections
      /\ m_idleConnections'[Len(m_idleConnections) + 1] = c
      /\ Len(m_idleConnections) \in Nat
  BY DEF TypeOK
<1>3. \A i \in 1..Len(m_idleConnections') :
         i \in 1..Len(m_idleConnections) \/ i = Len(m_idleConnections) + 1
  BY <1>2
<1>4. QueuedOnce'
  BY <1>2, <1>3 DEF Exclusion, QueuedOnce
<1>5. QueuedFree'
  <2> SUFFICES ASSUME NEW i \in 1..Len(m_idleConnections')
               PROVE  /\ async'[m_idleConnections'[i]] = "none"
                      /\ \A m \in Messages : ~UsedBy(m, m_idleConnections[i])'
    BY DEF QueuedFree, UsedBy
  <2>1. CASE i \in 1..Len(m_idleConnections)
    BY <1>2, <2>1 DEF Exclusion, QueuedFree, Quiet, UsedBy
  <2>2. CASE i = Len(m_idleConnections) + 1
    BY <1>2, <2>2 DEF Quiet, UsedBy
  <2> QED BY <1>3, <2>1, <2>2
<1> QED BY <1>1, <1>4, <1>5 DEF Exclusion

\* The first connection of the queue goes to the send() of m.
LEMMA PopKeeps ==
    ASSUME TypeOK, TypeOK', Exclusion, NEW m \in Messages, Pop(m)
    PROVE  Exclusion'
<1> DEFINE h == m_idleConnections[1]
<1>1. /\ Len(m_idleConnections) \in Nat /\ Len(m_idleConnections) >= 1
      /\ h \in m_connections
      /\ Head(m_idleConnections) = h
      /\ Len(m_idleConnections') = Len(m_idleConnections) - 1
      /\ \A i \in 1..Len(m_idleConnections') :
            /\ i + 1 \in 1..Len(m_idleConnections)
            /\ m_idleConnections'[i] = m_idleConnections[i + 1]
            /\ m_idleConnections[i + 1] \in m_connections
  BY DEF Pop, TypeOK
<1>2. async[h] = "none" /\ \A n \in Messages : ~UsedBy(n, h)
  BY <1>1 DEF Exclusion, QueuedFree
<1>3. \A i \in 1..Len(m_idleConnections') : m_idleConnections'[i] # h
  BY <1>1 DEF Exclusion, QueuedOnce
<1> HIDE DEF h
<1>4. /\ async' = async
      /\ \A n \in Messages, c \in m_connections :
            UsedBy(n, c)' => UsedBy(n, c) \/ (n = m /\ c = h)
  BY <1>1 DEF Pop, Goto, TypeOK, UsedBy
<1>5. QueuedOnce'
  BY <1>1 DEF Exclusion, QueuedOnce
<1>6. QueuedFree'
  BY <1>1, <1>3, <1>4 DEF Exclusion, QueuedFree
<1>7. OneSender'
  BY <1>2, <1>4 DEF Exclusion, OneSender
<1>8. SenderAlone'
  BY <1>2, <1>4 DEF Exclusion, SenderAlone
<1> QED BY <1>5, <1>6, <1>7, <1>8 DEF Exclusion

\* The send() of m leaves its connection to the executor.
LEMMA HandOver ==
    ASSUME TypeOK, TypeOK', Exclusion, NEW m \in Messages, NEW c \in m_connections,
           UsedBy(m, c), UNCHANGED m_idleConnections,
           \A n \in Messages, d \in m_connections : UsedBy(n, d)' => UsedBy(n, d) /\ n # m,
           \A d \in m_connections : d # c => async'[d] = async[d]
    PROVE  Exclusion'
<1>1. \A i \in 1..Len(m_idleConnections) :
         m_idleConnections[i] \in m_connections /\ m_idleConnections[i] # c
  BY DEF TypeOK, Exclusion, QueuedFree
<1>2. QueuedOnce'
  BY DEF Exclusion, QueuedOnce
<1>3. QueuedFree'
  BY <1>1 DEF Exclusion, QueuedFree
<1>4. OneSender'
  BY DEF Exclusion, OneSender
<1>5. SenderAlone'
  BY DEF Exclusion, SenderAlone, OneSender
<1> QED BY <1>2, <1>3, <1>4, <1>5 DEF Exclusion

\* Until it is done nothing disturbs connect().
LEMMA OpeningKept == TypeOK /\ Opening /\ [Next]_vars => Opening'
<1> SUFFICES ASSUME TypeOK, Opening, [Next]_vars, pool' = "connect"
             PROVE  /\ ~m_connected'
                    /\ \A m \in Messages : pc'[m] \in {"new", "returned"}
                    /\ \A c \in m_connections : async'[c] = "none"
                    /\ \A i \in 1..Len(m_idleConnections') : m_idleConnections'[i] < opening'
  BY DEF Opening
<1>1. pool = "connect"
  BY DEF Next, vars, PoolStep, ConnectSucceeds, ConnectDone, Clear, Abort, ClosePipelines,
         ConnectFails, Stop, Send, SendStep, LoopHead, EnterPop, Pop, PopAborted, Reconnect,
         NoReconnect, LoopCondition, Write, Outcome, WriteSucceeds, WriteFails, Continuation,
         Emplace, ReconnectSucceeds, ReconnectFails, Break
<1>2. /\ ~m_connected
      /\ \A m \in Messages : pc[m] \in {"new", "returned"}
      /\ \A c \in m_connections : async[c] = "none"
      /\ \A i \in 1..Len(m_idleConnections) : m_idleConnections[i] < opening
  BY <1>1 DEF Opening
<1>3. CASE UNCHANGED vars
  BY <1>2, <1>3 DEF vars
<1>4. CASE PoolStep \/ ConnectFails \/ Stop
  <2>1. CASE ConnectSucceeds
    <3>1. \A i \in 1..Len(m_idleConnections) : m_idleConnections[i] \in Nat
      BY DEF TypeOK, m_connections
    <3>2. \A i \in 1..Len(m_idleConnections') : m_idleConnections'[i] < opening'
      BY <1>2, <2>1, <3>1 DEF ConnectSucceeds, TypeOK
    <3> QED BY <1>2, <2>1, <3>2 DEF ConnectSucceeds
  <2>2. CASE ConnectFails
    BY <1>2, <2>2 DEF ConnectFails, Aborted
  <2> QED
    BY <1>1, <1>2, <1>4, <2>1, <2>2 DEF PoolStep, ConnectDone, Stop, Clear, Abort, ClosePipelines
<1>5. ASSUME NEW m \in Messages, Send(m) \/ SendStep(m) \/ Outcome(m)
      PROVE  /\ pc[m] = "new" /\ Send(m)
  BY <1>2, <1>5 DEF SendStep, LoopHead, EnterPop, Pop, PopAborted, Reconnect, NoReconnect,
                    LoopCondition, Write, Outcome, WriteSucceeds, WriteFails, Send
<1>6. ASSUME NEW m \in Messages, Send(m)
      PROVE  /\ pc' = [pc EXCEPT ![m] = "returned"]
             /\ UNCHANGED <<m_connected, m_idleConnections, async, opening>>
  BY <1>2, <1>6 DEF Send, Answer
<1>7. ASSUME NEW c \in m_connections, Continuation(c) \/ Break(c)
      PROVE  UNCHANGED <<m_connected, m_idleConnections, async, opening, pc>>
  BY <1>2, <1>7 DEF Continuation, Emplace, ReconnectSucceeds, ReconnectFails, Break
<1>8. CASE \E m \in Messages : Send(m) \/ SendStep(m) \/ Outcome(m)
  BY <1>2, <1>5, <1>6, <1>8 DEF TypeOK
<1>9. CASE \E c \in m_connections : Continuation(c) \/ Break(c)
  BY <1>2, <1>7, <1>9
<1> QED BY <1>3, <1>4, <1>8, <1>9 DEF Next

\* Every step keeps the users of a connection apart.
LEMMA ExclusionKept == TypeOK /\ TypeOK' /\ Exclusion /\ Opening /\ [Next]_vars => Exclusion'
<1> SUFFICES ASSUME TypeOK, TypeOK', Exclusion, Opening, [Next]_vars PROVE Exclusion'
  OBVIOUS
<1>1. CASE UNCHANGED vars
  BY <1>1, QuietKeeps DEF vars, Quiet, UsedBy
<1>2. CASE PoolStep \/ ConnectFails \/ Stop
  <2>1. CASE ConnectSucceeds
    <3>1. opening \in m_connections
      BY <2>1, ConnectionPoolAssumption DEF ConnectSucceeds, TypeOK, m_connections
    <3>2. /\ \A i \in 1..Len(m_idleConnections) : m_idleConnections[i] < opening
          /\ async[opening] = "none"
          /\ \A m \in Messages : pc[m] \in {"new", "returned"}
      BY <2>1, <3>1 DEF ConnectSucceeds, Opening
    <3>3. \A i \in 1..Len(m_idleConnections) : m_idleConnections[i] # opening
      BY <3>2 DEF TypeOK
    <3>4. Quiet
      BY <2>1 DEF ConnectSucceeds, Quiet, UsedBy
    <3>5. \A m \in Messages : ~UsedBy(m, opening)
      BY <3>2 DEF UsedBy
    <3>6. m_idleConnections' = Append(m_idleConnections, opening) /\ async'[opening] = "none"
      BY <2>1, <3>2 DEF ConnectSucceeds
    <3> QED BY <3>1, <3>3, <3>4, <3>5, <3>6, AppendKeeps
  <2>2. CASE ConnectFails \/ Abort
    <3>1. Quiet
      BY <2>2 DEF ConnectFails, Abort, Aborted, Quiet, UsedBy
    <3>2. UNCHANGED m_idleConnections \/ m_idleConnections' = <<>>
      BY <2>2 DEF ConnectFails, Abort
    <3> QED BY <3>1, <3>2, QuietKeeps
  <2>3. CASE ConnectDone \/ Stop \/ Clear \/ ClosePipelines
    <3>1. Quiet
      BY <2>3 DEF ConnectDone, Stop, Clear, ClosePipelines, Quiet, UsedBy
    <3>2. UNCHANGED m_idleConnections \/ m_idleConnections' = <<>>
      BY <2>3 DEF ConnectDone, Stop, Clear, ClosePipelines
    <3> QED BY <3>1, <3>2, QuietKeeps
  <2> QED BY <1>2, <2>1, <2>2, <2>3 DEF PoolStep
<1>3. ASSUME NEW m \in Messages, Send(m) \/ SendStep(m) \/ Outcome(m)
      PROVE  Exclusion'
  <2>1. CASE Pop(m)
    BY <2>1, PopKeeps
  <2>2. CASE Send(m) \/ LoopHead(m) \/ EnterPop(m) \/ PopAborted(m)
    <3>1. Quiet
      BY <2>2 DEF Send, LoopHead, EnterPop, PopAborted, Goto, Answer, Quiet, UsedBy, TypeOK
    <3>2. UNCHANGED m_idleConnections
      BY <2>2 DEF Send, LoopHead, EnterPop, PopAborted
    <3> QED BY <3>1, <3>2, QuietKeeps
  <2>3. CASE NoReconnect(m) \/ LoopCondition(m)
    <3>1. Quiet
      BY <2>3 DEF NoReconnect, LoopCondition, Goto, Quiet, UsedBy, TypeOK
    <3>2. UNCHANGED m_idleConnections
      BY <2>3 DEF NoReconnect, LoopCondition
    <3> QED BY <3>1, <3>2, QuietKeeps
  <2>4. CASE Reconnect(m) \/ Write(m)
    <3>1. /\ UNCHANGED m_idleConnections
          /\ pc[m] \in {"popped", "write"}
      BY <2>4 DEF Reconnect, Write
    <3>2. \A n \in Messages, d \in m_connections : UsedBy(n, d)' => UsedBy(n, d) /\ n # m
      BY <2>4 DEF Reconnect, Write, Goto, Answer, UsedBy, TypeOK
    <3>3. \A d \in m_connections : d # client[m] => async'[d] = async[d]
      BY <2>4 DEF Reconnect, Write, TypeOK
    <3>4. CASE client[m] \in m_connections
      <4>1. UsedBy(m, client[m])
        BY <3>1 DEF UsedBy
      <4> QED BY <3>1, <3>2, <3>3, <3>4, <4>1, HandOver
    <3>5. CASE client[m] \notin m_connections
      <4>1. Quiet
        BY <3>2, <3>3, <3>5 DEF Quiet
      <4> QED BY <3>1, <4>1, QuietKeeps
    <3> QED BY <3>4, <3>5
  <2>5. CASE Outcome(m)
    <3>1. Quiet
      BY <2>5 DEF Outcome, WriteSucceeds, WriteFails, Goto, Answer, Quiet, UsedBy, TypeOK
    <3>2. UNCHANGED m_idleConnections
      BY <2>5 DEF Outcome, WriteSucceeds, WriteFails
    <3> QED BY <3>1, <3>2, QuietKeeps
  <2> QED BY <1>3, <2>1, <2>2, <2>3, <2>4, <2>5 DEF SendStep
<1>4. ASSUME NEW c \in m_connections, Continuation(c) \/ Break(c)
      PROVE  Exclusion'
  <2>1. Quiet
    BY <1>4 DEF Continuation, Emplace, ReconnectSucceeds, ReconnectFails, Break, Quiet, UsedBy, TypeOK
  <2>2. CASE UNCHANGED m_idleConnections
    BY <2>1, <2>2, QuietKeeps
  <2>3. CASE ~UNCHANGED m_idleConnections
    <3>1. /\ m_idleConnections' = Append(m_idleConnections, c)
          /\ async[c] # "none"
          /\ async'[c] = "none"
      BY <1>4, <2>3 DEF Continuation, Emplace, ReconnectSucceeds, ReconnectFails, Break, TypeOK
    <3>2. \A i \in 1..Len(m_idleConnections) : m_idleConnections[i] # c
      BY <3>1 DEF Exclusion, QueuedFree
    <3>3. \A m \in Messages : ~UsedBy(m, c)
      BY <3>1 DEF Exclusion, SenderAlone
    <3> QED BY <2>1, <3>1, <3>2, <3>3, AppendKeeps
  <2> QED BY <2>2, <2>3
<1> QED BY <1>1, <1>2, <1>3, <1>4 DEF Next

-----------------------------------------------------------------------------

(***************************************************************************)
(* IInv holds in every state: whatever connect(), the send() calls, their  *)
(* continuations and stop() do, in any order.                              *)
(***************************************************************************)
THEOREM Invariance == Spec => []IInv
<1>1. Init => IInv
  BY ConnectionPoolAssumption
  DEF Init, IInv, TypeOK, QueuedOnce, QueuedFree, OneSender, SenderAlone, Opening, UsedBy, Places,
      m_connections
<1>2. IInv /\ [Next]_vars => IInv'
  BY TypesKept, OpeningKept, ExclusionKept DEF IInv, Exclusion
<1> QED BY <1>1, <1>2, PTL DEF Spec

\* Cardinalities of the sets that ExclusiveUse adds up.
LEMMA AtMostOne == ASSUME NEW S, \A x, y \in S : x = y
                   PROVE  (Cardinality(S) = 0 /\ S = {}) \/ Cardinality(S) = 1
<1>1. CASE S = {}
  BY <1>1, FS_EmptySet
<1>2. CASE S # {}
  <2>1. PICK x : S = {x}
    BY <1>2
  <2> QED BY <2>1, FS_Singleton
<1> QED BY <1>1, <1>2

(***************************************************************************)
(* At any time a connection is in one place of the queue, or with one      *)
(* sender, or with the executor (send(), its continuations and close()).   *)
(***************************************************************************)
THEOREM Exclusive == Spec => []ExclusiveUse
<1>1. IInv => ExclusiveUse
  <2> SUFFICES ASSUME IInv, NEW c \in m_connections PROVE Uses(c) <= 1
    BY DEF ExclusiveUse
  <2>1. \A i, j \in IdlePlaces(c) : i = j
    BY DEF IInv, QueuedOnce, IdlePlaces
  <2>2. \A m, n \in Users(c) : m = n
    BY DEF IInv, OneSender, Users, UsedBy
  <2>3. (Cardinality(IdlePlaces(c)) = 0 /\ IdlePlaces(c) = {}) \/ Cardinality(IdlePlaces(c)) = 1
    BY <2>1, AtMostOne
  <2>4. (Cardinality(Users(c)) = 0 /\ Users(c) = {}) \/ Cardinality(Users(c)) = 1
    BY <2>2, AtMostOne
  <2>5. IdlePlaces(c) # {} => Users(c) = {} /\ async[c] = "none"
    BY DEF IInv, QueuedFree, IdlePlaces, Users, UsedBy
  <2>6. Users(c) # {} => async[c] = "none"
    BY DEF IInv, SenderAlone, Users, UsedBy
  <2>7. Cardinality({}) = 0
    BY FS_EmptySet
  <2> QED BY <2>3, <2>4, <2>5, <2>6, <2>7 DEF Uses
<1> QED BY <1>1, Invariance, PTL

=============================================================================
