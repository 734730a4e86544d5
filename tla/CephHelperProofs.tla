--------------------------- MODULE CephHelperProofs ---------------------------
(***************************************************************************)
(* Proofs about the connection of CephHelper, for any number of threads    *)
(* and of retries.                                                         *)
(***************************************************************************)
EXTENDS CephHelper, TLAPS

\* Where an operation may be.
Places == {"idle", "connecting", "connected", "read", "reading", "write", "writing", "remove",
           "unlockRemove", "trunc", "write_full", "unlockTrunc", "last", "getxattr", "rmxattr",
           "getxattrs", "create", "replace", "setxattr"}

TypeOK ==
    /\ worker \in [Workers -> [pc : Places, tries : Nat]]
    /\ cluster \in 0..7
    /\ m_connected \in BOOLEAN
    /\ mutex \in BOOLEAN

\* An operation is past connect().
Beyond(w) == worker[w].pc \notin {"idle", "connecting"}

(***************************************************************************)
(* The inductive invariant.  The striper is called once m_connected was    *)
(* seen, which is set when the last stage is done; the operation that      *)
(* connects is the only one, holds the mutex and found m_connected unset,  *)
(* so nothing is past connect() while stages are set up or undone.         *)
(***************************************************************************)
IInv ==
    /\ TypeOK
    /\ m_connected => cluster = 7
    /\ \A w \in Workers : Beyond(w) => m_connected
    /\ \A w \in Workers : At(w, "connecting") => mutex /\ ~m_connected /\ cluster < 7
    /\ \A v, w \in Workers : At(v, "connecting") /\ At(w, "connecting") => v = w

\* A step of an operation past connect(): it stays there or answers, and
\* leaves the connection as it is.
OperationStep(w) ==
    /\ Beyond(w)
    /\ worker' \in [Workers -> [pc : Places, tries : Nat]]
    /\ worker'[w].pc # "connecting"
    /\ \A v \in Workers \ {w} : worker'[v] = worker[v]
    /\ UNCHANGED connectionVars

-----------------------------------------------------------------------------

\* connect() has seven stages (cephHelper.cc, connect).
LEMMA SevenStages == Len(Stages) = 7
BY DEF Stages

\* The record of a thread between operations.
LEMMA IdleRecord == Idle \in [pc : Places, tries : Nat] /\ Idle.pc = "idle"
BY DEF Idle, Places

\* Goto, Again and Answer write the record of one thread.
LEMMA RecordSteps ==
    ASSUME TypeOK, NEW w \in Workers, Beyond(w), UNCHANGED connectionVars
    PROVE  /\ \A pc \in Places : pc # "connecting" /\ Goto(w, pc) => OperationStep(w)
           /\ Again(w) => OperationStep(w)
           /\ Answer(w) => OperationStep(w)
<1>1. \A pc \in Places : pc # "connecting" /\ Goto(w, pc) => OperationStep(w)
  BY DEF Goto, OperationStep, TypeOK
<1>2. Again(w) => OperationStep(w)
  BY DEF Again, OperationStep, TypeOK, Beyond
<1>3. Answer(w) => OperationStep(w)
  BY IdleRecord DEF Answer, OperationStep, TypeOK
<1> QED BY <1>1, <1>2, <1>3

\* The second lambda of an operation starts (Begin, Canceled).
LEMMA BeginStep ==
    ASSUME TypeOK, NEW w \in Workers
    PROVE  /\ \A pc \in Places : pc # "connecting" /\ Begin(w, pc) => OperationStep(w)
           /\ Canceled(w) => OperationStep(w)
<1>1. At(w, "connected") => Beyond(w)
  BY DEF At, Beyond
<1>2. ASSUME NEW pc \in Places, pc # "connecting", Begin(w, pc)
      PROVE  OperationStep(w)
  BY <1>1, <1>2, RecordSteps DEF Begin
<1>3. ASSUME Canceled(w) PROVE OperationStep(w)
  BY <1>1, <1>3, RecordSteps DEF Canceled
<1> QED BY <1>2, <1>3

\* read and write: the striper's lock is taken and given back (Striped).
LEMMA StripedStep ==
    ASSUME TypeOK, NEW w \in Workers,
           NEW pc \in Places \ {"idle", "connecting"},
           NEW locked \in Places \ {"idle", "connecting"},
           Striped(w, pc, locked)
    PROVE  OperationStep(w)
<1>1. CASE Begin(w, pc)
  BY <1>1, BeginStep
<1>2. CASE At(w, pc) /\ worker' = [worker EXCEPT ![w].pc = locked] /\ UNCHANGED connectionVars
  BY <1>2 DEF At, Beyond, OperationStep, TypeOK
<1>3. CASE /\ At(w, locked) /\ UNCHANGED connectionVars
           /\ \/ Answer(w)
              \/ worker' = [worker EXCEPT ![w].pc = pc, ![w].tries = @ + 1]
  <2>1. Beyond(w)
    BY <1>3 DEF At, Beyond
  <2>2. CASE Answer(w)
    BY <1>3, <2>1, <2>2, RecordSteps
  <2>3. CASE worker' = [worker EXCEPT ![w].pc = pc, ![w].tries = @ + 1]
    BY <1>3, <2>1, <2>3 DEF OperationStep, TypeOK
  <2> QED BY <1>3, <2>2, <2>3
<1> QED BY <1>1, <1>2, <1>3 DEF Striped

\* A retried call other than the striper's (Retry): whatever it does with its
\* result is a step if each of its outcomes is.
LEMMA RetryStep ==
    ASSUME TypeOK, NEW w \in Workers, NEW pc \in Places \ {"idle", "connecting"},
           At(w, pc), UNCHANGED connectionVars,
           \/ Answer(w) \/ Again(w)
           \/ Goto(w, "setxattr") \/ Goto(w, "last") \/ Goto(w, "write_full")
    PROVE  OperationStep(w)
<1>1. Beyond(w)
  BY DEF At, Beyond
<1> QED BY <1>1, RecordSteps DEF Places

\* Every action but the two of connect() is a step past connect().
LEMMA OperationSteps ==
    ASSUME TypeOK, NEW w \in Workers,
           \/ Canceled(w) \/ read(w) \/ write(w) \/ unlink(w) \/ truncate(w) \/ LastAttempt(w)
           \/ getxattr(w) \/ setxattr(w) \/ removexattr(w) \/ listxattr(w)
    PROVE  OperationStep(w)
<1>1. CASE Canceled(w)
  BY <1>1, BeginStep DEF Places
<1>2. CASE read(w)
  BY <1>2, StripedStep DEF read, Places
<1>3. CASE write(w)
  BY <1>3, StripedStep DEF write, Places
<1>4. CASE unlink(w)
  <2>1. CASE Begin(w, "remove")
    BY <2>1, BeginStep DEF Places
  <2>2. CASE /\ At(w, "remove") /\ UNCHANGED connectionVars
             /\ Again(w) \/ Answer(w) \/ worker' = [worker EXCEPT ![w].pc = "unlockRemove"]
    <3>1. CASE Again(w) \/ Answer(w)
      BY <2>2, <3>1, RetryStep DEF Places
    <3>2. CASE worker' = [worker EXCEPT ![w].pc = "unlockRemove"]
      BY <2>2, <3>2 DEF At, Beyond, OperationStep, TypeOK, Places
    <3> QED BY <2>2, <3>1, <3>2
  <2>3. CASE /\ At(w, "unlockRemove") /\ UNCHANGED connectionVars
             /\ Goto(w, "last") \/ Answer(w)
    BY <2>3, RetryStep DEF Places
  <2> QED BY <1>4, <2>1, <2>2, <2>3 DEF unlink
<1>5. CASE truncate(w)
  <2>1. CASE Begin(w, "trunc")
    BY <2>1, BeginStep DEF Places
  <2>2. CASE /\ At(w, "trunc") /\ UNCHANGED connectionVars
             /\ \/ Again(w) \/ Answer(w) \/ Goto(w, "write_full")
                \/ worker' = [worker EXCEPT ![w].pc = "unlockTrunc"]
    <3>1. CASE Again(w) \/ Answer(w) \/ Goto(w, "write_full")
      BY <2>2, <3>1, RetryStep DEF Places
    <3>2. CASE worker' = [worker EXCEPT ![w].pc = "unlockTrunc"]
      BY <2>2, <3>2 DEF At, Beyond, OperationStep, TypeOK, Places
    <3> QED BY <2>2, <3>1, <3>2
  <2>3. CASE At(w, "write_full") /\ Goto(w, "last") /\ UNCHANGED connectionVars
    BY <2>3, RetryStep DEF Places
  <2>4. CASE /\ At(w, "unlockTrunc") /\ UNCHANGED connectionVars
             /\ Goto(w, "last") \/ Answer(w)
    BY <2>4, RetryStep DEF Places
  <2> QED BY <1>5, <2>1, <2>2, <2>3, <2>4 DEF truncate
<1>6. CASE LastAttempt(w)
  BY <1>6, RetryStep DEF LastAttempt, Places
<1>7. CASE getxattr(w)
  <2>1. CASE Begin(w, "getxattr")
    BY <2>1, BeginStep DEF Places
  <2>2. CASE At(w, "getxattr") /\ UNCHANGED connectionVars /\ (Answer(w) \/ Again(w))
    BY <2>2, RetryStep DEF Places
  <2> QED BY <1>7, <2>1, <2>2 DEF getxattr, Retry
<1>8. CASE setxattr(w)
  <2>1. CASE \E create, replace \in BOOLEAN :
                IF create /\ replace THEN Canceled(w)
                ELSE Begin(w, IF create THEN "create" ELSE IF replace THEN "replace" ELSE "setxattr")
    <3>1. Canceled(w) \/ Begin(w, "create") \/ Begin(w, "replace") \/ Begin(w, "setxattr")
      BY <2>1
    <3> QED BY <3>1, BeginStep DEF Places
  <2>2. CASE /\ At(w, "create") \/ At(w, "replace") \/ At(w, "setxattr")
             /\ UNCHANGED connectionVars
             /\ Answer(w) \/ Again(w) \/ Goto(w, "setxattr")
    BY <2>2, RetryStep DEF Places
  <2> QED BY <1>8, <2>1, <2>2 DEF setxattr, Retry
<1>9. CASE removexattr(w)
  <2>1. CASE Begin(w, "rmxattr")
    BY <2>1, BeginStep DEF Places
  <2>2. CASE At(w, "rmxattr") /\ UNCHANGED connectionVars /\ (Answer(w) \/ Again(w))
    BY <2>2, RetryStep DEF Places
  <2> QED BY <1>9, <2>1, <2>2 DEF removexattr, Retry
<1>10. CASE listxattr(w)
  <2>1. CASE Begin(w, "getxattrs")
    BY <2>1, BeginStep DEF Places
  <2>2. CASE At(w, "getxattrs") /\ UNCHANGED connectionVars /\ (Answer(w) \/ Again(w))
    BY <2>2, RetryStep DEF Places
  <2> QED BY <1>10, <2>1, <2>2 DEF listxattr, Retry
<1> QED BY <1>1, <1>2, <1>3, <1>4, <1>5, <1>6, <1>7, <1>8, <1>9, <1>10

-----------------------------------------------------------------------------

\* connect(): an operation finds the helper connected, or starts to connect
\* with nobody else under way.
LEMMA ConnectKeeps ==
    ASSUME IInv, NEW w \in Workers, connect(w)
    PROVE  IInv'
<1>1. CASE m_connected
  <2>1. Goto(w, "connected") /\ UNCHANGED <<cluster, m_connected, mutex>>
    BY <1>1 DEF connect
  <2> QED BY <1>1, <2>1 DEF IInv, TypeOK, Goto, At, Beyond, Places
<1>2. CASE ~m_connected
  <2>1. /\ Goto(w, "connecting") /\ cluster' = 0 /\ mutex' = TRUE /\ ~mutex
        /\ UNCHANGED m_connected
    BY <1>2 DEF connect
  <2>2. \A v \in Workers : At(v, "idle")
    BY <1>2, <2>1 DEF IInv, At, Beyond
  <2> QED BY <1>2, <2>1, <2>2 DEF IInv, TypeOK, Goto, At, Beyond, Places
<1> QED BY <1>1, <1>2 DEF IInv, TypeOK

\* A stage of connect(): retried, done, or failed, which ends the attempt.
LEMMA ConnectStepKeeps ==
    ASSUME IInv, NEW w \in Workers, connectStep(w)
    PROVE  IInv'
<1>1. /\ At(w, "connecting") /\ mutex /\ ~m_connected /\ cluster \in 0..6
      /\ \A v \in Workers \ {w} : At(v, "idle")
  BY DEF connectStep, IInv, TypeOK, At, Beyond
<1>2. CASE Again(w) /\ UNCHANGED <<cluster, m_connected, mutex>>
  BY <1>1, <1>2 DEF IInv, TypeOK, Again, At, Beyond
<1>3. CASE /\ cluster' = cluster + 1
           /\ m_connected' = (cluster' = 7)
           /\ mutex' = ~m_connected'
           /\ Goto(w, IF m_connected' THEN "connected" ELSE "connecting")
  <2>1. m_connected' \in BOOLEAN /\ mutex' \in BOOLEAN /\ mutex' = ~m_connected'
    BY <1>3, Zenon
  <2>2. CASE cluster' = 7
    <3>1. m_connected' /\ ~mutex' /\ Goto(w, "connected")
      BY <1>3, <2>2, Zenon
    <3> QED BY <1>1, <2>1, <2>2, <3>1 DEF IInv, TypeOK, Goto, At, Beyond, Places
  <2>3. CASE cluster' # 7
    <3>1. ~m_connected' /\ mutex' /\ Goto(w, "connecting")
      BY <1>3, <2>3, Zenon
    <3>2. cluster' \in 0..6
      BY <1>1, <1>3, <2>3
    <3> QED BY <1>1, <2>1, <3>1, <3>2 DEF IInv, TypeOK, Goto, At, Beyond, Places
  <2> QED BY <2>2, <2>3
<1>4. CASE /\ cluster' \in {0, cluster}
           /\ mutex' = FALSE
           /\ Answer(w)
           /\ UNCHANGED m_connected
  <2>1. worker' \in [Workers -> [pc : Places, tries : Nat]] /\ cluster' \in 0..7
    BY <1>1, <1>4, IdleRecord DEF IInv, TypeOK, Answer
  <2>2. \A v \in Workers : At(v, "idle")'
    BY <1>1, <1>4, IdleRecord DEF IInv, TypeOK, Answer, At
  <2>3. ~m_connected' /\ m_connected' \in BOOLEAN /\ mutex' \in BOOLEAN
    BY <1>1, <1>4 DEF IInv, TypeOK
  <2> QED BY <2>1, <2>2, <2>3 DEF IInv, TypeOK, At, Beyond
<1> QED BY <1>2, <1>3, <1>4, SevenStages DEF connectStep

\* A step past connect() leaves the connection alone.
LEMMA OperationKeeps ==
    ASSUME IInv, NEW w \in Workers, OperationStep(w)
    PROVE  IInv'
BY DEF IInv, TypeOK, OperationStep, connectionVars, At, Beyond

\* IInv is inductive.
LEMMA Inductive == IInv /\ [Next]_vars => IInv'
<1> SUFFICES ASSUME IInv, [Next]_vars PROVE IInv'
  OBVIOUS
<1>1. CASE UNCHANGED vars
  BY <1>1 DEF vars, IInv, TypeOK, At, Beyond
<1>2. ASSUME NEW w \in Workers, connect(w) PROVE IInv'
  BY <1>2, ConnectKeeps
<1>3. ASSUME NEW w \in Workers, connectStep(w) PROVE IInv'
  BY <1>3, ConnectStepKeeps
<1>4. ASSUME NEW w \in Workers,
             \/ Canceled(w) \/ read(w) \/ write(w) \/ unlink(w) \/ truncate(w) \/ LastAttempt(w)
             \/ getxattr(w) \/ setxattr(w) \/ removexattr(w) \/ listxattr(w)
      PROVE  IInv'
  <2>1. TypeOK
    BY DEF IInv
  <2>2. OperationStep(w)
    BY <1>4, <2>1, OperationSteps
  <2> QED BY <2>2, OperationKeeps
<1> QED BY <1>1, <1>2, <1>3, <1>4 DEF Next

\* IInv holds in every reachable state of CephHelper.
THEOREM Invariance == Spec => []IInv
<1>1. Init => IInv
  <2> SUFFICES ASSUME Init PROVE IInv
    OBVIOUS
  <2>1. worker \in [Workers -> [pc : Places, tries : Nat]] /\ cluster \in 0..7
    BY IdleRecord DEF Init
  <2>2. \A w \in Workers : At(w, "idle")
    BY IdleRecord DEF Init, At
  <2>3. ~m_connected /\ m_connected \in BOOLEAN /\ mutex \in BOOLEAN
    BY DEF Init
  <2> QED BY <2>1, <2>2, <2>3 DEF IInv, TypeOK, At, Beyond
<1> QED BY <1>1, Inductive, PTL DEF Spec

(***************************************************************************)
(* The striper is only called when cluster, I/O context and striper are    *)
(* set up, for any number of threads and retries (connect() in             *)
(* cephHelper.cc and the operations that follow it).                       *)
(***************************************************************************)
THEOREM StriperReady == Spec => []CallsConnectedStriper
<1>1. IInv => CallsConnectedStriper
  BY SevenStages DEF IInv, CallsConnectedStriper, Beyond
<1> QED BY <1>1, Invariance, PTL

(***************************************************************************)
(* Once m_connected is set no step takes it back or touches the stages of  *)
(* the cluster, although attempts to connect undo them when they fail      *)
(* (connect() in cephHelper.cc).                                           *)
(***************************************************************************)
StaysConnected == [][m_connected => m_connected' /\ UNCHANGED cluster]_vars

THEOREM ConnectionKept == Spec => StaysConnected
<1>1. ASSUME IInv, [Next]_vars PROVE [m_connected => m_connected' /\ UNCHANGED cluster]_vars
  <2>1. ASSUME NEW w \in Workers, connect(w) PROVE m_connected => m_connected' /\ UNCHANGED cluster
    BY <2>1 DEF connect
  <2>2. ASSUME NEW w \in Workers, connectStep(w) PROVE ~m_connected
    BY <1>1, <2>2 DEF IInv, connectStep
  <2>3. ASSUME NEW w \in Workers,
               \/ Canceled(w) \/ read(w) \/ write(w) \/ unlink(w) \/ truncate(w) \/ LastAttempt(w)
               \/ getxattr(w) \/ setxattr(w) \/ removexattr(w) \/ listxattr(w)
        PROVE  UNCHANGED connectionVars
    BY <1>1, <2>3, OperationSteps DEF IInv, OperationStep
  <2> QED BY <1>1, <2>1, <2>2, <2>3 DEF Next, connectionVars
<1> QED BY <1>1, Invariance, PTL DEF Spec, StaysConnected

=============================================================================
