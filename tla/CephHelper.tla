------------------------------ MODULE CephHelper ------------------------------
(***************************************************************************)
(* The Ceph helper (cephHelper.cc).  Every operation first runs connect(), *)
(* which sets up the cluster, the I/O context and the striper under a      *)
(* mutex unless an earlier operation has, then calls the striper.          *)
(*                                                                         *)
(* The striper is modelled by the lock it takes on a file: shared while it *)
(* reads or writes, exclusive to remove or truncate, which fail with EBUSY *)
(* while others hold it.  A client that crashed leaves its lock behind.    *)
(* File contents and attributes are left out.                              *)
(***************************************************************************)
EXTENDS StorageHelper, Sequences

CONSTANT Crashed    \* a client of the cluster that crashed

VARIABLES
    worker,         \* worker[w]: [pc, tries, then], how far the operation of thread w is
    cluster,        \* how far the cluster handle is set up, in the order of Stages
    m_connected,
    mutex,          \* m_connectionMutex is held
    lockers         \* holders of the striper's lock on the file

vars == <<worker, cluster, m_connected, mutex, lockers>>

\* What connect() sets up, in order.
Stages == <<"init2", "mon host", "key", "connect", "ioctx_create", "striper_create", "alignment">>

Idle == [pc |-> "idle", tries |-> 0]

Init ==
    /\ worker = [w \in Workers |-> Idle]
    /\ cluster = 0
    /\ m_connected = FALSE
    /\ mutex = FALSE
    /\ lockers \in {{}, {Crashed}}

At(w, pc) == worker[w].pc = pc
Goto(w, pc) == worker' = [worker EXCEPT ![w] = [pc |-> pc, tries |-> 0]]
Again(w) == worker' = [worker EXCEPT ![w].tries = @ + 1]
Answer(w) == worker' = [worker EXCEPT ![w] = Idle]

CephRetryErrors == RetryErrors \cup {"EBUSY"}
CephRetryCondition(r) == r \notin CephRetryErrors

-----------------------------------------------------------------------------

\* An operation of the helper or of a file handle starts with connect().
connect(w) ==
    /\ At(w, "idle") /\ ~mutex
    /\ IF m_connected
       THEN Goto(w, "connected") /\ UNCHANGED <<cluster, mutex>>
       ELSE Goto(w, "connecting") /\ cluster' = 0 /\ mutex' = TRUE
    /\ UNCHANGED <<m_connected, lockers>>

\* Steps of connect() that are retried.
Retried(stage) == stage \in {"connect", "ioctx_create", "striper_create"}

\* Faulty variant: the helper counts as connected from the striper on.
ConnectStepEarly(w) ==
    LET stage == Stages[cluster + 1] IN
    /\ At(w, "connecting")
    /\ \E r \in Results :
          IF Retried(stage) /\ ~Final(worker[w].tries, CephRetryCondition(r))
          THEN Again(w) /\ UNCHANGED <<cluster, m_connected, mutex>>
          ELSE IF r = "ok"
          THEN /\ cluster' = cluster + 1
               /\ m_connected' = (cluster' >= 6)
               /\ mutex' = (cluster' < Len(Stages))
               /\ Goto(w, IF mutex' THEN "connecting" ELSE "connected")
          ELSE /\ cluster' = IF stage \in {"striper_create", "alignment"} THEN 0 ELSE cluster
               /\ mutex' = FALSE
               /\ Answer(w)
               /\ UNCHANGED m_connected
    /\ UNCHANGED lockers

\* One step of connect(): a failure of the last two shuts the cluster down, an earlier one
\* leaves it as it is for the next operation to start over.
connectStep(w) ==
    LET stage == Stages[cluster + 1] IN
    /\ At(w, "connecting")
    /\ \E r \in Results :
          IF Retried(stage) /\ ~Final(worker[w].tries, CephRetryCondition(r))
          THEN Again(w) /\ UNCHANGED <<cluster, m_connected, mutex>>
          ELSE IF r = "ok"
          THEN /\ cluster' = cluster + 1
               /\ m_connected' = (cluster' = Len(Stages))
               /\ mutex' = ~m_connected'
               /\ Goto(w, IF m_connected' THEN "connected" ELSE "connecting")
          ELSE /\ cluster' = IF stage \in {"striper_create", "alignment"} THEN 0 ELSE cluster
               /\ mutex' = FALSE
               /\ Answer(w)
               /\ UNCHANGED m_connected
    /\ UNCHANGED lockers

connectionVars == <<cluster, m_connected, mutex>>

Begin(w, pc) == At(w, "connected") /\ Goto(w, pc) /\ UNCHANGED connectionVars /\ UNCHANGED lockers

\* The handle or the helper is gone when the second lambda runs.
Canceled(w) == At(w, "connected") /\ Answer(w) /\ UNCHANGED connectionVars /\ UNCHANGED lockers

\* A retried call that takes no lock others wait for.
Retry(w, pc, Then(_)) ==
    /\ At(w, pc)
    /\ \E r \in Results : IF Final(worker[w].tries, CephRetryCondition(r)) THEN Then(r) ELSE Again(w)
    /\ UNCHANGED connectionVars /\ UNCHANGED lockers

\* A retried read or write: the striper holds the lock from its start to its end.
Striped(w, pc, locked) ==
    \/ Begin(w, pc)
    \/ /\ At(w, pc)
       /\ worker' = [worker EXCEPT ![w].pc = locked]
       /\ lockers' = lockers \cup {w}
       /\ UNCHANGED connectionVars
    \/ /\ At(w, locked)
       /\ lockers' = lockers \ {w}
       /\ \E r \in Results :
             IF Final(worker[w].tries, CephRetryCondition(r))
             THEN Answer(w)
             ELSE worker' = [worker EXCEPT ![w].pc = pc, ![w].tries = @ + 1]
       /\ UNCHANGED connectionVars

read(w) == Striped(w, "read", "reading")
write(w) == Striped(w, "write", "writing")

\* What an exclusive call returns.
Exclusive == IF lockers = {} THEN Results ELSE {"EAGAIN", "EBUSY"}

\* removeStriperLocks: the locks of all lockers are broken, or some could not be.
removeStriperLocks(ok) ==
    IF ok THEN lockers' = {} ELSE lockers' \in SUBSET lockers

\* unlink: a file that stays busy loses its locks and is removed once more.
unlink(w) ==
    \/ Begin(w, "remove")
    \/ /\ At(w, "remove")
       /\ \E r \in Exclusive :
             IF ~Final(worker[w].tries, CephRetryCondition(r)) THEN Again(w)
             ELSE IF r = "EBUSY" THEN worker' = [worker EXCEPT ![w].pc = "unlockRemove"]
             ELSE Answer(w)
       /\ UNCHANGED connectionVars /\ UNCHANGED lockers
    \/ /\ At(w, "unlockRemove")
       /\ \E ok \in BOOLEAN : removeStriperLocks(ok) /\ IF ok THEN Goto(w, "last") ELSE Answer(w)
       /\ UNCHANGED connectionVars

\* truncate: a file that does not exist is created first; a busy one loses its locks.
truncate(w) ==
    \/ Begin(w, "trunc")
    \/ /\ At(w, "trunc")
       /\ \E r \in Exclusive :
             IF ~Final(worker[w].tries, CephRetryCondition(r)) THEN Again(w)
             ELSE IF r = "EBUSY" THEN worker' = [worker EXCEPT ![w].pc = "unlockTrunc"]
             ELSE IF r = "ENOENT" THEN Goto(w, "write_full")
             ELSE Answer(w)
       /\ UNCHANGED connectionVars /\ UNCHANGED lockers
    \/ /\ At(w, "write_full")
       /\ Goto(w, "last")
       /\ UNCHANGED connectionVars /\ UNCHANGED lockers
    \/ /\ At(w, "unlockTrunc")
       /\ \E ok \in BOOLEAN : removeStriperLocks(ok) /\ IF ok THEN Goto(w, "last") ELSE Answer(w)
       /\ UNCHANGED connectionVars

\* The last attempt of either, whatever it returns.
LastAttempt(w) == At(w, "last") /\ Answer(w) /\ UNCHANGED connectionVars /\ UNCHANGED lockers

getxattr(w) == Begin(w, "getxattr") \/ Retry(w, "getxattr", LAMBDA r : Answer(w))
removexattr(w) == Begin(w, "rmxattr") \/ Retry(w, "rmxattr", LAMBDA r : Answer(w))
listxattr(w) == Begin(w, "getxattrs") \/ Retry(w, "getxattrs", LAMBDA r : Answer(w))

\* setxattr: create and replace look for the attribute first; any failure to get it means it
\* is not there.
setxattr(w) ==
    \/ \E create, replace \in BOOLEAN :
          IF create /\ replace THEN Canceled(w)
          ELSE Begin(w, IF create THEN "create" ELSE IF replace THEN "replace" ELSE "setxattr")
    \/ Retry(w, "create", LAMBDA r : IF r = "ok" THEN Answer(w) ELSE Goto(w, "setxattr"))
    \/ Retry(w, "replace", LAMBDA r : IF r = "ok" THEN Goto(w, "setxattr") ELSE Answer(w))
    \/ Retry(w, "setxattr", LAMBDA r : Answer(w))

Next ==
    \E w \in Workers :
        \/ connect(w) \/ connectStep(w) \/ Canceled(w) \/ read(w) \/ write(w) \/ unlink(w)
        \/ truncate(w) \/ LastAttempt(w) \/ getxattr(w) \/ setxattr(w) \/ removexattr(w) \/ listxattr(w)

Spec == Init /\ [][Next]_vars

-----------------------------------------------------------------------------

(***************************************************************************)
(* The striper is only called when the cluster, the I/O context and the    *)
(* striper are all set up, whatever steps of earlier attempts to connect   *)
(* failed and were undone, and however operations interleave with them:    *)
(* m_connected is set last and never taken back.                           *)
(***************************************************************************)
CallsConnectedStriper ==
    \A w \in Workers : worker[w].pc \notin {"idle", "connecting"} => cluster = Len(Stages)

=============================================================================
