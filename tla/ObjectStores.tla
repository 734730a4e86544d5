----------------------------- MODULE ObjectStores -----------------------------
(***************************************************************************)
(* The helpers below KeyValueAdapter (s3Helper.cc, swiftHelper.cc,         *)
(* cephRadosHelper.cc): how threads that get, put and delete objects share *)
(* what a helper sets up once.  S3 sets up its client when it is created,  *)
(* Swift authenticates and Ceph RADOS connects with the first call, under  *)
(* a mutex.  What the calls do to objects is in module KeyValueAdapter.    *)
(***************************************************************************)
EXTENDS StorageHelper, Sequences

CONSTANTS
    MaxAccounts,    \* bound on the authentications that succeed
    MaxBatches      \* bound on the requests of one deletion

VARIABLES
    store,      \* "s3", "swift" or "cephrados"
    worker,     \* worker[w]: [pc, then, tries, account, batches] of the call thread w makes
    mutex,      \* m_authMutex or m_connectionMutex is held
    accounts,   \* accounts Swift has been given
    cluster,    \* how far the RADOS cluster handle is set up
    connected   \* m_ctx->connected

vars == <<store, worker, mutex, accounts, cluster, connected>>

\* What CephRadosHelper::connect sets up, in order.
Stages == <<"init2", "mon host", "key", "connect", "ioctx_create">>

Idle == [pc |-> "idle", then |-> "none", tries |-> 0, account |-> 0, batches |-> 0]

Init ==
    /\ store \in {"s3", "swift", "cephrados"}
    /\ worker = [w \in Workers |-> Idle]
    /\ mutex = FALSE
    /\ accounts = 0
    /\ cluster = 0
    /\ connected = FALSE

sharedVars == <<store, mutex, accounts, cluster, connected>>

At(w, pc) == worker[w].pc = pc

\* An exception ends the call.
Throw(w) == worker' = [worker EXCEPT ![w] = Idle]

\* A call begins: with its request, or with what must be set up before.
Begin(w, s, call, batches) ==
    /\ store = s /\ At(w, "idle")
    /\ worker' = [worker EXCEPT ![w] = [Idle EXCEPT
          !.pc = IF s = "s3" THEN call ELSE IF s = "swift" THEN "getAccount" ELSE "connect",
          !.then = call, !.batches = batches]]
    /\ UNCHANGED sharedVars

\* One attempt of a request: the answer is returned or thrown, or the request repeated; a
\* deletion goes on with its next request.
Request(w, s, call) ==
    /\ store = s /\ At(w, call)
    /\ \E r \in Results :
          worker' = [worker EXCEPT ![w] =
              IF ~Final(@.tries, r \notin RetryErrors) THEN [@ EXCEPT !.tries = @ + 1]
              ELSE IF r = "ok" /\ @.batches > 1 THEN [@ EXCEPT !.batches = @ - 1, !.tries = 0]
              ELSE Idle]
    /\ UNCHANGED sharedVars

S3GetObject(w) == Begin(w, "s3", "get", 1) \/ Request(w, "s3", "get")
S3PutObject(w) == Begin(w, "s3", "put", 1) \/ Request(w, "s3", "put")
S3DeleteObjects(w) == (\E n \in 1..MaxBatches : Begin(w, "s3", "delete", n)) \/ Request(w, "s3", "delete")

SwiftGetObject(w) == Begin(w, "swift", "get", 1) \/ Request(w, "swift", "get")
SwiftPutObject(w) == Begin(w, "swift", "put", 1) \/ Request(w, "swift", "put")
SwiftDeleteObjects(w) ==
    (\E n \in 1..MaxBatches : Begin(w, "swift", "delete", n)) \/ Request(w, "swift", "delete")

\* Faulty variant: whether there is an account is asked before the mutex is taken.
GetAccountUnlocked(w) ==
    /\ store = "swift"
    /\ \/ /\ At(w, "getAccount")
          /\ worker' = [worker EXCEPT ![w].pc = IF accounts > 0 THEN worker[w].then ELSE "authenticate",
                                      ![w].account = accounts]
          /\ UNCHANGED accounts
       \/ /\ At(w, "authenticate") /\ accounts < MaxAccounts
          /\ accounts' = accounts + 1
          /\ worker' = [worker EXCEPT ![w].pc = worker[w].then, ![w].account = accounts']
    /\ UNCHANGED <<store, mutex, cluster, connected>>

\* getAccount: the account there is, or a new one, once the authentication has succeeded.
getAccount(w) ==
    /\ store = "swift"
    /\ \/ /\ At(w, "getAccount") /\ ~mutex
          /\ IF accounts > 0
             THEN /\ worker' = [worker EXCEPT ![w].pc = worker[w].then, ![w].account = accounts]
                  /\ UNCHANGED mutex
             ELSE /\ worker' = [worker EXCEPT ![w].pc = "authenticate"]
                  /\ mutex' = TRUE
          /\ UNCHANGED accounts
       \/ /\ At(w, "authenticate")
          /\ mutex' = FALSE
          /\ \/ Throw(w) /\ UNCHANGED accounts
             \/ /\ accounts < MaxAccounts
                /\ accounts' = accounts + 1
                /\ worker' = [worker EXCEPT ![w].pc = worker[w].then, ![w].account = accounts']
    /\ UNCHANGED <<store, cluster, connected>>

RadosGetObject(w) == Begin(w, "cephrados", "get", 1) \/ Request(w, "cephrados", "get")
RadosPutObject(w) == Begin(w, "cephrados", "put", 1) \/ Request(w, "cephrados", "put")
RadosDeleteObjects(w) ==
    (\E n \in 1..MaxBatches : Begin(w, "cephrados", "delete", n)) \/ Request(w, "cephrados", "delete")

\* connect: one step after the other; after a failure the next call starts over.
connect(w) ==
    /\ store = "cephrados"
    /\ \/ /\ At(w, "connect") /\ ~mutex
          /\ worker' = [worker EXCEPT ![w].pc = IF connected THEN worker[w].then ELSE "connecting"]
          /\ mutex' = ~connected
          /\ cluster' = IF connected THEN cluster ELSE 0
          /\ UNCHANGED connected
       \/ /\ At(w, "connecting")
          /\ \/ Throw(w) /\ mutex' = FALSE /\ UNCHANGED <<cluster, connected>>
             \/ /\ cluster' = cluster + 1
                /\ connected' = (cluster' = Len(Stages))
                /\ mutex' = ~connected'
                /\ worker' = [worker EXCEPT ![w].pc = IF connected' THEN worker[w].then ELSE @]
    /\ UNCHANGED <<store, accounts>>

Next ==
    \E w \in Workers :
        \/ S3GetObject(w) \/ S3PutObject(w) \/ S3DeleteObjects(w)
        \/ SwiftGetObject(w) \/ SwiftPutObject(w) \/ SwiftDeleteObjects(w) \/ getAccount(w)
        \/ RadosGetObject(w) \/ RadosPutObject(w) \/ RadosDeleteObjects(w) \/ connect(w)

Spec == Init /\ [][Next]_vars

-----------------------------------------------------------------------------

(***************************************************************************)
(* A request is only made on what is set up, and on what stays: a Swift    *)
(* call uses the account the helper still keeps, as it was given a         *)
(* reference and not a share, and a RADOS call finds the cluster and the   *)
(* I/O context complete, whatever earlier attempts to set them up failed   *)
(* halfway (getAccount, CephRadosHelper::connect).                         *)
(***************************************************************************)
CallsOnReadyStore ==
    \A w \in Workers :
        worker[w].pc \in {"get", "put", "delete"} =>
            /\ store = "swift" => worker[w].account = accounts /\ accounts > 0
            /\ store = "cephrados" => cluster = Len(Stages)

=============================================================================
