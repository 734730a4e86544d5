--------------------------- MODULE GlusterFSHelper ---------------------------
(***************************************************************************)
(* The GlusterFS helper (glusterfsHelper.cc).  Helpers of one volume share *)
(* a connection, made under a mutex by the first operation that needs it.  *)
(* Every operation is two lambdas: connect(), then the calls to the        *)
(* library, on whatever threads of the executor are free.  User ids are    *)
(* set per thread and stay until they are set again.                       *)
(*                                                                         *)
(* A file handle does not queue its operations; its client is taken to     *)
(* release it when no other operation of it runs, and to use it no more.   *)
(* Helpers outlive their operations.                                       *)
(***************************************************************************)
EXTENDS StorageHelper, FiniteSets

CONSTANTS
    Calls,          \* operations that may run at a time
    Helpers,        \* helpers of one volume, each of a user of its own
    FileHelper,     \* the helper of the file handle
    MaxContexts,    \* bound on the contexts made
    NoWorker, NoHelper

VARIABLES
    call,           \* call[c]: [pc, h, file, w, tries, ret], how far operation c is
    connection,     \* [connected, glfsCtx]: the volume in glusterFSConnections
    glfsCtx,        \* glfsCtx[h]: m_glfsCtx
    contexts,       \* contexts made so far
    initialized,    \* contexts glfs_init succeeded for
    mutex,          \* thread that holds connectionMutex
    fsuid,          \* fsuid[w]: helper whose user ids thread w has
    handle,         \* [st, held, needsRelease, fdOpen] of a file handle of FileHelper
    closeRepeated   \* a glfs_close that failed was called again

vars == <<call, connection, glfsCtx, contexts, initialized, mutex, fsuid, handle, closeRepeated>>
connectionVars == <<connection, glfsCtx, contexts, initialized, mutex>>

Free(ret) == [pc |-> "idle", h |-> NoHelper, file |-> "none", w |-> NoWorker, tries |-> 0, ret |-> ret]

Init ==
    /\ call = [c \in Calls |-> Free("none")]
    /\ connection = [connected |-> FALSE, glfsCtx |-> 0]
    /\ glfsCtx = [h \in Helpers |-> 0]
    /\ contexts = 0
    /\ initialized = {}
    /\ mutex = NoWorker
    /\ fsuid = [w \in Workers |-> NoHelper]
    /\ handle = [st |-> "none", held |-> FALSE, needsRelease |-> FALSE, fdOpen |-> FALSE]
    /\ closeRepeated = FALSE

Idle(w) == \A c \in Calls : call[c].w # w

\* An operation is issued: its connect() waits for a thread.
Issue(c, h, file) == call' = [call EXCEPT ![c] = [Free("none") EXCEPT !.pc = "issued", !.h = h, !.file = file]]

Answer(c, ret) == call' = [call EXCEPT ![c] = Free(ret)]

-----------------------------------------------------------------------------
\* connect().

\* Faulty variant: a helper that finds the volume connected keeps its context.
ConnectKeepsContext(c, w) ==
    /\ call[c].pc = "issued" /\ Idle(w) /\ mutex = NoWorker
    /\ IF connection.connected
       THEN call' = [call EXCEPT ![c].pc = "ready"] /\ UNCHANGED connectionVars
       ELSE /\ contexts < MaxContexts
            /\ contexts' = contexts + 1
            /\ connection' = [connection EXCEPT !.glfsCtx = contexts']
            /\ glfsCtx' = [glfsCtx EXCEPT ![call[c].h] = contexts']
            /\ mutex' = w
            /\ call' = [call EXCEPT ![c].pc = "connect", ![c].w = w]
            /\ UNCHANGED initialized
    /\ UNCHANGED <<fsuid, handle, closeRepeated>>

\* The volume is connected already, or a thread makes a context for it under the mutex.
connect(c, w) ==
    /\ call[c].pc = "issued" /\ Idle(w) /\ mutex = NoWorker
    /\ IF connection.connected
       THEN /\ glfsCtx' = [glfsCtx EXCEPT ![call[c].h] = connection.glfsCtx]
            /\ call' = [call EXCEPT ![c].pc = "ready"]
            /\ UNCHANGED <<connection, contexts, initialized, mutex>>
       ELSE /\ contexts < MaxContexts
            /\ contexts' = contexts + 1
            /\ connection' = [connection EXCEPT !.glfsCtx = contexts']
            /\ glfsCtx' = [glfsCtx EXCEPT ![call[c].h] = contexts']
            /\ mutex' = w
            /\ call' = [call EXCEPT ![c].pc = "connect", ![c].w = w]
            /\ UNCHANGED initialized
    /\ UNCHANGED <<fsuid, handle, closeRepeated>>

\* The volfile server or an option is refused: the context stays behind unconnected.
connectRefused(c) ==
    /\ call[c].pc = "connect" /\ call[c].tries = 0
    /\ mutex' = NoWorker
    /\ Answer(c, "EINVAL")
    /\ UNCHANGED <<connection, glfsCtx, contexts, initialized, fsuid, handle, closeRepeated>>

\* glfs_init, retried with the mutex held.
connectInit(c) ==
    /\ call[c].pc = "connect"
    /\ \E r \in Results :
          IF ~Final(call[c].tries, r \notin RetryErrors)
          THEN call' = [call EXCEPT ![c].tries = @ + 1] /\ UNCHANGED <<connection, initialized, mutex>>
          ELSE /\ mutex' = NoWorker
               /\ IF r = "ok"
                  THEN /\ initialized' = initialized \cup {glfsCtx[call[c].h]}
                       /\ connection' = [connection EXCEPT !.connected = TRUE]
                       /\ call' = [call EXCEPT ![c].pc = "ready", ![c].w = NoWorker, ![c].tries = 0]
                  ELSE Answer(c, r) /\ UNCHANGED <<connection, initialized>>
    /\ UNCHANGED <<glfsCtx, contexts, fsuid, handle, closeRepeated>>

-----------------------------------------------------------------------------
\* The second lambda of an operation of a helper.

\* glfs_setfsuid and glfs_setfsgid, then the first call.
Begin(c, w, pc) ==
    /\ call[c].pc = "ready" /\ Idle(w)
    /\ fsuid' = [fsuid EXCEPT ![w] = call[c].h]
    /\ call' = [call EXCEPT ![c].pc = pc, ![c].w = w]
    /\ UNCHANGED connectionVars /\ UNCHANGED <<handle, closeRepeated>>

GlusterFSRetryCondition(r) == r \notin RetryErrors

\* A retried call to the library.
retry(c, pc, results, Then(_)) ==
    /\ call[c].pc = pc
    /\ \E r \in results :
          IF Final(call[c].tries, GlusterFSRetryCondition(r))
          THEN Then(r)
          ELSE call' = [call EXCEPT ![c].tries = @ + 1] /\ UNCHANGED handle
    /\ UNCHANGED connectionVars /\ UNCHANGED <<fsuid, closeRepeated>>

Goto(c, pc) == call' = [call EXCEPT ![c].pc = pc, ![c].tries = 0] /\ UNCHANGED handle
Return(c, ret) == Answer(c, ret) /\ UNCHANGED handle

\* setContextResult.
setContextResult(c) == retry(c, "context", Results, LAMBDA r : Return(c, r))

Helper(c, w, pc) == call[c].file = "none" /\ Begin(c, w, pc)

getattr(c, w) == Helper(c, w, "context")
access(c, w) == Helper(c, w, "context")
readlink(c, w) == Helper(c, w, "context")
mknod(c, w) == Helper(c, w, "context")
mkdir(c, w) == Helper(c, w, "context")
unlink(c, w) == Helper(c, w, "context")
rmdir(c, w) == Helper(c, w, "context")
symlink(c, w) == Helper(c, w, "context")
rename(c, w) == Helper(c, w, "context")
link(c, w) == Helper(c, w, "context")
chmod(c, w) == Helper(c, w, "context")
chown(c, w) == Helper(c, w, "context")
truncate(c, w) == Helper(c, w, "context")
removexattr(c, w) == Helper(c, w, "context")

\* open, by glfs_open or glfs_creat: the answer ok is the file handle of this model.
open(c, w) ==
    \/ /\ handle.st = "none" /\ call[c].h = FileHelper /\ \A d \in Calls : call[d].pc # "open"
       /\ Helper(c, w, "open")
    \/ retry(c, "open", Results,
             LAMBDA r : IF r = "ok"
                        THEN /\ handle' = [st |-> "live", held |-> TRUE, needsRelease |-> TRUE, fdOpen |-> TRUE]
                             /\ Answer(c, r)
                        ELSE Return(c, r))

\* readdir: the entries are read without retries, to the end or to an error.
readdir(c, w) ==
    \/ Helper(c, w, "opendir")
    \/ retry(c, "opendir", Results, LAMBDA r : IF r = "ok" THEN Goto(c, "readdir") ELSE Return(c, r))
    \/ /\ call[c].pc = "readdir"
       /\ Answer(c, "ok")
       /\ UNCHANGED connectionVars /\ UNCHANGED <<handle, fsuid, closeRepeated>>

\* getxattr: with a larger buffer after ERANGE.
getxattr(c, w) ==
    \/ Helper(c, w, "small")
    \/ retry(c, "small", Results \cup {"ERANGE"},
             LAMBDA r : IF r = "ERANGE" THEN Goto(c, "context") ELSE Return(c, r))

\* setxattr: create and replace together are refused before the ids are set.
setxattr(c, w) ==
    \/ Helper(c, w, "context")
    \/ /\ call[c].pc = "ready" /\ call[c].file = "none" /\ Idle(w)
       /\ Answer(c, "EINVAL")
       /\ UNCHANGED connectionVars /\ UNCHANGED <<handle, fsuid, closeRepeated>>

\* listxattr: the size, then the names.
listxattr(c, w) ==
    \/ Helper(c, w, "size")
    \/ retry(c, "size", Results \cup {"empty"},
             LAMBDA r : IF r = "ok" THEN Goto(c, "context") ELSE Return(c, IF r = "empty" THEN "ok" ELSE r))

-----------------------------------------------------------------------------
\* The operations of the file handle.

\* ~GlusterFSFileHandle.
Destroyed(h) == [h EXCEPT !.st = "dead", !.held = FALSE, !.needsRelease = FALSE,
                          !.fdOpen = @ /\ ~h.needsRelease]

\* The second lambda of one of these operations holds the handle.
Locked(calls) == \E c \in calls : call[c].file # "none" /\ call[c].w # NoWorker /\ call[c].pc # "connect"

\* The client lets the handle go.
drop ==
    /\ handle.st = "live" /\ handle.held
    /\ handle' = IF Locked(Calls) THEN [handle EXCEPT !.held = FALSE] ELSE Destroyed(handle)
    /\ UNCHANGED connectionVars /\ UNCHANGED <<call, fsuid, closeRepeated>>

Use(c, op) ==
    /\ call[c].pc = "idle" /\ handle.st = "live" /\ handle.held /\ handle.needsRelease
    /\ Issue(c, FileHelper, op)
    /\ UNCHANGED connectionVars /\ UNCHANGED <<fsuid, closeRepeated>>

\* The handle is locked if it still exists; else ECANCELED.
Lock(c, w, op, pc) ==
    /\ call[c].file = op
    /\ \/ handle.st = "live" /\ Begin(c, w, pc)
       \/ /\ handle.st # "live" /\ call[c].pc = "ready" /\ Idle(w)
          /\ Answer(c, "ECANCELED")
          /\ UNCHANGED connectionVars /\ UNCHANGED <<handle, fsuid, closeRepeated>>

\* The handle after operation c lets it go: destroyed if it was dropped meanwhile.
LetGo(c, h) == IF h.held \/ Locked(Calls \ {c}) THEN h ELSE Destroyed(h)

Unlock(c, ret) == Answer(c, ret) /\ handle' = LetGo(c, handle)

\* read: the error it answers with is the -1 the call returned, which is EPERM.
read(c, w) ==
    \/ Use(c, "read") /\ UNCHANGED handle
    \/ Lock(c, w, "read", "pread")
    \/ retry(c, "pread", Results, LAMBDA r : Unlock(c, IF r = "ok" THEN r ELSE "EPERM"))

\* write: nothing to write is answered after the ids were set.
write(c, w) ==
    \/ Use(c, "write") /\ UNCHANGED handle
    \/ Lock(c, w, "write", "pwritev")
    \/ retry(c, "pwritev", Results, LAMBDA r : Unlock(c, r))

fsync(c, w) ==
    \/ Use(c, "fsync") /\ UNCHANGED handle
    \/ Lock(c, w, "fsync", "sync")
    \/ retry(c, "sync", Results, LAMBDA r : Unlock(c, r))

\* flush: connect() only.
flush(c, w) ==
    \/ Use(c, "flush") /\ UNCHANGED handle
    \/ /\ call[c].file = "flush" /\ call[c].pc = "ready" /\ Idle(w)
       /\ Answer(c, "ok")
       /\ UNCHANGED connectionVars /\ UNCHANGED <<handle, fsuid, closeRepeated>>


\* release: once; glfs_close is retried although a close that failed closed the descriptor.
release(c, w) ==
    \/ /\ Use(c, "release") /\ \A d \in Calls : call[d].file = "none"
       /\ handle' = [handle EXCEPT !.needsRelease = FALSE]
    \/ Lock(c, w, "release", "close")
    \/ /\ call[c].pc = "close"
       /\ \E r \in Results :
             LET closed == [handle EXCEPT !.fdOpen = FALSE] IN
             IF Final(call[c].tries, GlusterFSRetryCondition(r))
             THEN /\ Answer(c, r)
                  /\ handle' = LetGo(c, closed)
                  /\ UNCHANGED closeRepeated
             ELSE /\ call' = [call EXCEPT ![c].tries = @ + 1]
                  /\ handle' = closed
                  /\ closeRepeated' = TRUE
       /\ UNCHANGED connectionVars /\ UNCHANGED fsuid

\* An operation of a helper is issued.
IssueHelper(c) ==
    /\ call[c].pc = "idle"
    /\ \E h \in Helpers : Issue(c, h, "none")
    /\ UNCHANGED connectionVars /\ UNCHANGED <<handle, fsuid, closeRepeated>>

Next ==
    \/ drop
    \/ \E c \in Calls :
          \/ IssueHelper(c) \/ connectRefused(c) \/ connectInit(c) \/ setContextResult(c)
          \/ \E w \in Workers :
                \/ connect(c, w) \/ getattr(c, w) \/ access(c, w) \/ readlink(c, w) \/ mknod(c, w)
                \/ mkdir(c, w) \/ unlink(c, w) \/ rmdir(c, w) \/ symlink(c, w) \/ rename(c, w)
                \/ link(c, w) \/ chmod(c, w) \/ chown(c, w) \/ truncate(c, w) \/ removexattr(c, w)
                \/ open(c, w) \/ readdir(c, w) \/ getxattr(c, w) \/ setxattr(c, w) \/ listxattr(c, w)
                \/ read(c, w) \/ write(c, w) \/ fsync(c, w) \/ flush(c, w) \/ release(c, w)

Spec == Init /\ [][Next]_vars

-----------------------------------------------------------------------------

ContextCalls == {"context", "open", "opendir", "readdir", "small", "size"}
FileCalls == {"pread", "pwritev", "sync", "close"}

(***************************************************************************)
(* Every call to the library is made with a context glfs_init succeeded    *)
(* for, also by a helper whose own attempt to connect failed and left its  *)
(* m_glfsCtx behind, while helpers of the volume connect at the same time. *)
(***************************************************************************)
UsesInitializedContext ==
    \A c \in Calls : call[c].pc \in ContextCalls => glfsCtx[call[c].h] \in initialized


=============================================================================
