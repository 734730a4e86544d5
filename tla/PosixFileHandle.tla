--------------------------- MODULE PosixFileHandle ---------------------------
(***************************************************************************)
(* Open files of PosixHelper (PosixFileHandle in posixHelper.cc).  A file  *)
(* handle queues its operations; one thread at a time drains the queue, as *)
(* FlatOpScheduler promises (module SerialQueue), under the user context   *)
(* of the handle.  The executor of the operations (OpExec) holds the       *)
(* handle only while it runs one of them, so a handle its client dropped   *)
(* may be destroyed, and its descriptor closed, between two operations of  *)
(* one drain.                                                              *)
(*                                                                         *)
(* The kernel is modelled by who owns each descriptor number.  close()     *)
(* frees the number whether it reports an error or not, as on Linux.       *)
(***************************************************************************)
EXTENDS StorageHelper, Sequences

CONSTANTS
    Handles,        \* file handles
    NoHandle,
    Descriptors,    \* descriptor numbers
    Users,          \* users the process may act as
    ProcessUser,    \* who the threads run as between operations
    MaxQueue,       \* bound on the operations queued on a handle
    MaxChunks       \* bound on the IOV_MAX chunks of a write

VARIABLES
    handle,         \* handle[h]: [st, held, needsRelease, fd, user]
    queue,          \* queue[h]: operations scheduled on h
    exec,           \* exec[h]: [draining, validCtx] of the scheduler and OpExec of h
    worker,         \* worker[w]: [op, h, tries, chunks] while w drains h
    fsuid,          \* fsuid[w]: user whose ids thread w has
    fdOwner,        \* fdOwner[d]: handle whose open file descriptor d stands for
    refused,        \* handles whose ReleaseOp was answered without a close
    closeRepeated   \* a close that reported an error was called again

vars == <<handle, queue, exec, worker, fsuid, fdOwner, refused, closeRepeated>>

Idle == [op |-> "idle", h |-> NoHandle, tries |-> 0, chunks |-> 0]

Init ==
    /\ handle = [h \in Handles |-> [st |-> "none"]]
    /\ queue = [h \in Handles |-> <<>>]
    /\ exec = [h \in Handles |-> [draining |-> FALSE, validCtx |-> FALSE]]
    /\ worker = [w \in Workers |-> Idle]
    /\ fsuid = [w \in Workers |-> ProcessUser]
    /\ fdOwner = [d \in Descriptors |-> NoHandle]
    /\ refused = {}
    /\ closeRepeated = FALSE

Live(h) == handle[h].st = "live"

\* OpExec holds the handle: a thread runs one of its operations.
Locked(h) == \E w \in Workers : worker[w].h = h /\ worker[w].op # "drain"

\* create: PosixHelper::open got a descriptor with the user's ids.
create(h) ==
    /\ handle[h].st = "none"
    /\ \E d \in Descriptors, user \in Users :
          /\ fdOwner[d] = NoHandle
          /\ handle' = [handle EXCEPT ![h] = [st |-> "live", held |-> TRUE, needsRelease |-> TRUE,
                                              fd |-> d, user |-> user]]
          /\ fdOwner' = [fdOwner EXCEPT ![d] = h]
    /\ UNCHANGED <<queue, exec, worker, fsuid, refused, closeRepeated>>

\* Faulty variant: the destructor does not close the file.
DestroyedOpen(h) ==
    /\ handle' = [handle EXCEPT ![h].st = "dead", ![h].held = FALSE, ![h].needsRelease = FALSE]
    /\ UNCHANGED fdOwner

\* ~PosixFileHandle; the ids of an open file's user can be taken.
Destroyed(h) ==
    /\ handle' = [handle EXCEPT ![h].st = "dead", ![h].held = FALSE, ![h].needsRelease = FALSE]
    /\ fdOwner' = IF handle[h].needsRelease THEN [fdOwner EXCEPT ![handle[h].fd] = NoHandle] ELSE fdOwner

\* The client drops the handle; an operation that holds it outlives that.
drop(h) ==
    /\ Live(h) /\ handle[h].held
    /\ IF Locked(h)
       THEN handle' = [handle EXCEPT ![h].held = FALSE] /\ UNCHANGED fdOwner
       ELSE Destroyed(h)
    /\ UNCHANGED <<queue, exec, worker, fsuid, refused, closeRepeated>>

\* A client uses a handle until it releases it (module BufferedFile: ReleasedLast).
schedule(h, op) ==
    /\ Live(h) /\ handle[h].held /\ handle[h].needsRelease /\ Len(queue[h]) < MaxQueue
    /\ queue' = [queue EXCEPT ![h] = Append(@, op)]
    /\ UNCHANGED <<handle, exec, worker, fsuid, fdOwner, refused, closeRepeated>>

read(h) == schedule(h, "pread")
write(h) == schedule(h, "lseek")
flush(h) == schedule(h, "flush")
fsync(h) == schedule(h, "fsync")

\* release: the first call schedules the close, later ones do nothing.
release(h) ==
    /\ Live(h) /\ handle[h].held /\ handle[h].needsRelease
    /\ handle' = [handle EXCEPT ![h].needsRelease = FALSE]
    /\ queue' = [queue EXCEPT ![h] = Append(@, "close")]
    /\ UNCHANGED <<exec, worker, fsuid, fdOwner, refused, closeRepeated>>

\* startDrain: takes the user context if the handle still exists, and keeps
\* what the last drain found otherwise.
startDrain(w, h) ==
    /\ worker[w].op = "idle" /\ queue[h] # <<>> /\ ~exec[h].draining
    /\ worker' = [worker EXCEPT ![w] = [Idle EXCEPT !.op = "drain", !.h = h]]
    /\ exec' = [exec EXCEPT ![h].draining = TRUE, ![h].validCtx = @ \/ Live(h)]
    /\ fsuid' = [fsuid EXCEPT ![w] = IF Live(h) THEN handle[h].user ELSE @]
    /\ UNCHANGED <<handle, queue, fdOwner, refused, closeRepeated>>

\* The drain ends; ~UserCtxSetter gives the thread its former ids.
endDrain(w) ==
    LET h == worker[w].h IN
    /\ worker[w].op = "drain" /\ queue[h] = <<>>
    /\ worker' = [worker EXCEPT ![w] = Idle]
    /\ exec' = [exec EXCEPT ![h].draining = FALSE]
    /\ fsuid' = [fsuid EXCEPT ![w] = ProcessUser]
    /\ UNCHANGED <<handle, queue, fdOwner, refused, closeRepeated>>

\* Faulty variant: an operation runs without a look at the context and the handle.
NextOpUnchecked(w, op) ==
    LET h == worker[w].h IN
    /\ worker[w].op = "drain" /\ queue[h] # <<>> /\ Head(queue[h]) = op
    /\ queue' = [queue EXCEPT ![h] = Tail(@)]
    /\ worker' = [worker EXCEPT ![w].op = op]
    /\ UNCHANGED <<handle, exec, fsuid, fdOwner, refused, closeRepeated>>

\* An operation is taken: EDOM without a context, ECANCELED without a handle.
NextOp(w, op) ==
    LET h == worker[w].h IN
    /\ worker[w].op = "drain" /\ queue[h] # <<>> /\ Head(queue[h]) = op
    /\ queue' = [queue EXCEPT ![h] = Tail(@)]
    /\ IF exec[h].validCtx /\ Live(h)
       THEN worker' = [worker EXCEPT ![w].op = op] /\ UNCHANGED refused
       ELSE /\ refused' = IF op = "close" THEN refused \cup {h} ELSE refused
            /\ UNCHANGED worker
    /\ UNCHANGED <<handle, exec, fsuid, fdOwner, closeRepeated>>

\* The operation answers and lets the handle go, which destroys it if it was dropped.
Done(w) ==
    LET h == worker[w].h IN
    /\ worker' = [worker EXCEPT ![w] = [Idle EXCEPT !.op = "drain", !.h = h]]
    /\ IF handle[h].held THEN UNCHANGED <<handle, fdOwner>> ELSE Destroyed(h)
    /\ UNCHANGED <<queue, exec, fsuid, refused, closeRepeated>>

Step(w, op, chunks) ==
    /\ worker' = [worker EXCEPT ![w].op = op, ![w].tries = 0, ![w].chunks = chunks]
    /\ UNCHANGED <<handle, queue, exec, fsuid, fdOwner, refused, closeRepeated>>

Again(w) ==
    /\ worker' = [worker EXCEPT ![w].tries = @ + 1]
    /\ UNCHANGED <<handle, queue, exec, fsuid, fdOwner, refused, closeRepeated>>

\* ReadOp.
ReadOp(w) ==
    \/ NextOp(w, "pread")
    \/ /\ worker[w].op = "pread"
       /\ \E r \in Results : IF Final(worker[w].tries, r \notin RetryErrors) THEN Done(w) ELSE Again(w)

\* WriteOp: lseek once, then writev for each chunk, retried whatever the error.
WriteOp(w) ==
    \/ NextOp(w, "lseek")
    \/ /\ worker[w].op = "lseek"
       /\ Done(w) \/ \E n \in 1..MaxChunks : Step(w, "writev", n)
    \/ /\ worker[w].op = "writev"
       /\ \E r \in Results :
             IF ~Final(worker[w].tries, r = "ok") THEN Again(w)
             ELSE IF r # "ok" \/ worker[w].chunks = 1 THEN Done(w)
             ELSE Step(w, "writev", worker[w].chunks - 1)

\* FsyncOp.
FsyncOp(w) ==
    \/ NextOp(w, "fsync")
    \/ /\ worker[w].op = "fsync"
       /\ \E r \in Results : IF Final(worker[w].tries, r \notin RetryErrors) THEN Done(w) ELSE Again(w)

\* FlushOp.
FlushOp(w) == NextOp(w, "flush") \/ (worker[w].op = "flush" /\ Done(w))

\* ReleaseOp: the close is retried like any other call.
ReleaseOp(w) ==
    \/ NextOp(w, "close")
    \/ LET h == worker[w].h IN
       /\ worker[w].op = "close"
       /\ fdOwner' = [fdOwner EXCEPT ![handle[h].fd] = NoHandle]
       /\ \E r \in Results :
             IF Final(worker[w].tries, r \notin RetryErrors)
             THEN /\ worker' = [worker EXCEPT ![w] = [Idle EXCEPT !.op = "drain", !.h = h]]
                  /\ handle' = IF handle[h].held THEN handle ELSE [handle EXCEPT ![h].st = "dead"]
                  /\ UNCHANGED closeRepeated
             ELSE /\ worker' = [worker EXCEPT ![w].tries = @ + 1]
                  /\ closeRepeated' = TRUE
                  /\ UNCHANGED handle
       /\ UNCHANGED <<queue, exec, fsuid, refused>>

Next ==
    \/ \E h \in Handles :
          \/ create(h) \/ drop(h) \/ read(h) \/ write(h) \/ flush(h) \/ fsync(h) \/ release(h)
          \/ \E w \in Workers : startDrain(w, h)
    \/ \E w \in Workers :
          endDrain(w) \/ ReadOp(w) \/ WriteOp(w) \/ FsyncOp(w) \/ FlushOp(w) \/ ReleaseOp(w)

Spec == Init /\ [][Next]_vars

-----------------------------------------------------------------------------

(***************************************************************************)
(* Until it is closed, the descriptor of a handle stands for the handle's  *)
(* own file, and so does the descriptor of every call that is being made:  *)
(* no read, write or close reaches the file of another handle that got the *)
(* same number (m_needsRelease, the lock of each operation and the order   *)
(* of the queue).  A close that failed and is repeated may close what got  *)
(* the number in between, so this is claimed only while no close was       *)
(* repeated.                                                               *)
(***************************************************************************)
OwnDescriptor ==
    ~closeRepeated =>
        /\ \A h \in Handles :
              Live(h) /\ (handle[h].needsRelease \/ \E i \in DOMAIN queue[h] : queue[h][i] = "close")
                  => fdOwner[handle[h].fd] = h
        /\ \A w \in Workers :
              worker[w].op \in {"pread", "lseek", "writev", "fsync", "close"} =>
                  Live(worker[w].h) /\ fdOwner[handle[worker[w].h].fd] = worker[w].h

(***************************************************************************)
(* A handle that is gone leaves its descriptor open only if its release    *)
(* was asked for and refused, or waits in the queue to be refused:         *)
(* releasing a handle and dropping it before the queue is drained loses    *)
(* the descriptor, but never without an error.                             *)
(***************************************************************************)
LeftOpenOnlyIfRefused ==
    \A h \in Handles :
        handle[h].st = "dead" /\ fdOwner[handle[h].fd] = h =>
            h \in refused \/ \E i \in DOMAIN queue[h] : queue[h][i] = "close"

=============================================================================
