----------------------------- MODULE BufferedFile -----------------------------
(***************************************************************************)
(* The buffered file handle (BufferedFileHandle of                         *)
(* buffering/bufferAgent.h): write buffer and read cache put together.     *)
(* Every operation but write() first pushes and confirms what is buffered, *)
(* and goes on when the futures it took are fulfilled.  A successful push  *)
(* clears the read cache.                                                  *)
(***************************************************************************)
EXTENDS WriteBuffer, ReadCache, FiniteSets

CONSTANTS
    Clients,    \* threads that use the handle
    MaxSize,    \* bound: size of a read or write
    MaxCalls    \* bound: calls other than release()

VARIABLES
    client,     \* what a client is doing: pc, operation, futures it waits for,
                \* offset, size and block of a read, and (history) how many
                \* pushes were made and completed when it was called
    released,   \* "no", "called" or "done"
    calls,      \* calls so far
    reported    \* history: pushes whose failure was reported, with the client

fileVars == <<client, released, calls, reported>>
vars == <<storage, m_buffers, m_bufferedSize, m_nextOffset, m_bps, m_confirmationFutures,
          m_pendingConfirmation, pushes, completed, progress, writes, failures,
          m_cache, m_clear, m_blockSize, fetches, client, released, calls, reported>>

Idle == [pc |-> "idle", op |-> "none", awaited |-> {}, offset |-> 0, size |-> 0, block |-> 0,
         pushed |-> 0, completed |-> 0]

Init ==
    /\ WriteBufferInit
    /\ ReadCacheInit
    /\ client = [c \in Clients |-> Idle]
    /\ released = "no"
    /\ calls = 0
    /\ reported = {}

MayCall(c) == client[c] = Idle /\ released = "no"

\* A call on the handle that counts against the bound.
Called(c) ==
    /\ MayCall(c)
    /\ calls < MaxCalls
    /\ calls' = calls + 1

Confirming(op, awaited) == [Idle EXCEPT !.pc = "confirm", !.op = op, !.awaited = awaited]

Write(c, offset, size) ==
    /\ Called(c)
    /\ BufferWrite(offset, size)
    /\ client' = [client EXCEPT ![c] = IF OverThreshold(size) THEN Confirming("write", WriteAwaits(size)) ELSE Idle]
    /\ UNCHANGED <<cacheVars, released, reported>>

Read(c, offset, size) ==
    /\ Called(c)
    /\ BufferSync
    /\ client' = [client EXCEPT ![c] = [Confirming("read", SyncAwaits) EXCEPT
                      !.offset = offset, !.size = size,
                      !.pushed = Len(pushes'), !.completed = Len(completed)]]
    /\ UNCHANGED <<cacheVars, released, reported>>

\* fsync() and flush(); the call of the wrapped handle that ends them is external.
Sync(c) ==
    /\ Called(c)
    /\ BufferSync
    /\ client' = [client EXCEPT ![c] = Confirming("sync", SyncAwaits)]
    /\ UNCHANGED <<cacheVars, released, reported>>

\* release() is the last call, made when nobody else uses the handle.
Release(c) ==
    /\ \A d \in Clients : MayCall(d)
    /\ BufferSync
    /\ client' = [client EXCEPT ![c] = Confirming("release", SyncAwaits)]
    /\ released' = "called"
    /\ UNCHANGED <<cacheVars, calls, reported>>

(***************************************************************************)
(* The continuations of confirm(): all futures are fulfilled; if one has   *)
(* failed, so does the operation.                                          *)
(***************************************************************************)
Fulfilled(c) == client[c].pc = "confirm" /\ \A p \in client[c].awaited : p <= Len(completed)
Failed(c) == {p \in client[c].awaited : completed[p] = "failed"}

ConfirmFails(c) ==
    /\ Fulfilled(c)
    /\ Failed(c) # {}
    /\ reported' = reported \cup {<<p, c>> : p \in Failed(c)}
    /\ client' = [client EXCEPT ![c] = Idle]
    /\ UNCHANGED <<bufferVars, storageVars, writes, failures, cacheVars, released, calls>>

Confirmed(c, op) ==
    /\ Fulfilled(c)
    /\ Failed(c) = {}
    /\ client[c].op = op
    /\ UNCHANGED <<bufferVars, storageVars, writes, failures, calls, reported>>

WriteReturns(c) ==
    /\ Confirmed(c, "write")
    /\ client' = [client EXCEPT ![c] = Idle]
    /\ UNCHANGED <<cacheVars, released>>

SyncReturns(c) ==
    /\ Confirmed(c, "sync")
    /\ Clear
    /\ client' = [client EXCEPT ![c] = Idle]
    /\ UNCHANGED <<m_cache, m_blockSize, fetches, released>>

ReleaseReturns(c) ==
    /\ Confirmed(c, "release")
    /\ released' = "done"
    /\ client' = [client EXCEPT ![c] = Idle]
    /\ UNCHANGED cacheVars

\* The continuous size is that of the read or, when the caller gives none, has no limit.
ReadConfirmed(c) ==
    /\ Confirmed(c, "read")
    /\ \E continuousSize \in {client[c].size, client[c].size + FileSize} :
          CacheRead(client[c].offset, client[c].size, continuousSize)
    /\ client' = [client EXCEPT ![c].pc = "fetch", ![c].awaited = {}, ![c].block = m_cache'[1]]
    /\ UNCHANGED released

Answered(c) == client[c].pc = "fetch" /\ fetches[client[c].block].state \in {"done", "failed"}

ReadReturns(c) ==
    /\ Answered(c)
    /\ client' = [client EXCEPT ![c] = Idle]
    /\ UNCHANGED <<bufferVars, storageVars, writes, failures, cacheVars, released, calls, reported>>

(***************************************************************************)
(* The storage and the timer.                                              *)
(***************************************************************************)
Push ==
    /\ FlushTimer \/ StorageWrites \/ PushFails
    /\ UNCHANGED <<cacheVars, fileVars>>

\* Faulty variant: the read cache is not cleared.
PushDoneNoClear ==
    /\ PushCompletes
    /\ UNCHANGED <<m_clear, m_cache, m_blockSize, fetches, client, released, calls, reported>>

\* The end of a push clears the read cache before its future is fulfilled.
PushDone ==
    /\ PushCompletes
    /\ Clear
    /\ UNCHANGED <<m_cache, m_blockSize, fetches, client, released, calls, reported>>

FetchStep(f) ==
    /\ \/ FetchReads(f, storage, FileSize) /\ UNCHANGED failures
       \/ FetchCompletes(f) /\ UNCHANGED failures
       \/ FetchFails(f) /\ failures < MaxFailures /\ failures' = failures + 1
    /\ UNCHANGED <<bufferVars, storageVars, writes, fileVars>>

Return(c) ==
    \/ ConfirmFails(c) \/ WriteReturns(c) \/ SyncReturns(c)
    \/ ReleaseReturns(c) \/ ReadConfirmed(c) \/ ReadReturns(c)

Ranges == {r \in Offsets \X (1..MaxSize) : r[1] + r[2] <= FileSize}

Next ==
    \/ \E c \in Clients : \E r \in Ranges : Write(c, r[1], r[2]) \/ Read(c, r[1], r[2])
    \/ \E c \in Clients : Sync(c) \/ Release(c) \/ Return(c)
    \/ Push
    \/ PushDone
    \/ \E f \in 1..Len(fetches) : FetchStep(f)

Spec == Init /\ [][Next]_vars

-------------------------------------------------------------------------------

(***************************************************************************)
(* The counters of WriteBuffer agree with its queues, so that the loop in  *)
(* confirm() never takes from an empty queue and pushBuffer() never leaves *)
(* a buffer behind.                                                        *)
(***************************************************************************)
CountersAgree ==
    /\ m_pendingConfirmation = TotalSize(m_confirmationFutures)
    /\ m_bufferedSize = FoldLeft(LAMBDA sum, b : sum + Len(b.data), 0, m_buffers)

(***************************************************************************)
(* The future of a push is in one place: in the queue or with one client   *)
(* that waits; a failure that is in neither was reported, to one client    *)
(* only (confirm()).                                                       *)
(***************************************************************************)
FutureInOnePlace ==
    \A p \in 1..Len(pushes) :
        LET waiting == {c \in Clients : p \in client[c].awaited}
            queued == {i \in 1..Len(m_confirmationFutures) : m_confirmationFutures[i].push = p}
            told == {c \in Clients : <<p, c>> \in reported} IN
        /\ Cardinality(waiting) + Cardinality(queued) + Cardinality(told) <= 1
        /\ p > Len(completed) \/ completed[p] = "failed" => waiting # {} \/ queued # {} \/ told # {}

(***************************************************************************)
(* Pushes reach the storage in the order of the writes: a byte is never    *)
(* replaced by an older one (the chain m_writeFuture).                     *)
(***************************************************************************)
StorageInOrder == [][\A o \in Offsets : storage'[o] >= storage[o]]_vars

\* No byte that a reader gets is older than what some pushes wrote there.
Sees(c, some) ==
    LET bytes == Trimmed(client[c].block, client[c].offset, client[c].size) IN
    \A p \in some : \A b \in 1..Len(pushes[p]) : \A i \in 1..Len(bytes) :
        bytes[i] >= Patched([o \in Offsets |-> 0], pushes[p][b])[client[c].offset + i - 1]

(***************************************************************************)
(* A read that gets its block sees every push that had completed when      *)
(* read() was called, or newer data, whatever was cached, fetched ahead or *)
(* on its way by then (the deferred clear of ReadCache).                   *)
(***************************************************************************)
ReadSeesConfirmed ==
    \A c \in Clients : Answered(c) /\ fetches[client[c].block].state = "done" =>
        Sees(c, {p \in 1..client[c].completed : completed[p] = "ok"})

(***************************************************************************)
(* The wrapped handle is released after the last write: nothing is         *)
(* buffered, being written or still to be reported (release()).            *)
(***************************************************************************)
ReleasedLast ==
    released = "done" =>
        /\ m_buffers = <<>>
        /\ Len(completed) = Len(pushes)
        /\ m_confirmationFutures = <<>>

(***************************************************************************)
(* "Push all changes so we'll always read data that we just wrote"         *)
(* (bufferAgent.h:151): a read returns what was written before read() was  *)
(* called, or newer data, as long as the storage has not failed.           *)
(***************************************************************************)
ReadSeesWrites ==
    \A c \in Clients : failures = 0 /\ Answered(c) => Sees(c, 1..client[c].pushed)

=============================================================================
