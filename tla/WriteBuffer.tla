----------------------------- MODULE WriteBuffer -----------------------------
(***************************************************************************)
(* The write buffer of a file handle (buffering/writeBuffer.h) over the    *)
(* wrapped handle's multiwrite() (storageHelper.cc).  Written data is      *)
(* collected and pushed: a push is chained behind the earlier ones and its *)
(* future is queued until somebody confirms, that is, takes futures out of *)
(* the queue and waits for them.  write() and fsync() hold m_mutex         *)
(* throughout, so each is one step.                                        *)
(*                                                                         *)
(* The file is a function of offsets; a byte is the number of the write()  *)
(* that it comes from, 0 at first.  The storage is external and writes a   *)
(* buffer whole or fails.                                                  *)
(***************************************************************************)
EXTENDS Naturals, Sequences, SequencesExt

CONSTANTS
    FileSize,           \* bytes in the file
    writeBufferMinSize, \* as in BufferLimits
    writeBufferMaxSize,
    ConfirmFactor,      \* pushes that may be unconfirmed, in flush thresholds: 6
    Bandwidths,         \* what m_bps may be estimated at, when time has passed
    MaxWrites,          \* bound: calls of write()
    MaxFailures         \* bound: failures of the storage

ASSUME WriteBufferAssumption ==
    /\ {FileSize, writeBufferMinSize, writeBufferMaxSize, ConfirmFactor, MaxWrites, MaxFailures} \subseteq Nat
    /\ Bandwidths \subseteq Nat

VARIABLES
    storage,                \* the file in the storage
    m_buffers,              \* buffers not pushed yet: offset and data
    m_bufferedSize,
    m_nextOffset,
    m_bps,
    m_confirmationFutures,  \* queue of unconfirmed pushes: size and push
    m_pendingConfirmation,
    pushes,                 \* pushes[p]: the buffers of push p
    completed,              \* outcomes of the pushes that m_writeFuture has gone through
    progress,               \* buffers of the next push that are already written
    writes,                 \* calls of write() so far
    failures                \* failures so far

bufferVars == <<m_buffers, m_bufferedSize, m_nextOffset, m_confirmationFutures, m_pendingConfirmation, pushes>>
storageVars == <<storage, completed, progress, m_bps>>

Offsets == 0..(FileSize - 1)
Least(a, b) == IF a < b THEN a ELSE b
Greatest(a, b) == IF a < b THEN b ELSE a

WriteBufferInit ==
    /\ storage = [o \in Offsets |-> 0]
    /\ m_buffers = <<>>
    /\ m_bufferedSize = 0
    /\ m_nextOffset = 0
    /\ m_bps = 0
    /\ m_confirmationFutures = <<>>
    /\ m_pendingConfirmation = 0
    /\ pushes = <<>>
    /\ completed = <<>>
    /\ progress = 0
    /\ writes = 0
    /\ failures = 0

calculateFlushThreshold == Least(writeBufferMaxSize, Greatest(writeBufferMinSize, 2 * m_bps))

calculateConfirmThreshold == ConfirmFactor * calculateFlushThreshold

TotalSize(futures) == FoldLeft(LAMBDA sum, f : sum + f.size, 0, futures)

\* The queue of futures after pushBuffer(), with or without something to push.
Pushed(size) ==
    IF size = 0 THEN m_confirmationFutures
    ELSE Append(m_confirmationFutures, [size |-> size, push |-> Len(pushes) + 1])

\* How many futures confirm(threshold) takes from the queue.
Taken(futures, pending, threshold) ==
    LET Enough(n) == pending - TotalSize(SubSeq(futures, 1, n)) <= threshold IN
    CHOOSE n \in 0..Len(futures) : Enough(n) /\ \A i \in 0..(n - 1) : ~Enough(i)

\* The pushes that pushBuffer() followed by confirm(threshold) makes the caller wait for.
Awaited(size, threshold) ==
    LET futures == Pushed(size) IN
    {futures[i].push : i \in 1..Taken(futures, m_pendingConfirmation + size, threshold)}

\* Faulty variant: what was taken is still counted as pending.
PushKeepsPending(buffers, size, threshold) ==
    LET futures == Pushed(size)
        pending == m_pendingConfirmation + size
        taken == Taken(futures, pending, threshold) IN
    /\ pushes' = IF size = 0 THEN pushes ELSE Append(pushes, buffers)
    /\ m_confirmationFutures' = SubSeq(futures, taken + 1, Len(futures))
    /\ m_pendingConfirmation' = pending
    /\ m_buffers' = IF size = 0 THEN buffers ELSE <<>>
    /\ m_bufferedSize' = 0

\* Faulty variant: futures are not taken out of the queue.
PushKeepsFutures(buffers, size, threshold) ==
    LET futures == Pushed(size)
        pending == m_pendingConfirmation + size
        taken == Taken(futures, pending, threshold) IN
    /\ pushes' = IF size = 0 THEN pushes ELSE Append(pushes, buffers)
    /\ m_confirmationFutures' = futures
    /\ m_pendingConfirmation' = pending - TotalSize(SubSeq(futures, 1, taken))
    /\ m_buffers' = IF size = 0 THEN buffers ELSE <<>>
    /\ m_bufferedSize' = 0

\* pushBuffer() and confirm(threshold), with the buffers that there are by now.
PushAndConfirm(buffers, size, threshold) ==
    LET futures == Pushed(size)
        pending == m_pendingConfirmation + size
        taken == Taken(futures, pending, threshold) IN
    /\ pushes' = IF size = 0 THEN pushes ELSE Append(pushes, buffers)
    /\ m_confirmationFutures' = SubSeq(futures, taken + 1, Len(futures))
    /\ m_pendingConfirmation' = pending - TotalSize(SubSeq(futures, 1, taken))
    /\ m_buffers' = IF size = 0 THEN buffers ELSE <<>>
    /\ m_bufferedSize' = 0

\* The buffers with new data appended to the last one if it continues there.
WithData(offset, data) ==
    IF m_buffers = <<>> \/ m_nextOffset # offset
    THEN Append(m_buffers, [offset |-> offset, data |-> data])
    ELSE [m_buffers EXCEPT ![Len(m_buffers)].data = @ \o data]

\* Whether write() of this size pushes the buffer.
OverThreshold(size) == m_bufferedSize + size > calculateFlushThreshold

\* What the caller of write() waits for.
WriteAwaits(size) ==
    IF OverThreshold(size) THEN Awaited(m_bufferedSize + size, calculateConfirmThreshold) ELSE {}

\* write(): size bytes at an offset.
BufferWrite(offset, size) ==
    LET buffers == WithData(offset, [i \in 1..size |-> writes + 1]) IN
    /\ writes < MaxWrites
    /\ writes' = writes + 1
    /\ m_nextOffset' = offset + size
    /\ IF OverThreshold(size)
       THEN PushAndConfirm(buffers, m_bufferedSize + size, calculateConfirmThreshold)
       ELSE /\ m_buffers' = buffers
            /\ m_bufferedSize' = m_bufferedSize + size
            /\ UNCHANGED <<m_confirmationFutures, m_pendingConfirmation, pushes>>
    /\ UNCHANGED <<storageVars, failures>>

\* Faulty variant: fsync() does not wait.
SyncAwaitsNothing == {}

\* fsync()
SyncAwaits == Awaited(m_bufferedSize, 0)

BufferSync ==
    /\ PushAndConfirm(m_buffers, m_bufferedSize, 0)
    /\ UNCHANGED <<m_nextOffset, storageVars, writes, failures>>

\* The timer set by scheduleFlush(), which is always running.
FlushTimer ==
    /\ m_bufferedSize > 0
    /\ PushAndConfirm(m_buffers, m_bufferedSize, m_pendingConfirmation + m_bufferedSize)
    /\ UNCHANGED <<m_nextOffset, storageVars, writes, failures>>

(***************************************************************************)
(* The chain m_writeFuture: the first push that has not completed is       *)
(* written buffer by buffer (multiwrite()); a failure skips the rest of    *)
(* that push and not the next one.                                         *)
(***************************************************************************)
Writing == Len(completed) < Len(pushes)
Current == pushes[Len(completed) + 1]

\* The file with a buffer written into it.
Patched(file, buffer) ==
    [o \in Offsets |-> IF o - buffer.offset \in 0..(Len(buffer.data) - 1)
                       THEN buffer.data[o - buffer.offset + 1]
                       ELSE file[o]]

\* Faulty variant: the last buffer is written first.
StorageWritesBackwards ==
    /\ Writing
    /\ progress < Len(Current)
    /\ storage' = Patched(storage, Current[Len(Current) - progress])
    /\ progress' = progress + 1
    /\ UNCHANGED <<bufferVars, completed, m_bps, writes, failures>>

StorageWrites ==
    /\ Writing
    /\ progress < Len(Current)
    /\ storage' = Patched(storage, Current[progress + 1])
    /\ progress' = progress + 1
    /\ UNCHANGED <<bufferVars, completed, m_bps, writes, failures>>

PushCompletes ==
    /\ Writing
    /\ progress = Len(Current)
    /\ completed' = Append(completed, "ok")
    /\ progress' = 0
    /\ m_bps' \in {m_bps} \cup Bandwidths
    /\ UNCHANGED <<bufferVars, storage, writes, failures>>

PushFails ==
    /\ Writing
    /\ progress < Len(Current)
    /\ failures < MaxFailures
    /\ failures' = failures + 1
    /\ completed' = Append(completed, "failed")
    /\ progress' = 0
    /\ UNCHANGED <<bufferVars, storage, m_bps, writes>>

=============================================================================
