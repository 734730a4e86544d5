--------------------------- MODULE KeyValueAdapter ---------------------------
(***************************************************************************)
(* Files kept as blocks in an object store (keyValueAdapter.cc) over the   *)
(* S3, Swift and Ceph RADOS helpers.  An operation on a file becomes a     *)
(* task per block; tasks run on any thread and hold the lock of their      *)
(* block's key from their first to their last storage call.  truncate()    *)
(* and unlink() delete blocks without the locks.                           *)
(*                                                                         *)
(* One file is modelled.  The bytes an operation writes are its own name.  *)
(* A storage call that failed for a passing reason is repeated (retry()),  *)
(* and may have been carried out nevertheless.  A write answers its error  *)
(* as soon as one block has failed; its other tasks go on, beside whatever *)
(* operations its client starts next.                                      *)
(***************************************************************************)
EXTENDS Integers, FiniteSets, SequencesExt

CONSTANTS
    Ops,                    \* operations under way at once; numbers, not 0
    Old,                    \* a byte written earlier
    MaxOps,                 \* bound on the operations started
    BlockSize,              \* m_blockSize
    Blocks,                 \* 0..n: blocks of the file
    NoObject,               \* there is no object of that key
    MAX_DELETE_OBJECTS,     \* keys per request to delete
    Stores                  \* subset of {"s3", "swift", "cephrados"}

VARIABLES
    store,      \* the helper below the adapter
    object,     \* object[b]: bytes of block b on the storage
    locks,      \* locks[b]: operation whose task holds the lock of b's key, or 0
    op,         \* op[o]: the operation and where its tasks are
    started,    \* operations started
    latest,     \* latest[b]: what the calls carried out so far make of b's bytes
    excused     \* blocks deleted while a task had their lock, or read as missing by mistake

vars == <<store, object, locks, op, started, latest, excused>>

hasRandomAccess == store = "cephrados"

FileSize == BlockSize * Cardinality(Blocks)

getBlockId(offset) == offset \div BlockSize
getBlockOffset(offset) == offset - getBlockId(offset) * BlockSize

Prefix(buf, size) == SubSeq(buf, 1, IF size < Len(buf) THEN size ELSE Len(buf))

\* fillToSize.
fillToSize(buf, size) == buf \o [i \in 1..(IF Len(buf) < size THEN size - Len(buf) ELSE 0) |-> 0]

\* readBlock: a key without an object reads as no bytes.
Fetched(b, size) == IF object[b] = NoObject THEN <<>> ELSE Prefix(object[b], size)

NoTask == [b \in Blocks |-> "done"]
Idle == [kind |-> "idle"]

Init ==
    /\ store \in Stores
    /\ object \in {[b \in Blocks |-> NoObject], [b \in Blocks |-> fillToSize(<<Old>>, BlockSize)]}
    /\ locks = [b \in Blocks |-> 0]
    /\ op = [o \in Ops |-> Idle]
    /\ started = 0
    /\ latest = [b \in Blocks |-> fillToSize(Fetched(b, BlockSize), BlockSize)]
    /\ excused = {}

\* Bytes of block b that lie in the range of an operation.
Part(o, b) == {i \in 1..BlockSize : b * BlockSize + i - 1 \in op[o].from..(op[o].to - 1)}

\* Bytes written over a block from an offset on.
Patched(buf, offset, data) ==
    LET new == fillToSize(Prefix(buf, offset), offset) \o data
    IN  new \o SubSeq(buf, Len(new) + 1, Len(buf))

-----------------------------------------------------------------------------

Start(o, op1) ==
    /\ op[o].kind = "idle" /\ started < MaxOps
    /\ op' = [op EXCEPT ![o] = op1]
    /\ started' = started + 1
    /\ UNCHANGED <<store, object, locks, latest, excused>>

BlocksOf(from, to) == [b \in Blocks |-> IF b \in getBlockId(from)..getBlockId(to - 1) THEN "queued" ELSE "done"]

\* write: a task for each block of the range.
write(o) ==
    \E from \in 0..(FileSize - 1), to \in 1..FileSize :
        from < to /\ Start(o, [kind |-> "write", from |-> from, to |-> to, pc |-> BlocksOf(from, to),
                               buf |-> [b \in Blocks |-> <<>>], ret |-> "ok"])

\* read, readBlocks: a task for each block of the range.
read(o) ==
    \E from, to \in Blocks :
        from <= to /\ Start(o, [kind |-> "read", pc |-> BlocksOf(from * BlockSize, to * BlockSize + 1),
                                ret |-> "ok"])

\* Objects truncate() deletes: those behind the last block that stays.
KeysBehind(size, currentSize) ==
    SelectSeq([i \in 1..(getBlockId(currentSize) + 1) |-> i - 1],
              LAMBDA b : b > getBlockId(size) \/ (b = getBlockId(size) /\ getBlockOffset(size) = 0))

\* truncate: the last block that stays is cut or filled, then those behind it are deleted.
truncate(o) ==
    \E size, currentSize \in 0..(FileSize - 1) :
        LET whole == getBlockOffset(size) = 0
            last == IF whole THEN getBlockId(size) - 1 ELSE getBlockId(size)
            rem == IF whole THEN BlockSize ELSE getBlockOffset(size)
        IN  /\ size # currentSize
            /\ Start(o, [kind |-> "truncate", pc |-> [b \in Blocks |-> IF b = last THEN "queued" ELSE "done"],
                         buf |-> [b \in Blocks |-> <<>>], rem |-> rem,
                         keys |-> KeysBehind(size, currentSize), at |-> 0, ret |-> "ok"])

\* unlink: every block up to the current size is deleted.
unlink(o) ==
    \E currentSize \in 1..(FileSize - 1) :
        Start(o, [kind |-> "unlink", pc |-> NoTask,
                  keys |-> [i \in 1..(getBlockId(currentSize) + 1) |-> i - 1], at |-> 0, ret |-> "ok"])

Task(o, b, pc) == op[o].kind # "idle" /\ op[o].pc[b] = pc

\* A task of the operation has failed or ended; its lock is erased.
TaskEnds(o, b, ok) ==
    /\ op' = [op EXCEPT ![o].pc[b] = "done", ![o].ret = IF ok THEN @ ELSE "error"]
    /\ locks' = [locks EXCEPT ![b] = 0]


\* m_locks->insert: whole blocks, and parts of blocks where the store can write parts, are
\* stored without being read.
Lock(o, b) ==
    /\ Task(o, b, "queued") /\ locks[b] = 0
    /\ locks' = [locks EXCEPT ![b] = o]
    /\ op' = [op EXCEPT ![o].pc[b] =
          IF op[o].kind = "write" /\ (hasRandomAccess \/ Part(o, b) = 1..BlockSize) THEN "put" ELSE "get"]
    /\ UNCHANGED <<store, object, started, latest, excused>>

\* getObject: the task ends with the error, or goes on with what it has read; s3 reports an
\* error it does not know as ENOENT, and the block reads as missing.
GetBlock(o, b) ==
    LET Goes(bytes) ==
            /\ op[o].kind # "read"
            /\ op' = [op EXCEPT ![o].pc[b] = "put",
                                ![o].buf[b] = IF op[o].kind = "write" THEN bytes
                                              ELSE fillToSize(Prefix(bytes, op[o].rem), op[o].rem)]
            /\ UNCHANGED locks
    IN
    /\ Task(o, b, "get")
    /\ \/ (TaskEnds(o, b, FALSE) \/ (op[o].kind = "read" /\ TaskEnds(o, b, TRUE))) /\ UNCHANGED excused
       \/ Goes(Fetched(b, BlockSize)) /\ UNCHANGED excused
       \/ store = "s3" /\ Goes(<<>>) /\ excused' = excused \cup {b}
    /\ UNCHANGED <<store, object, started, latest>>

\* Bytes of block b after the put of a task: the object is replaced, or written over from an
\* offset on.
Stored(o, b) ==
    LET range == Part(o, b)
        offset == CHOOSE i \in range : i - 1 \notin range
        bytes == [i \in 1..Cardinality(range) |-> o]
        old == Fetched(b, BlockSize)
    IN  IF op[o].kind = "truncate"
        THEN IF hasRandomAccess THEN Patched(old, 0, op[o].buf[b]) ELSE op[o].buf[b]
        ELSE Patched(IF hasRandomAccess THEN old ELSE op[o].buf[b], offset - 1, bytes)

\* What a put is meant to make of the bytes of block b.
Meant(o, b) ==
    IF op[o].kind = "truncate"
    THEN [i \in 1..BlockSize |-> IF i <= op[o].rem \/ hasRandomAccess THEN latest[b][i] ELSE 0]
    ELSE [i \in 1..BlockSize |-> IF i \in Part(o, b) THEN o ELSE latest[b][i]]

\* putObject: the task ends, or a call that is to be repeated was carried out.
PutBlock(o, b) ==
    /\ Task(o, b, "put")
    /\ \/ /\ object' = [object EXCEPT ![b] = Stored(o, b)]
          /\ latest' = [latest EXCEPT ![b] = Meant(o, b)]
          /\ TaskEnds(o, b, TRUE) \/ TaskEnds(o, b, FALSE) \/ UNCHANGED <<op, locks>>
       \/ TaskEnds(o, b, FALSE) /\ UNCHANGED <<object, latest>>
    /\ UNCHANGED <<store, started, excused>>

TasksEnded(o) == op[o].kind # "idle" /\ \A b \in Blocks : op[o].pc[b] = "done"

Answer(o) == op' = [op EXCEPT ![o] = Idle]

Delete(bs) ==
    /\ object' = [b \in Blocks |-> IF b \in bs THEN NoObject ELSE object[b]]
    /\ latest' = [b \in Blocks |-> IF b \in bs THEN [i \in 1..BlockSize |-> 0] ELSE latest[b]]
    /\ excused' = excused \cup {b \in bs : locks[b] # 0}

\* The keys of one request: as many as are left, always from the first one on.
Batch(keys, at) ==
    LET left == Len(keys) - at
    IN  SubSeq(keys, 1, IF left < MAX_DELETE_OBJECTS THEN left ELSE MAX_DELETE_OBJECTS)

\* deleteObjects, a request: carried out, or failed after some keys (cephrados sends one
\* request per key); swift repeats it without the keys, and s3 sends the second one without
\* the bucket's name.
deleteObjects(o) ==
    LET keys == Batch(op[o].keys, op[o].at)
        More == op' = [op EXCEPT ![o].at = @ + MAX_DELETE_OBJECTS]
    IN  /\ op[o].kind \in {"truncate", "unlink"} /\ TasksEnded(o)
        /\ op[o].ret = "ok" /\ op[o].at < Len(op[o].keys)
        /\ \/ ~(store = "s3" /\ op[o].at > 0) /\ Delete(ToSet(keys)) /\ More
           \/ store = "swift" /\ Delete({}) /\ More
           \/ \E n \in 0..(IF hasRandomAccess THEN Len(keys) - 1 ELSE 0) :
                 Delete(ToSet(SubSeq(keys, 1, n))) /\ Answer(o)
        /\ UNCHANGED <<store, locks, started>>

\* The operation answers.
Finish(o) ==
    /\ TasksEnded(o)
    /\ op[o].kind \in {"truncate", "unlink"} /\ op[o].ret = "ok" => op[o].at >= Len(op[o].keys)
    /\ Answer(o)
    /\ UNCHANGED <<store, object, locks, started, latest, excused>>

Next ==
    \E o \in Ops :
        \/ write(o) \/ read(o) \/ truncate(o) \/ unlink(o) \/ deleteObjects(o) \/ Finish(o)
        \/ \E b \in Blocks : Lock(o, b) \/ GetBlock(o, b) \/ PutBlock(o, b)

Spec == Init /\ [][Next]_vars

-----------------------------------------------------------------------------


(***************************************************************************)
(* deleteObjects deletes the objects it is given: "Vector of keys of       *)
(* objects to be deleted", so after an unlink() or truncate() that         *)
(* succeeds none of them is left.                                          *)
(***************************************************************************)
DeletesAll ==
    [][\A o \in Ops :
          op[o].kind \in {"unlink", "truncate"} /\ op[o].ret = "ok" /\ op[o].at >= Len(op[o].keys)
              /\ op'[o].kind = "idle" => \A b \in ToSet(op[o].keys) : object'[b] = NoObject]_vars

=============================================================================
