--------------------------- MODULE NullDeviceHelper ---------------------------
(***************************************************************************)
(* The null device helper (nullDeviceHelper.cc): it accepts every          *)
(* operation, after a simulated latency, or fails it with a simulated      *)
(* timeout, and may simulate a tree of directories and files that grows as *)
(* time passes.  An entry of the tree is known by the ids on its path; it  *)
(* exists once its distance, over the speed of growth, has passed.         *)
(*                                                                         *)
(* The counts of entries per level are those the constructor precalculates *)
(* for the first levels of its vector; the copies that later calls append  *)
(* are never read.  Times of the entries' attributes are left out.         *)
(***************************************************************************)
EXTENDS StorageHelper, Integers, Sequences, FiniteSetsExt, Folds

CONSTANTS
    Trees,          \* simulated filesystems: sequences of <<directories, files>> per level
    Filters,        \* sets of operations that may time out: those of the filter, all of them if it
                    \* is empty or "*", none if the probability is 0
    GrowSpeed,      \* entries per unit of time
    MaxTime,        \* bound on the time since the mount
    MaxCount        \* bound on offsets and counts of listings

VARIABLES
    worker,     \* worker[w]: the operation of thread w, or the answer of its last one
    params,     \* m_simulatedFilesystemParameters
    filter,     \* m_filter, m_applyToAllOperations and m_timeoutProbability together
    drain,      \* drain[w]: FALSE once an exception left the drain of a file handle's queue
    now         \* time since the mount

vars == <<worker, params, filter, drain, now>>

Done(ret) == [op |-> "idle", ret |-> ret]

Init ==
    /\ worker = [w \in Workers |-> Done("none")]
    /\ params \in Trees
    /\ filter \in Filters
    /\ drain = [w \in Workers |-> TRUE]
    /\ now = 0

Tick == now < MaxTime /\ now' = now + 1 /\ UNCHANGED <<worker, params, filter, drain>>

isSimulatedFilesystem == params # <<>>

Entries(level) == params[level][1] + params[level][2]

Product(s) == FoldFunction(LAMBDA a, b : a * b, 1, s)

\* The number of entries on a level, the last one for levels below it.
simulatedFilesystemLevelEntryCount(level) ==
    LET l == Min({level, Len(params)}) IN
    Product([i \in 1..(l - 1) |-> params[i][1]]) * Entries(l)

\* The distance of an entry in the tree; size_t wraps as the int64 seconds made of it do.
simulatedFilesystemFileDist(path) ==
    IF path = <<>> THEN 0
    ELSE LET level == Len(path) IN
         MapThenSumSet(simulatedFilesystemLevelEntryCount, 1..(level - 1))
             + Entries(level) * (Product(SubSeq(path, 1, level - 1)) - 1) + path[level]

Exists(path, time) == GrowSpeed = 0 \/ simulatedFilesystemFileDist(path) < GrowSpeed * time

\* The directories of the tree.
Dirs == {<<>>} \cup UNION {{p \in [1..n -> 0..Max({params[i][1] : i \in 1..n})] :
                               \A i \in 1..n : p[i] < params[i][1]} : n \in 1..Len(params)}

-----------------------------------------------------------------------------

applies(name) == name \in filter

Answer(w, ret) == worker' = [worker EXCEPT ![w] = Done(ret)]

\* SIMULATE_STORAGE_ISSUES, simulateTimeout: an operation times out or goes on.
Simulate(w, name, Then) ==
    /\ worker[w].op = "idle"
    /\ (applies(name) /\ Answer(w, "EAGAIN")) \/ Then
    /\ UNCHANGED <<params, filter, drain, now>>

access(w) == Simulate(w, "access", Answer(w, "ok"))
readlink(w) == Simulate(w, "readlink", Answer(w, "ok"))
mknod(w) == Simulate(w, "mknod", Answer(w, "ok"))
mkdir(w) == Simulate(w, "mkdir", Answer(w, "ok"))
unlink(w) == Simulate(w, "unlink", Answer(w, "ok"))
rmdir(w) == Simulate(w, "rmdir", Answer(w, "ok"))
symlink(w) == Simulate(w, "symlink", Answer(w, "ok"))
rename(w) == Simulate(w, "rename", Answer(w, "ok"))
link(w) == Simulate(w, "link", Answer(w, "ok"))
chmod(w) == Simulate(w, "chmod", Answer(w, "ok"))
chown(w) == Simulate(w, "chown", Answer(w, "ok"))
truncate(w) == Simulate(w, "truncate", Answer(w, "ok"))
open(w) == Simulate(w, "open", Answer(w, "ok"))
getxattr(w) == Simulate(w, "getxattr", Answer(w, "ok"))
removexattr(w) == Simulate(w, "removexattr", Answer(w, "ok"))
listxattr(w) == Simulate(w, "listxattr", Answer(w, "ok"))

\* setxattr: create and replace exclude each other.
setxattr(w) == Simulate(w, "setxattr", Answer(w, "ok") \/ Answer(w, "EINVAL"))

\* A path leads to a directory.
IsDir(path) == path = <<>> \/ path[Len(path)] < params[Len(path)][1]

\* getattr: an entry of the tree, or a file whatever the name.
getattr(w) ==
    Simulate(w, "getattr",
        IF isSimulatedFilesystem
        THEN \/ Answer(w, "directory")
             \/ \E dir \in Dirs :
                   /\ Len(dir) < Len(params)
                   /\ \E id \in 0..(Entries(Len(dir) + 1) - 1) :
                         Answer(w, IF IsDir(Append(dir, id)) THEN "directory" ELSE "file")
        ELSE Answer(w, "file"))

\* readdir begins: the ids from offset up to last are looked at.
readdir(w) ==
    \E offset \in 0..MaxCount, count \in 1..MaxCount :
        Simulate(w, "readdir",
            IF isSimulatedFilesystem
            THEN \E path \in Dirs :
                    IF Len(path) < Len(params)
                    THEN worker' = [worker EXCEPT ![w] =
                            [op |-> "readdir", path |-> path, offset |-> offset, i |-> offset,
                             last |-> Min({offset + count, Entries(Len(path) + 1)}),
                             from |-> now, ret |-> {}]]
                    ELSE Answer(w, "ok")
            ELSE Answer(w, "ok"))


\* The loop of readdir: an id is listed if it exists by now.
readdirEntry(w) ==
    LET r == worker[w] IN
    /\ r.op = "readdir"
    /\ worker' = [worker EXCEPT ![w] =
          IF r.i >= r.last THEN Done("ok")
          ELSE [r EXCEPT !.i = @ + 1,
                         !.ret = IF Exists(Append(r.path, r.i), now) THEN @ \cup {r.i} ELSE @]]
    /\ UNCHANGED <<params, filter, drain, now>>

\* ReadOp and WriteOp answer a timeout.
HandleOp(w, name) == drain[w] /\ Simulate(w, name, Answer(w, "ok"))

ReadOp(w) == HandleOp(w, "read")
WriteOp(w) == HandleOp(w, "write")

\* ReleaseOp, FlushOp and FsyncOp throw it: the drain does not go on (module FlatOpScheduler).
ThrowingOp(w, name) ==
    /\ worker[w].op = "idle" /\ drain[w]
    /\ \/ Answer(w, "ok") /\ UNCHANGED drain
       \/ applies(name) /\ drain' = [drain EXCEPT ![w] = FALSE] /\ UNCHANGED worker
    /\ UNCHANGED <<params, filter, now>>

ReleaseOp(w) == ThrowingOp(w, "release")
FlushOp(w) == ThrowingOp(w, "flush")
FsyncOp(w) == ThrowingOp(w, "fsync")

Next ==
    \/ Tick
    \/ \E w \in Workers :
          \/ getattr(w) \/ access(w) \/ readdir(w) \/ readdirEntry(w) \/ readlink(w) \/ mknod(w)
          \/ mkdir(w) \/ unlink(w) \/ rmdir(w) \/ symlink(w) \/ rename(w) \/ link(w) \/ chmod(w)
          \/ chown(w) \/ truncate(w) \/ open(w) \/ getxattr(w) \/ setxattr(w) \/ removexattr(w)
          \/ listxattr(w) \/ ReadOp(w) \/ WriteOp(w) \/ ReleaseOp(w) \/ FlushOp(w) \/ FsyncOp(w)

Spec == Init /\ [][Next]_vars

-----------------------------------------------------------------------------


=============================================================================
