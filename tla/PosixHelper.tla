----------------------------- MODULE PosixHelper -----------------------------
(***************************************************************************)
(* The path operations of PosixHelper (posixHelper.cc).  Each takes the    *)
(* user context of its helper for the thread that runs it, makes its       *)
(* system calls and gives the thread its former context back.  Threads are *)
(* shared by helpers of different users.                                   *)
(*                                                                         *)
(* Paths, attributes and file contents are left out: a system call returns *)
(* any of its results.  A user stands for its uid and gid.                 *)
(***************************************************************************)
EXTENDS StorageHelper, Sequences

CONSTANTS
    Users,          \* users helpers are created for
    Settable,       \* users whose ids the process may take
    KeepUser,       \* uid and gid -1: run as the process
    ProcessUser,    \* who the threads run as between operations
    Directory       \* entries of a directory in the order ::readdir gives them

VARIABLES
    worker,     \* worker[w]: the operation of thread w and the system call it is at
    errno,      \* errno[w]: error of the last system call of thread w that failed
    fsuid       \* fsuid[w]: user whose ids thread w has

vars == <<worker, errno, fsuid>>

Init ==
    /\ worker = [w \in Workers |-> Answered("none")]
    /\ errno = [w \in Workers |-> "none"]
    /\ fsuid = [w \in Workers |-> ProcessUser]

At(w, op, call) == worker[w].op = op /\ worker[w].call = call

\* setfsuid and setfsgid: the ids of the thread after asking for a user's.
setfsuid(w, user) == IF user \in Settable THEN user ELSE fsuid[w]

\* UserCtxSetter::valid.
valid(user, curr) == user = KeepUser \/ curr = user

\* An operation starts on a thread and takes the user context.
Enter(w, op, call, arg) ==
    /\ worker[w].op = "idle"
    /\ \E user \in Users :
          LET curr == setfsuid(w, user) IN
          IF valid(user, curr)
          THEN /\ worker' = [worker EXCEPT ![w] = [op |-> op, call |-> call, tries |-> 0,
                                                   arg |-> arg, user |-> user, prev |-> fsuid[w]]]
               /\ fsuid' = [fsuid EXCEPT ![w] = curr]
          ELSE /\ worker' = [worker EXCEPT ![w] = Answered("EDOM")]
               /\ UNCHANGED fsuid
    /\ UNCHANGED errno

\* Faulty variant: the former user context is not given back.
LeaveAsUser(w, ret) == worker' = [worker EXCEPT ![w] = Answered(ret)] /\ UNCHANGED fsuid

\* The operation answers; ~UserCtxSetter gives the thread its former ids.
Leave(w, ret) ==
    /\ worker' = [worker EXCEPT ![w] = Answered(ret)]
    /\ fsuid' = [fsuid EXCEPT ![w] = worker[w].prev]

Goto(w, call, arg) ==
    /\ worker' = [worker EXCEPT ![w].call = call, ![w].tries = 0, ![w].arg = arg]
    /\ UNCHANGED fsuid

\* A system call sets errno when it fails.
SetErrno(w, r) == errno' = IF r \in LibraryErrors THEN [errno EXCEPT ![w] = r] ELSE errno

\* One attempt of a retried system call: the result is good, or the call is made again.
retry(w, results, Good(_), Then(_)) ==
    \E r \in results :
        /\ SetErrno(w, r)
        /\ IF Final(worker[w].tries, Good(r))
           THEN Then(r)
           ELSE worker' = [worker EXCEPT ![w].tries = @ + 1] /\ UNCHANGED fsuid

\* A call made once.
Once(w, results, Then(_)) == \E r \in results : SetErrno(w, r) /\ Then(r)

POSIXRetryCondition(r) == r \notin RetryErrors

\* A retried call whose result is the answer: setResult.
setResult(w, op) ==
    /\ At(w, op, op)
    /\ retry(w, Results, POSIXRetryCondition, LAMBDA r : Leave(w, r))

-----------------------------------------------------------------------------
\* The operations.

getattr(w) == Enter(w, "lstat", "lstat", 0) \/ setResult(w, "lstat")
access(w) == Enter(w, "access", "access", 0) \/ setResult(w, "access")
readlink(w) == Enter(w, "readlink", "readlink", 0) \/ setResult(w, "readlink")
mkdir(w) == Enter(w, "mkdir", "mkdir", 0) \/ setResult(w, "mkdir")
unlink(w) == Enter(w, "unlink", "unlink", 0) \/ setResult(w, "unlink")
rmdir(w) == Enter(w, "rmdir", "rmdir", 0) \/ setResult(w, "rmdir")
symlink(w) == Enter(w, "symlink", "symlink", 0) \/ setResult(w, "symlink")
rename(w) == Enter(w, "rename", "rename", 0) \/ setResult(w, "rename")
link(w) == Enter(w, "link", "link", 0) \/ setResult(w, "link")
chmod(w) == Enter(w, "chmod", "chmod", 0) \/ setResult(w, "chmod")
chown(w) == Enter(w, "chown", "chown", 0) \/ setResult(w, "chown")
truncate(w) == Enter(w, "truncate", "truncate", 0) \/ setResult(w, "truncate")
removexattr(w) == Enter(w, "removexattr", "removexattr", 0) \/ setResult(w, "removexattr")

\* open: the answer ok is a handle made for the descriptor.
open(w) == Enter(w, "open", "open", 0) \/ setResult(w, "open")

\* A directory listing in the making: next entry, entries to skip and to list, names listed.
Listing(pos, offset, count, names) == [pos |-> pos, skip |-> offset, offset |-> offset,
                                       count |-> count, want |-> count, names |-> names]

\* Faulty variant: an entry that is skipped counts as listed.
TakeEntryMiscounted(l) ==
    LET name == Directory[l.pos] IN
    IF name \in {".", ".."} THEN [l EXCEPT !.pos = @ + 1]
    ELSE IF l.skip > 0 THEN [l EXCEPT !.pos = @ + 1, !.skip = @ - 1, !.count = @ - 1]
    ELSE [l EXCEPT !.pos = @ + 1, !.count = @ - 1, !.names = Append(@, name)]

\* The body of the loop of readdir: one entry the system call gave.
TakeEntry(l) ==
    LET name == Directory[l.pos] IN
    IF name \in {".", ".."} THEN [l EXCEPT !.pos = @ + 1]
    ELSE IF l.skip > 0 THEN [l EXCEPT !.pos = @ + 1, !.skip = @ - 1]
    ELSE [l EXCEPT !.pos = @ + 1, !.count = @ - 1, !.names = Append(@, name)]

\* What ::readdir returns: the next entry, or null with errno left as it was
\* at the end of the directory, or null with an error.
Entries(l) == (IF l.pos <= Len(Directory) THEN {"entry"} ELSE {"end"}) \cup {"EAGAIN", "ENOENT"}

(***************************************************************************)
(* readdir: the condition of the retried ::readdir looks at errno whatever *)
(* made the result null, so the end of the directory is asked for again    *)
(* when an earlier call of the thread left a retry error there.            *)
(***************************************************************************)
readdir(w) ==
    \/ \E offset \in 0..1, count \in 0..2 :
          Enter(w, "readdir", "opendir", Listing(1, offset, count, <<>>))
    \/ /\ At(w, "readdir", "opendir")
       /\ retry(w, Results, POSIXRetryCondition,
                LAMBDA r : IF r = "ok" THEN Goto(w, "readdir", worker[w].arg) ELSE Leave(w, r))
    \/ /\ At(w, "readdir", "readdir")
       /\ retry(w, Entries(worker[w].arg),
                LAMBDA r : r = "entry" \/ errno'[w] \notin RetryErrors,
                LAMBDA r : IF r = "entry" /\ worker[w].arg.count > 0
                           THEN Goto(w, "readdir", TakeEntry(worker[w].arg))
                           ELSE Leave(w, "ok"))

\* mknod: a regular file is created by open and closed again; the close is not retried.
mknod(w) ==
    \/ \E call \in {"open", "mkfifo", "mknod"} : Enter(w, "mknod", call, 0)
    \/ /\ \E call \in {"open", "mkfifo", "mknod"} : At(w, "mknod", call)
       /\ retry(w, Results, POSIXRetryCondition,
                LAMBDA r : IF r = "ok" /\ worker[w].call = "open" THEN Goto(w, "close", 0) ELSE Leave(w, r))
    \/ At(w, "mknod", "close") /\ Once(w, Results, LAMBDA r : Leave(w, r))

\* getxattr: a value that does not fit the first buffer is asked for again with the largest.
getxattr(w) ==
    \/ Enter(w, "getxattr", "small", 0)
    \/ /\ At(w, "getxattr", "small")
       /\ retry(w, Results \cup {"ERANGE"}, POSIXRetryCondition,
                LAMBDA r : IF r = "ERANGE" THEN Goto(w, "large", 0) ELSE Leave(w, r))
    \/ /\ At(w, "getxattr", "large")
       /\ retry(w, Results, POSIXRetryCondition, LAMBDA r : Leave(w, r))

\* setxattr: create and replace exclude each other.
setxattr(w) ==
    \/ Enter(w, "setxattr", "flags", 0)
    \/ /\ At(w, "setxattr", "flags")
       /\ \E create, replace \in BOOLEAN :
             IF create /\ replace THEN Leave(w, "EINVAL") ELSE Goto(w, "setxattr", 0)
       /\ UNCHANGED errno
    \/ setResult(w, "setxattr")

\* listxattr: the size is asked for with retries, the names once; they may have
\* outgrown the size by then.
listxattr(w) ==
    \/ Enter(w, "listxattr", "size", 0)
    \/ /\ At(w, "listxattr", "size")
       /\ retry(w, Results \cup {"empty"}, POSIXRetryCondition,
                LAMBDA r : IF r = "ok" THEN Goto(w, "names", 0)
                           ELSE Leave(w, IF r = "empty" THEN "ok" ELSE r))
    \/ At(w, "listxattr", "names") /\ Once(w, Results \cup {"ERANGE"}, LAMBDA r : Leave(w, r))

Next ==
    \E w \in Workers :
        \/ getattr(w) \/ access(w) \/ readdir(w) \/ readlink(w) \/ mknod(w) \/ mkdir(w)
        \/ unlink(w) \/ rmdir(w) \/ symlink(w) \/ rename(w) \/ link(w) \/ chmod(w) \/ chown(w)
        \/ truncate(w) \/ open(w) \/ getxattr(w) \/ setxattr(w) \/ removexattr(w) \/ listxattr(w)

Spec == Init /\ [][Next]_vars

-----------------------------------------------------------------------------

(***************************************************************************)
(* A thread makes system calls with the ids of the user its operation is   *)
(* for, and has the ids of the process again between operations: a user    *)
(* context never stays behind for the operation the thread runs next       *)
(* (UserCtxSetter in every operation, helpers of all users on one          *)
(* executor).                                                              *)
(***************************************************************************)
CallsAsOwner ==
    \A w \in Workers :
        IF worker[w].op = "idle" THEN fsuid[w] = ProcessUser
        ELSE IF worker[w].user = KeepUser THEN fsuid[w] = ProcessUser
        ELSE fsuid[w] = worker[w].user

(***************************************************************************)
(* An operation answers with a retry error only after all retries of the   *)
(* call that failed, never more (retry and its bound), and the error it    *)
(* answers with is the one its last system call left in errno.  The close  *)
(* in mknod and the second ::listxattr are not retried.                    *)
(***************************************************************************)
GivesUpWithErrno ==
    \A w \in Workers :
        worker[w].op # "idle" /\ worker'[w].op = "idle" /\ worker'[w].ret \in LibraryErrors =>
            /\ worker'[w].ret = errno'[w]
            /\ worker'[w].ret \in RetryErrors =>
                  worker[w].tries = IO_RETRY_COUNT \/ worker[w].call \in {"close", "names"}

\* The names a directory holds, in order, without "." and "..".
Names == SelectSeq(Directory, LAMBDA name : name \notin {".", ".."})

(***************************************************************************)
(* A listing starts at the entry asked for and goes on without gaps for at *)
(* most the number of entries asked for; it may end early, because an      *)
(* error of ::readdir ends the loop like the end of the directory does.    *)
(***************************************************************************)
ListingIsSlice ==
    \A w \in Workers :
        worker[w].op = "readdir" =>
            LET l == worker[w].arg IN
            /\ Len(l.names) <= l.want
            /\ l.skip = 0 => l.names = SubSeq(Names, l.offset + 1, l.offset + Len(l.names))
            /\ l.skip > 0 => l.names = <<>>
            /\ Len(l.names) + l.count = l.want

=============================================================================
