----------------------------- MODULE WebDAVHelper -----------------------------
(***************************************************************************)
(* The WebDAV helper (webDAVHelper.cc, webDAVHelper.h): operations share a *)
(* pool of sessions.  An operation takes an idle session, connects it if   *)
(* it is not connected, starts one HTTP transaction on it and gives the    *)
(* session back when the transaction is detached.                          *)
(*                                                                         *)
(* The HTTP library is modelled by its callbacks: an HTTP session may end  *)
(* at any time; a transaction sees headers and an end, or an error, and is *)
(* detached after either; a session is destroyed when it has none.  Bodies *)
(* are left out but for being well formed or not.  Operations choose what  *)
(* they are when they have their session: up to there all are alike.       *)
(***************************************************************************)
EXTENDS Integers, Sequences, SequencesExt

CONSTANTS
    Sessions,           \* sessions of the pool
    Ops,                \* operations that may run at a time
    RangeWriteSupport   \* values of rangeWriteSupport: "NONE", "SABREDAV", "MODDAV"

VARIABLES
    idle,       \* m_idleSessionPool
    session,    \* session[s]: [http, closedByRemote, sessionValid]
    op,         \* op[o]: [pc, s, body, ret], how far operation o is
    lost,       \* sessions an operation took and answered without giving back
    rangeWrite  \* m_rangeWriteSupport

vars == <<idle, session, op, lost, rangeWrite>>

NoOp == [pc |-> "idle", s |-> "none", body |-> FALSE, ret |-> "none"]

Init ==
    /\ idle = SetToSeq(Sessions)
    /\ session = [s \in Sessions |-> [http |-> "none", closedByRemote |-> FALSE, sessionValid |-> FALSE]]
    /\ op = [o \in Ops |-> NoOp]
    /\ lost = {}
    /\ rangeWrite \in RangeWriteSupport

\* httpStatusToPosixError.
httpStatusToPosixError(status) ==
    CASE status \div 100 = 2 -> "ok"
      [] status \div 100 < 4 -> "EIO"
      [] status \in {401, 403, 451} -> "EPERM"
      [] status \in {400, 409} -> "EBADMSG"
      [] status = 404 -> "ENOENT"
      [] status \in {405, 501} -> "ENOTSUP"
      [] status \in {406, 407, 511} -> "EACCES"
      [] status \in {408, 504} -> "EAGAIN"
      [] status \in {410, 502, 503} -> "ENXIO"
      [] status \in {411, 412, 414, 415, 417, 426, 428, 505} -> "EINVAL"
      [] status \in {413, 431} -> "EFBIG"
      [] status = 416 -> "ERANGE"
      [] status = 429 -> "EBUSY"
      [] OTHER -> "EIO"

\* Statuses a server answers with, one for each way the operations go on.
Statuses == {207, 404}

At(o, pc) == op[o].pc = pc
Session(o) == session[op[o].s]

\* releaseSession.
releaseSession(s) == idle' = Append(idle, s)

\* The operation is over and its caller has the answer.
Answer(o) == op' = [op EXCEPT ![o] = NoOp]

-----------------------------------------------------------------------------
\* connect().

\* The pool gives an idle session.
connect(o) ==
    /\ At(o, "idle") /\ idle # <<>>
    /\ op' = [op EXCEPT ![o] = [NoOp EXCEPT !.pc = "connect", !.s = Head(idle)]]
    /\ idle' = Tail(idle)
    /\ UNCHANGED <<session, lost, rangeWrite>>

\* WebDAVSession::reset; the promise it replaces is broken.
reset(s) ==
    [session EXCEPT ![s].sessionValid = FALSE, ![s].closedByRemote = FALSE]

(***************************************************************************)
(* The lambda on the event base of the session.  A session that has an     *)
(* HTTP session the server did not announce to close is taken as it is,    *)
(* valid or not; otherwise it is reset, which answers an operation that    *)
(* still waits for an earlier connection of it, and connected.             *)
(***************************************************************************)
connectSession(o) ==
    LET s == op[o].s IN
    /\ At(o, "connect")
    /\ IF ~session[s].closedByRemote /\ session[s].http # "none"
       THEN op' = [op EXCEPT ![o].pc = "connected"] /\ UNCHANGED session
       ELSE /\ session' = reset(s)
            /\ op' = [p \in Ops |-> IF p = o THEN [op[o] EXCEPT !.pc = "connecting"]
                                    ELSE IF op[p].s = s THEN NoOp
                                    ELSE op[p]]
    /\ UNCHANGED <<idle, lost, rangeWrite>>

connectSuccess(o) ==
    /\ At(o, "connecting")
    /\ session' = [session EXCEPT ![op[o].s].http = "open", ![op[o].s].sessionValid = TRUE]
    /\ op' = [op EXCEPT ![o].pc = "connected"]
    /\ UNCHANGED <<idle, lost, rangeWrite>>

\* connectError: the session is released; the operation that waits is not told.
connectError(o) ==
    /\ At(o, "connecting")
    /\ releaseSession(op[o].s)
    /\ op' = [op EXCEPT ![o].pc = "waiting"]
    /\ UNCHANGED <<session, lost, rangeWrite>>

-----------------------------------------------------------------------------
\* Requests.

\* A request is made for the session; body: its answer depends on the body of the response.
Begin(o, body, pc) ==
    /\ At(o, "connected")
    /\ op' = [op EXCEPT ![o].body = body, ![o].pc = pc]
    /\ UNCHANGED <<idle, session, lost, rangeWrite>>

\* GET and PATCH of nothing start no transaction; the request is destroyed.
WebDAVGET(o, size) == Begin(o, FALSE, IF size = 0 THEN "unsent" ELSE "start")
WebDAVPATCH(o, size) == Begin(o, FALSE, IF size = 0 THEN "unsent" ELSE "start")
WebDAVPUT(o) == Begin(o, FALSE, "start")
WebDAVMKCOL(o) == Begin(o, FALSE, "start")
WebDAVDELETE(o) == Begin(o, FALSE, "start")
WebDAVMOVE(o) == Begin(o, FALSE, "start")
WebDAVPROPFIND(o) == Begin(o, TRUE, "start")
WebDAVPROPPATCH(o) == Begin(o, TRUE, "start")

\* ~WebDAVRequest of a request without a transaction.
WebDAVRequestDestroyed(o) ==
    /\ At(o, "unsent")
    /\ releaseSession(op[o].s)
    /\ Answer(o)
    /\ UNCHANGED <<session, lost, rangeWrite>>

\* startTransaction: EAGAIN when the HTTP session cannot take a transaction.
startTransaction(o) ==
    /\ At(o, "start")
    /\ \/ /\ Session(o).closedByRemote \/ ~Session(o).sessionValid \/ Session(o).http # "open"
          /\ releaseSession(op[o].s)
          /\ Answer(o)
       \/ /\ ~(Session(o).closedByRemote \/ ~Session(o).sessionValid \/ Session(o).http # "open")
          /\ \/ op' = [op EXCEPT ![o].pc = "sent"] /\ UNCHANGED idle
             \/ releaseSession(op[o].s) /\ Answer(o)
    /\ UNCHANGED <<session, lost, rangeWrite>>

\* onHeadersComplete: the server may announce that it closes the connection.
onHeadersComplete(o) ==
    /\ At(o, "sent")
    /\ \E status \in Statuses, close \in BOOLEAN :
          /\ session' = [session EXCEPT ![op[o].s].closedByRemote = @ \/ close]
          /\ op' = [op EXCEPT ![o].pc = "headers", ![o].ret = httpStatusToPosixError(status)]
    /\ UNCHANGED <<idle, lost, rangeWrite>>

\* The promise of the request is set.
Set(o, ret) ==
    /\ op' = [op EXCEPT ![o].pc = "done", ![o].ret = ret]
    /\ UNCHANGED <<idle, session, lost, rangeWrite>>

\* onEOM: the status is the answer.
onEOM(o) == At(o, "headers") /\ Set(o, op[o].ret)

\* onEOM of PROPFIND and PROPPATCH: a body that is no XML, or does not say that the
\* property was set, is EIO.
BodyOnEOM(o) == At(o, "headers") /\ op[o].body /\ op[o].ret = "ok" /\ Set(o, "EIO")

onError(o) == (At(o, "sent") \/ At(o, "headers")) /\ Set(o, "error")

\* Faulty variant: the transaction lets the session go when it failed, and so does its end.
DetachReleasesTwice(o) ==
    /\ At(o, "done")
    /\ idle' = IF op[o].ret = "error" THEN idle \o <<op[o].s, op[o].s>> ELSE Append(idle, op[o].s)
    /\ Answer(o)
    /\ UNCHANGED <<session, lost, rangeWrite>>

\* detachTransaction.
detachTransaction(o) ==
    /\ At(o, "done")
    /\ releaseSession(op[o].s)
    /\ Answer(o)
    /\ UNCHANGED <<session, lost, rangeWrite>>

-----------------------------------------------------------------------------
\* The operations of the helper and of a file handle, from the session on.

read(o) == \E size \in 0..1 : WebDAVGET(o, size)

\* write: refused when the handle is gone or ranges cannot be written, with the session kept.
write(o) ==
    \/ /\ At(o, "connected")
       /\ Answer(o)
       /\ lost' = lost \cup {op[o].s}
       /\ UNCHANGED <<idle, session, rangeWrite>>
    \/ rangeWrite = "SABREDAV" /\ \E size \in 0..1 : WebDAVPATCH(o, size)
    \/ rangeWrite = "MODDAV" /\ WebDAVPUT(o)

access(o) == WebDAVPROPFIND(o)
getattr(o) == WebDAVPROPFIND(o)
unlink(o) == WebDAVDELETE(o)
rmdir(o) == WebDAVDELETE(o)
mknod(o) == WebDAVPUT(o)
mkdir(o) == WebDAVMKCOL(o)
rename(o) == WebDAVMOVE(o)
readdir(o) == WebDAVPROPFIND(o)
getxattr(o) == WebDAVPROPFIND(o)
setxattr(o) == WebDAVPROPPATCH(o)
removexattr(o) == WebDAVPROPPATCH(o)
listxattr(o) == WebDAVPROPFIND(o)

\* truncate: to nothing or to more than the current size; to the current size and to less it
\* answers without a session.
truncate(o) == WebDAVPUT(o)

-----------------------------------------------------------------------------
\* The HTTP session of a session ends.

onIngressEOF(s) ==
    /\ session[s].http = "open"
    /\ session' = [session EXCEPT ![s].sessionValid = FALSE]
    /\ UNCHANGED <<idle, op, lost, rangeWrite>>

\* The HTTP session drains: it takes no new transaction.
Closing(s) ==
    /\ session[s].http = "open"
    /\ session' = [session EXCEPT ![s].http = "closing"]
    /\ UNCHANGED <<idle, op, lost, rangeWrite>>

HasTransaction(s) == \E o \in Ops : op[o].s = s /\ op[o].pc \in {"sent", "headers", "done"}

onDestroy(s) ==
    /\ session[s].http \in {"open", "closing"} /\ ~HasTransaction(s)
    /\ session' = [session EXCEPT ![s].http = "destroyed", ![s].sessionValid = FALSE]
    /\ UNCHANGED <<idle, op, lost, rangeWrite>>

\* What runs on the event bases and in the HTTP library until the operation is over.
Steps(o) ==
    \/ connectSession(o) \/ connectSuccess(o) \/ connectError(o)
    \/ read(o) \/ write(o) \/ access(o) \/ getattr(o) \/ unlink(o) \/ rmdir(o) \/ mknod(o)
    \/ mkdir(o) \/ rename(o) \/ readdir(o) \/ getxattr(o) \/ setxattr(o) \/ removexattr(o)
    \/ listxattr(o) \/ truncate(o)
    \/ WebDAVRequestDestroyed(o) \/ startTransaction(o) \/ onHeadersComplete(o) \/ onError(o)
    \/ onEOM(o) \/ BodyOnEOM(o) \/ detachTransaction(o)

Next ==
    \/ \E o \in Ops : connect(o) \/ Steps(o)
    \/ \E s \in Sessions : onIngressEOF(s) \/ Closing(s) \/ onDestroy(s)

Spec == Init /\ [][Next]_vars

-----------------------------------------------------------------------------

\* Operation o is the one that may use session s.
Holds(o, s) == op[o].s = s /\ ~At(o, "waiting")

(***************************************************************************)
(* A session is idle once or in the hands of one operation, never both:    *)
(* sessions allow one transaction at a time, so two operations must not    *)
(* get the same one.  It is given back in four places: startTransaction,  *)
(* detachTransaction, connectError and the destructor of the request,      *)
(* which releases it only where nothing else did.                          *)
(***************************************************************************)
SessionExclusive ==
    \A s \in Sessions :
        Len(SelectSeq(idle, LAMBDA t : t = s)) =
            IF s \in lost \/ \E o \in Ops : Holds(o, s) THEN 0 ELSE 1

=============================================================================
