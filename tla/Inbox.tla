-------------------------------- MODULE Inbox --------------------------------
(***************************************************************************)
(* Requests and their replies (layers/inbox.h), over AsyncResponder        *)
(* (layers/asyncResponder.h), which hands every message to a pool of       *)
(* threads, and Retrier (layers/retrier.h).  communicate() enters a        *)
(* callback under a message id and sends; a reply or the failure of the    *)
(* last attempt takes the callback out and calls it.  Before that, a reply *)
(* goes to the subscriptions.                                              *)
(*                                                                         *)
(* A reply is represented by its request.  m_callbacks is a                *)
(* tbb::concurrent_hash_map: an accessor keeps its element locked.         *)
(* The server is external and replies once to what reaches it; the sockets *)
(* are external and behave as in module ConnectionPool: send() succeeds,   *)
(* reports an error before writing, or fails without calling back.         *)
(***************************************************************************)
EXTENDS Naturals, Sequences, FiniteSets

CONSTANTS
    Calls,          \* number of calls of communicate()
    Threads,        \* number of threads of the executor
    Subscribers,    \* calls of subscribe()
    Accepts,        \* Accepts[s]: replies the predicate of s accepts
    IdSpace,        \* values of the 16-bit counter m_nextMsgId
    Retries,        \* Retries[r]: the argument retries of communicate()
    MaxErrors,      \* bound: failures of the lower layer
    None, Error

\* The requests, numbered in the order in which they take their ids.
Requests == 1..Calls

ASSUME InboxAssumption ==
    /\ Calls \in Nat
    /\ Accepts \in [Subscribers -> SUBSET Requests]
    /\ Threads \in Nat \ {0}
    /\ IdSpace \in Nat \ {0}
    /\ Retries \in [Requests -> Nat]
    /\ MaxErrors \in Nat
    /\ None \notin Requests \cup Subscribers
    /\ Error \notin Requests

VARIABLES
    m_nextMsgId,            \* 16-bit counter
    m_callbacks,            \* whose callback is entered under an id
    m_subscriptions,        \* m_subscriptions[i]: the subscriber in slot i
    m_unusedSubscriptions,  \* queue of free slots
    request,                \* where a request is: pc, id, retries left
    replies,                \* replies on their way
    task,                   \* the handling of a reply: pc, handled, slot, end of the loop
    subscriber,             \* "new", "active" or "gone", and the slot
    errors,                 \* failures so far
    answers,                \* history: answers[r]: what the callback of r was called with
    calls,                  \* history: pairs of a subscriber and what it was called with
    thrown                  \* history: replies whose handling an exception ended

vars == <<m_nextMsgId, m_callbacks, m_subscriptions, m_unusedSubscriptions, request, replies,
          task, subscriber, errors, answers, calls, thrown>>

subscriptions == <<m_subscriptions, m_unusedSubscriptions, subscriber>>

Ids == 0..(IdSpace - 1)
NoTask == [pc |-> "none", handled |-> FALSE, slot |-> 0, end |-> 0]

\* A task holds an accessor to the element of the id.
Locked(id) == \E r \in Requests : task[r].handled /\ request[r].id = id

\* Tasks that occupy a thread.
Running == {r \in Requests : task[r] # NoTask}

Started == {r \in Requests : request[r].pc # "new"}

Init ==
    /\ m_nextMsgId = 0
    /\ m_callbacks = [id \in Ids |-> None]
    /\ m_subscriptions = <<>>
    /\ m_unusedSubscriptions = <<>>
    /\ request = [r \in Requests |-> [pc |-> "new", id |-> 0, retries |-> Retries[r]]]
    /\ replies = {}
    /\ task = [r \in Requests |-> NoTask]
    /\ subscriber = [s \in Subscribers |-> [pc |-> "new", slot |-> 0]]
    /\ errors = 0
    /\ answers = [r \in Requests |-> <<>>]
    /\ calls = {}
    /\ thrown = {}

(***************************************************************************)
(* communicate(): take an id, enter the callback (replacing one that is    *)
(* still entered under the id), send.                                      *)
(***************************************************************************)
TakeId(r) ==
    /\ request[r].pc = "new"
    /\ 1..(r - 1) \subseteq Started
    /\ request' = [request EXCEPT ![r].pc = "insert", ![r].id = m_nextMsgId]
    /\ m_nextMsgId' = (m_nextMsgId + 1) % IdSpace
    /\ UNCHANGED <<m_callbacks, subscriptions, replies, task, errors, answers, calls, thrown>>

\* Faulty variant: the member is read again instead of the copy.
InsertRereadsCounter(r) ==
    /\ request[r].pc = "insert"
    /\ ~Locked(request[r].id)
    /\ m_callbacks' = [m_callbacks EXCEPT ![m_nextMsgId] = r]
    /\ request' = [request EXCEPT ![r].pc = "send"]
    /\ UNCHANGED <<m_nextMsgId, subscriptions, replies, task, errors, answers, calls, thrown>>

Insert(r) ==
    /\ request[r].pc = "insert"
    /\ ~Locked(request[r].id)
    /\ m_callbacks' = [m_callbacks EXCEPT ![request[r].id] = r]
    /\ request' = [request EXCEPT ![r].pc = "send"]
    /\ UNCHANGED <<m_nextMsgId, subscriptions, replies, task, errors, answers, calls, thrown>>

(***************************************************************************)
(* Retrier::send(): an attempt succeeds, or reports an error and is        *)
(* repeated while retries are left, or never calls back.                   *)
(***************************************************************************)
SendSucceeds(r) ==
    /\ request[r].pc = "send"
    /\ request' = [request EXCEPT ![r].pc = "sent"]
    /\ replies' = replies \cup {r}
    /\ UNCHANGED <<m_nextMsgId, m_callbacks, subscriptions, task, errors, answers, calls, thrown>>

\* Faulty variant: the last failure is not reported.
SendFailsUnreported(r) ==
    /\ request[r].pc = "send"
    /\ errors < MaxErrors
    /\ errors' = errors + 1
    /\ request' = [request EXCEPT ![r] = IF @.retries > 0 THEN [@ EXCEPT !.retries = @ - 1]
                                                          ELSE [@ EXCEPT !.pc = "failed"]]
    /\ UNCHANGED <<m_nextMsgId, m_callbacks, subscriptions, replies, task, answers, calls, thrown>>

SendFails(r) ==
    /\ request[r].pc = "send"
    /\ errors < MaxErrors
    /\ errors' = errors + 1
    /\ request' = [request EXCEPT ![r] = IF @.retries > 0 THEN [@ EXCEPT !.retries = @ - 1]
                                                          ELSE [@ EXCEPT !.pc = "error"]]
    /\ UNCHANGED <<m_nextMsgId, m_callbacks, subscriptions, replies, task, answers, calls, thrown>>

SendSilent(r) ==
    /\ request[r].pc = "send"
    /\ errors < MaxErrors
    /\ errors' = errors + 1
    /\ request' = [request EXCEPT ![r].pc = "silent"]
    /\ replies' \in {replies, replies \cup {r}}
    /\ UNCHANGED <<m_nextMsgId, m_callbacks, subscriptions, task, answers, calls, thrown>>

\* Faulty variant: the entry is not erased.
CallWithoutErase(id, answer) ==
    IF m_callbacks[id] = None
    THEN UNCHANGED <<m_callbacks, answers>>
    ELSE /\ UNCHANGED m_callbacks
         /\ answers' = [answers EXCEPT ![m_callbacks[id]] = Append(@, answer)]

\* Take the callback entered under an id out, if there is one, and call it.
Call(id, answer) ==
    IF m_callbacks[id] = None
    THEN UNCHANGED <<m_callbacks, answers>>
    ELSE /\ m_callbacks' = [m_callbacks EXCEPT ![id] = None]
         /\ answers' = [answers EXCEPT ![m_callbacks[id]] = Append(@, answer)]

\* sendErrorCallback
SendError(r) ==
    /\ request[r].pc = "error"
    /\ ~Locked(request[r].id)
    /\ Call(request[r].id, Error)
    /\ request' = [request EXCEPT ![r].pc = "failed"]
    /\ UNCHANGED <<m_nextMsgId, subscriptions, replies, task, errors, calls, thrown>>

(***************************************************************************)
(* The message callback set by connect(): find the id, keeping its element *)
(* locked, then walk through the slots there are at that time.             *)
(***************************************************************************)
Receive(r) ==
    /\ r \in replies
    /\ Cardinality(Running) < Threads
    /\ ~Locked(request[r].id)
    /\ replies' = replies \ {r}
    /\ task' = [task EXCEPT ![r] = [pc |-> "predicate",
                                    handled |-> m_callbacks[request[r].id] # None,
                                    slot |-> 1, end |-> Len(m_subscriptions)]]
    /\ UNCHANGED <<m_nextMsgId, m_callbacks, subscriptions, request, errors, answers, calls, thrown>>


Accepted(s, r) == s # None /\ r \in Accepts[s]

Predicate(r) ==
    /\ task[r].pc = "predicate"
    /\ task[r].slot <= task[r].end
    /\ task' = [task EXCEPT ![r] = IF Accepted(m_subscriptions[@.slot], r)
                                   THEN [@ EXCEPT !.pc = "callback"]
                                   ELSE [@ EXCEPT !.slot = @ + 1]]
    /\ UNCHANGED <<m_nextMsgId, m_callbacks, subscriptions, request, replies, errors, answers, calls, thrown>>

\* The slot's callback is called, whosever it is by now ...
CallSubscriber(r) ==
    /\ task[r].pc = "callback"
    /\ m_subscriptions[task[r].slot] # None
    /\ calls' = calls \cup {<<m_subscriptions[task[r].slot], r>>}
    /\ task' = [task EXCEPT ![r] = [@ EXCEPT !.pc = "predicate", !.slot = @ + 1]]
    /\ UNCHANGED <<m_nextMsgId, m_callbacks, subscriptions, request, replies, errors, answers, thrown>>

\* ... and if the slot was emptied, the empty std::function throws: the
\* accessor is released and the executor's thread goes on.
CallEmptied(r) ==
    /\ task[r].pc = "callback"
    /\ m_subscriptions[task[r].slot] = None
    /\ thrown' = thrown \cup {r}
    /\ task' = [task EXCEPT ![r] = NoTask]
    /\ UNCHANGED <<m_nextMsgId, m_callbacks, subscriptions, request, replies, errors, answers, calls>>

\* After the loop: the callback of a reply that was found is called.
AnswerRequest(r) ==
    /\ task[r].pc = "predicate"
    /\ task[r].slot > task[r].end
    /\ IF task[r].handled
       THEN Call(request[r].id, r)
       ELSE UNCHANGED <<m_callbacks, answers>>
    /\ task' = [task EXCEPT ![r] = NoTask]
    /\ UNCHANGED <<m_nextMsgId, subscriptions, request, replies, errors, calls, thrown>>

(***************************************************************************)
(* subscribe() reuses a free slot or appends one; the function it returns  *)
(* empties the slot and queues it.                                         *)
(***************************************************************************)
Subscribe(s) ==
    LET slot == IF m_unusedSubscriptions = <<>> THEN Len(m_subscriptions) + 1
                                                ELSE Head(m_unusedSubscriptions) IN
    /\ subscriber[s].pc = "new"
    /\ subscriber' = [subscriber EXCEPT ![s] = [pc |-> "active", slot |-> slot]]
    /\ IF m_unusedSubscriptions = <<>>
       THEN /\ m_subscriptions' = Append(m_subscriptions, s)
            /\ UNCHANGED m_unusedSubscriptions
       ELSE /\ m_subscriptions' = [m_subscriptions EXCEPT ![slot] = s]
            /\ m_unusedSubscriptions' = Tail(m_unusedSubscriptions)
    /\ UNCHANGED <<m_nextMsgId, m_callbacks, request, replies, task, errors, answers, calls, thrown>>

Unsubscribe(s) ==
    /\ subscriber[s].pc = "active"
    /\ subscriber' = [subscriber EXCEPT ![s].pc = "gone"]
    /\ m_subscriptions' = [m_subscriptions EXCEPT ![subscriber[s].slot] = None]
    /\ m_unusedSubscriptions' = Append(m_unusedSubscriptions, subscriber[s].slot)
    /\ UNCHANGED <<m_nextMsgId, m_callbacks, request, replies, task, errors, answers, calls, thrown>>

RequestStep(r) ==
    \/ Insert(r)
    \/ SendSucceeds(r) \/ SendFails(r) \/ SendSilent(r)
    \/ SendError(r)
    \/ Receive(r)

TaskStep(r) == Predicate(r) \/ CallSubscriber(r) \/ CallEmptied(r) \/ AnswerRequest(r)

Next ==
    \/ \E r \in Requests : TakeId(r) \/ RequestStep(r) \/ TaskStep(r)
    \/ \E s \in Subscribers : Subscribe(s) \/ Unsubscribe(s)

Spec == Init /\ [][Next]_vars

\* Calls in progress go on and replies are handled; nobody need make a call.
FairSpec ==
    /\ Spec
    /\ \A r \in Requests : WF_vars(RequestStep(r))
    /\ \A r \in Requests : WF_vars(TaskStep(r))

-----------------------------------------------------------------------------

\* The counter wrapped around and gave both requests the same id.
ShareId(r, x) == r # x /\ {r, x} \subseteq Started /\ request[r].id = request[x].id

(***************************************************************************)
(* A callback is called at most once, and stays in m_callbacks only until  *)
(* then: a second call would be one of a moved-from function.  Replies,    *)
(* failures of the last retry and reused ids race for it.                  *)
(***************************************************************************)
AnsweredAtMostOnce ==
    /\ \A r \in Requests : Len(answers[r]) <= 1
    /\ \A id \in Ids : m_callbacks[id] # None => answers[m_callbacks[id]] = <<>>

(***************************************************************************)
(* A request is answered with its own reply or its own failure, but for    *)
(* one that shares its id with another (the 16-bit counter has wrapped).   *)
(***************************************************************************)
OwnAnswer ==
    \A r \in Requests : \A i \in 1..Len(answers[r]) :
        \/ answers[r][i] = r
        \/ answers[r][i] = Error /\ request[r].pc = "failed"
        \/ \E x \in Requests : ShareId(r, x)


(***************************************************************************)
(* Every request is answered, unless the lower layer never called back,    *)
(* another request replaced its callback, or a subscription that its reply *)
(* was about to be given to was cancelled at that moment.                  *)
(***************************************************************************)
RequestAnswered ==
    \A r \in Requests :
        request[r].pc = "send" ~>
            \/ answers[r] # <<>>
            \/ request[r].pc = "silent"
            \/ \E x \in Requests : ShareId(r, x)
            \/ r \in thrown

=============================================================================
