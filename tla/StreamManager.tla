---------------------------- MODULE StreamManager ----------------------------
(***************************************************************************)
(* The registry of outgoing streams (streaming/streamManager.h).  create() *)
(* numbers a stream, gives it a slot of m_streams and enters it into       *)
(* m_idMap; the server's requests and acknowledgements are dispatched by   *)
(* id from handler threads; whoever drops the last shared_ptr runs the     *)
(* stream's destructor, which unregisters it.                              *)
(*                                                                         *)
(* m_idMap is a tbb::concurrent_hash_map: an accessor holds its element    *)
(* locked, and erase(id) unlinks the element and then waits until nobody   *)
(* has it locked.                                                          *)
(***************************************************************************)
EXTENDS Naturals, Sequences, FiniteSets

CONSTANTS
    Handlers,       \* threads that run the subscription's callback
    MaxStreams      \* bound: streams created

ASSUME StreamManagerAssumption == MaxStreams \in Nat

VARIABLES
    m_nextStreamId, \* next stream id
    m_idMap,        \* ids entered in the map
    m_streams,      \* m_streams[i]: id of the stream last stored in slot i
    m_streamsSlots, \* queue of free slots
    slot,           \* slot[id]: the slot captured by the unregister function
    owned,          \* ids of streams the application holds a shared_ptr to
    handler,        \* what a handler thread is doing, and for which stream
    destructor      \* destructor[id]: "none", "close", "erase" or "done"

vars == <<m_nextStreamId, m_idMap, m_streams, m_streamsSlots, slot, owned, handler, destructor>>

Ids == 0..(MaxStreams - 1)
Created == 0..(m_nextStreamId - 1)
Idle == [pc |-> "idle", id |-> 0]

\* Handlers with a shared_ptr to the stream, and with its map element locked.
Users(id) == {h \in Handlers : handler[h] = [pc |-> "handle", id |-> id]}
Accessors(id) == {h \in Handlers : handler[h].pc # "idle" /\ handler[h].id = id}

Init ==
    /\ m_nextStreamId = 0
    /\ m_idMap = {}
    /\ m_streams = <<>>
    /\ m_streamsSlots = <<>>
    /\ slot = [id \in Ids |-> 0]
    /\ owned = {}
    /\ handler = [h \in Handlers |-> Idle]
    /\ destructor = [id \in Ids |-> "none"]

(***************************************************************************)
(* create(): a free slot is reused, otherwise m_streams grows by one.      *)
(* Nobody knows the stream before it is returned.                          *)
(***************************************************************************)
TakenSlot == IF m_streamsSlots = <<>> THEN Len(m_streams) + 1 ELSE Head(m_streamsSlots)

\* Faulty variant: a reused slot keeps the pointer to its former stream.
CreateLeavesOldPointer ==
    LET id == m_nextStreamId IN
    /\ id < MaxStreams
    /\ m_nextStreamId' = id + 1
    /\ m_streams' = IF m_streamsSlots = <<>> THEN Append(m_streams, id) ELSE m_streams
    /\ m_streamsSlots' = IF m_streamsSlots = <<>> THEN <<>> ELSE Tail(m_streamsSlots)
    /\ slot' = [slot EXCEPT ![id] = TakenSlot]
    /\ m_idMap' = m_idMap \cup {id}
    /\ owned' = owned \cup {id}
    /\ UNCHANGED <<handler, destructor>>

Create ==
    LET id == m_nextStreamId IN
    /\ id < MaxStreams
    /\ m_nextStreamId' = id + 1
    /\ m_streams' = IF m_streamsSlots = <<>>
                    THEN Append(m_streams, id)
                    ELSE [m_streams EXCEPT ![TakenSlot] = id]
    /\ m_streamsSlots' = IF m_streamsSlots = <<>> THEN <<>> ELSE Tail(m_streamsSlots)
    /\ slot' = [slot EXCEPT ![id] = TakenSlot]
    /\ m_idMap' = m_idMap \cup {id}
    /\ owned' = owned \cup {id}
    /\ UNCHANGED <<handler, destructor>>

(***************************************************************************)
(* handleMessageRequest() and handleMessageAcknowledgement(): find the id, *)
(* which locks the element, then lock() the weak_ptr.  An unknown id or a  *)
(* stream whose destructor has begun is ignored.                           *)
(***************************************************************************)
\* Faulty variant: the weak_ptr is used without asking whether it expired.
FindUnchecked(h, id) ==
    /\ handler[h].pc = "idle"
    /\ id \in m_idMap
    /\ handler' = [handler EXCEPT ![h] = [pc |-> "handle", id |-> id]]
    /\ UNCHANGED <<m_nextStreamId, m_idMap, m_streams, m_streamsSlots, slot, owned, destructor>>

Find(h, id) ==
    /\ handler[h].pc = "idle"
    /\ id \in m_idMap
    /\ id \in owned \/ Users(id) # {}
    /\ handler' = [handler EXCEPT ![h] = [pc |-> "handle", id |-> id]]
    /\ UNCHANGED <<m_nextStreamId, m_idMap, m_streams, m_streamsSlots, slot, owned, destructor>>

(***************************************************************************)
(* The stream has handled the message: the handler's shared_ptr is         *)
(* destroyed before its accessor.  The last shared_ptr runs the destructor *)
(* in this thread, which still has the element locked.                     *)
(***************************************************************************)
DropsLast(h) == handler[h].id \notin owned /\ Users(handler[h].id) = {h}

Release(h) ==
    /\ handler[h].pc = "handle"
    /\ ~DropsLast(h)
    /\ handler' = [handler EXCEPT ![h] = Idle]
    /\ UNCHANGED <<m_nextStreamId, m_idMap, m_streams, m_streamsSlots, slot, owned, destructor>>

ReleaseLast(h) ==
    /\ handler[h].pc = "handle"
    /\ DropsLast(h)
    /\ handler' = [handler EXCEPT ![h].pc = "destroy"]
    /\ destructor' = [destructor EXCEPT ![handler[h].id] = "close"]
    /\ UNCHANGED <<m_nextStreamId, m_idMap, m_streams, m_streamsSlots, slot, owned>>

(***************************************************************************)
(* The application drops its shared_ptr; the destructor runs in its thread *)
(* unless a handler has one too.                                           *)
(***************************************************************************)
Drop(id) ==
    /\ id \in owned
    /\ owned' = owned \ {id}
    /\ destructor' = IF Users(id) = {} THEN [destructor EXCEPT ![id] = "close"] ELSE destructor
    /\ UNCHANGED <<m_nextStreamId, m_idMap, m_streams, m_streamsSlots, slot, handler>>

(***************************************************************************)
(* The destructor has closed the stream and calls the unregister function: *)
(* m_idMap.erase() unlinks the element and returns when it is not locked   *)
(* any more, then the slot is freed and the destructor ends.               *)
(***************************************************************************)
Unlink(id) ==
    /\ destructor[id] = "close"
    /\ destructor' = [destructor EXCEPT ![id] = "erase"]
    /\ m_idMap' = m_idMap \ {id}
    /\ UNCHANGED <<m_nextStreamId, m_streams, m_streamsSlots, slot, owned, handler>>

Unregister(id) ==
    /\ destructor[id] = "erase"
    /\ Accessors(id) = {}
    /\ destructor' = [destructor EXCEPT ![id] = "done"]
    /\ m_streamsSlots' = Append(m_streamsSlots, slot[id])
    /\ UNCHANGED <<m_nextStreamId, m_idMap, m_streams, slot, owned, handler>>

Next ==
    \/ Create
    \/ \E id \in Ids : Drop(id) \/ Unlink(id) \/ Unregister(id)
    \/ \E h \in Handlers, id \in Ids : Find(h, id)
    \/ \E h \in Handlers : Release(h) \/ ReleaseLast(h)

Spec == Init /\ [][Next]_vars

\* Handlers and destructors go on; the application need not do anything.
FairSpec ==
    /\ Spec
    /\ \A h \in Handlers : WF_vars(Release(h) \/ ReleaseLast(h))
    /\ \A id \in Ids : WF_vars(Unlink(id) \/ Unregister(id))

-----------------------------------------------------------------------------

(***************************************************************************)
(* Every stream that is not being destroyed can be reached by the server's *)
(* messages through m_idMap and by a reset of all streams through the slot *)
(* of m_streams it was given, whatever slots were freed and reused before. *)
(***************************************************************************)
LiveReachable ==
    \A id \in Created : destructor[id] = "none" => id \in m_idMap /\ m_streams[slot[id]] = id

(***************************************************************************)
(* A handler that uses a stream keeps it alive: the destructor has not     *)
(* begun (the weak_ptr's lock() before stream->handle...).                 *)
(***************************************************************************)
UsedNotDestroyed == \A id \in Created : Users(id) # {} => destructor[id] = "none"

(***************************************************************************)
(* "The returned stream object must be destroyed before this is destroyed" *)
(* (streamManager.h:45): a stream that the application has dropped, and    *)
(* that handlers are done with, is destroyed.                              *)
(***************************************************************************)
DroppedDestroyed ==
    \A id \in Ids : id \in Created \ owned ~> destructor[id] = "done"

=============================================================================
