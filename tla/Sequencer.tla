------------------------------ MODULE Sequencer ------------------------------
(***************************************************************************)
(* The Sequencer layer of the communication stack (layers/sequencer.h).    *)
(* Messages of a server stream carry consecutive sequence numbers but      *)
(* arrive over several connections, so in any order and more than once.    *)
(* The sequencer buffers them per stream and forwards them to the upper    *)
(* layer in sequence, asks the server for missing ones and acknowledges    *)
(* what it forwarded.                                                      *)
(*                                                                         *)
(* The handler of a message holds the accessor of its stream's buffer (and *)
(* m_buffersMutex shared) from push() to the last control message it       *)
(* sends; each round of the loop in Buffer::clear() is one action, so the  *)
(* handlers of different streams interleave.  A message is represented by  *)
(* its stream and sequence number; the one numbered LastSeq[s] carries the *)
(* end-of-stream mark.                                                     *)
(***************************************************************************)
EXTENDS Naturals, Sequences

CONSTANTS
    Streams,        \* stream ids
    LastSeq,        \* LastSeq[s]: sequence number of the end-of-stream message
    AckWindow,      \* STREAM_MSG_ACK_WINDOW
    MaxUInt64,      \* the largest value of the 64-bit counters
    MaxCopies,      \* bound: copies of one message in a buffer
    MaxForwarded    \* bound: a stream that forwarded this many is not reopened

ASSUME SequencerAssumption ==
    /\ LastSeq \in [Streams -> Nat]
    /\ AckWindow \in Nat \ {0}
    /\ MaxUInt64 \in Nat
    /\ MaxCopies \in Nat
    /\ MaxForwarded \in Nat
    /\ \A s \in Streams : LastSeq[s] < MaxUInt64

VARIABLES
    exists,         \* exists[s]: m_buffers has an entry for s
    m_seqNum,       \* expected sequence number
    m_seqNumAck,    \* first unacknowledged sequence number
    m_buffer,       \* m_buffer[s][n]: copies of message n in the priority queue
    handler,        \* where the handler holding the accessor of s is
    periodic,       \* connect() and the periodic request it starts
    nums,           \* stream sequence numbers the periodic request read
    outbox,         \* control messages handed to the lower layer
    forwarded       \* history: sequence numbers passed to onMessageCallback

vars == <<exists, m_seqNum, m_seqNumAck, m_buffer, handler, periodic, nums, outbox, forwarded>>

SeqNums(s) == 0..LastSeq[s]

\* Control messages to the server.
Reset == [type |-> "reset"]
Request(s, lower, upper) == [type |-> "request", stream |-> s, lower |-> lower, upper |-> upper]
Ack(s, n) == [type |-> "ack", stream |-> s, upto |-> n]

NoCopies(s) == [n \in SeqNums(s) |-> 0]
Buffered(s) == {n \in SeqNums(s) : m_buffer[s][n] > 0}

\* n - 1 in 64-bit unsigned arithmetic.
Before(n) == IF n = 0 THEN MaxUInt64 ELSE n - 1

Init ==
    /\ exists = [s \in Streams |-> FALSE]
    /\ m_seqNum = [s \in Streams |-> 0]
    /\ m_seqNumAck = [s \in Streams |-> 0]
    /\ m_buffer = [s \in Streams |-> NoCopies(s)]
    /\ handler = [s \in Streams |-> "idle"]
    /\ periodic = "off"
    /\ nums = {}
    /\ outbox = {}
    /\ forwarded = [s \in Streams |-> <<>>]

(***************************************************************************)
(* connect(): connect the lower layer, which starts delivering messages,   *)
(* then ask the server to reset its streams and schedule the first         *)
(* periodic message request.                                               *)
(***************************************************************************)
LowerConnect ==
    /\ periodic = "off"
    /\ periodic' = "connected"
    /\ UNCHANGED <<exists, m_seqNum, m_seqNumAck, m_buffer, handler, nums, outbox, forwarded>>

ResetStreams ==
    /\ periodic = "connected"
    /\ outbox' = outbox \cup {Reset}
    /\ periodic' = "armed"
    /\ UNCHANGED <<exists, m_seqNum, m_seqNumAck, m_buffer, handler, nums, forwarded>>

(***************************************************************************)
(* The message callback on a stream message: take the accessor, creating a *)
(* value-initialised buffer for an unknown stream, and push().             *)
(***************************************************************************)
Push(s, n) == IF n >= m_seqNum[s] THEN [m_buffer[s] EXCEPT ![n] = @ + 1] ELSE m_buffer[s]

WithinBounds(s, n) ==
    /\ m_buffer[s][n] < MaxCopies
    /\ exists[s] \/ Len(forwarded[s]) < MaxForwarded

OnMessage(s, n) ==
    /\ periodic # "off"
    /\ handler[s] = "idle"
    /\ WithinBounds(s, n)
    /\ handler' = [handler EXCEPT ![s] = "clear"]
    /\ exists' = [exists EXCEPT ![s] = TRUE]
    /\ m_buffer' = [m_buffer EXCEPT ![s] = Push(s, n)]
    /\ UNCHANGED <<m_seqNum, m_seqNumAck, periodic, nums, outbox, forwarded>>

(***************************************************************************)
(* Rounds of the loop in clear(): try_pop yields a message with the        *)
(* smallest sequence number n in the buffer.                               *)
(***************************************************************************)
IsNext(s, n) ==
    /\ handler[s] = "clear"
    /\ n \in Buffered(s)
    /\ \A k \in Buffered(s) : n <= k

\* Faulty variant: any message at or after the expected one is forwarded.
ForwardAhead(s, n) ==
    /\ IsNext(s, n)
    /\ n >= m_seqNum[s]
    /\ m_buffer' = [m_buffer EXCEPT ![s][n] = @ - 1]
    /\ m_seqNum' = [m_seqNum EXCEPT ![s] = n + 1]
    /\ forwarded' = [forwarded EXCEPT ![s] = Append(@, n)]
    /\ handler' = [handler EXCEPT ![s] = IF n = LastSeq[s] THEN "finish" ELSE "clear"]
    /\ UNCHANGED <<exists, m_seqNumAck, periodic, nums, outbox>>

\* n is expected: it is forwarded; the end of stream ends the loop.
ForwardExpected(s, n) ==
    /\ IsNext(s, n)
    /\ n = m_seqNum[s]
    /\ m_buffer' = [m_buffer EXCEPT ![s][n] = @ - 1]
    /\ m_seqNum' = [m_seqNum EXCEPT ![s] = @ + 1]
    /\ forwarded' = [forwarded EXCEPT ![s] = Append(@, n)]
    /\ handler' = [handler EXCEPT ![s] = IF n = LastSeq[s] THEN "finish" ELSE "clear"]
    /\ UNCHANGED <<exists, m_seqNumAck, periodic, nums, outbox>>

\* n was forwarded already (a duplicate that was buffered): it is dropped.
DropStale(s, n) ==
    /\ IsNext(s, n)
    /\ n < m_seqNum[s]
    /\ m_buffer' = [m_buffer EXCEPT ![s][n] = @ - 1]
    /\ UNCHANGED <<exists, m_seqNum, m_seqNumAck, handler, periodic, nums, outbox, forwarded>>

\* Faulty variants: the expected message is acknowledged with the forwarded
\* ones; the acknowledged number is not advanced.
FinishRoundAcksExpected(s, cleared) ==
    LET requests == IF m_seqNum[s] <= cleared THEN {Request(s, m_seqNum[s], cleared)} ELSE {}
        windowFull == m_seqNum[s] >= m_seqNumAck[s] + AckWindow
        acks == IF windowFull THEN {Ack(s, m_seqNum[s])} ELSE {}
    IN  /\ outbox' = outbox \cup requests \cup acks
        /\ m_seqNumAck' = IF windowFull THEN [m_seqNumAck EXCEPT ![s] = m_seqNum[s]] ELSE m_seqNumAck
        /\ handler' = [handler EXCEPT ![s] = "idle"]
        /\ UNCHANGED <<exists, m_seqNum, m_buffer, periodic, nums, forwarded>>

FinishRoundNoReset(s, cleared) ==
    LET requests == IF m_seqNum[s] <= cleared THEN {Request(s, m_seqNum[s], cleared)} ELSE {}
        windowFull == m_seqNum[s] >= m_seqNumAck[s] + AckWindow
        acks == IF windowFull THEN {Ack(s, Before(m_seqNum[s]))} ELSE {}
    IN  /\ outbox' = outbox \cup requests \cup acks
        /\ handler' = [handler EXCEPT ![s] = "idle"]
        /\ UNCHANGED <<exists, m_seqNum, m_seqNumAck, m_buffer, periodic, nums, forwarded>>

(***************************************************************************)
(* The rest of the handler when clear() returned {cleared, false}: request *)
(* the gap below the first pending message, acknowledge a full window.     *)
(***************************************************************************)
FinishRound(s, cleared) ==
    LET requests == IF m_seqNum[s] <= cleared THEN {Request(s, m_seqNum[s], cleared)} ELSE {}
        windowFull == m_seqNum[s] >= m_seqNumAck[s] + AckWindow
        acks == IF windowFull THEN {Ack(s, Before(m_seqNum[s]))} ELSE {}
    IN  /\ outbox' = outbox \cup requests \cup acks
        /\ m_seqNumAck' = IF windowFull THEN [m_seqNumAck EXCEPT ![s] = m_seqNum[s]] ELSE m_seqNumAck
        /\ handler' = [handler EXCEPT ![s] = "idle"]
        /\ UNCHANGED <<exists, m_seqNum, m_buffer, periodic, nums, forwarded>>

\* Faulty variant: the pending message is requested with the missing ones.
StopAtGapInclusive(s, n) ==
    /\ IsNext(s, n)
    /\ n > m_seqNum[s]
    /\ FinishRound(s, n)

\* n is ahead of the expected number: it is put back.
StopAtGap(s, n) ==
    /\ IsNext(s, n)
    /\ n > m_seqNum[s]
    /\ FinishRound(s, Before(n))

\* Nothing left to pop.
StopAtEmpty(s) ==
    /\ handler[s] = "clear"
    /\ Buffered(s) = {}
    /\ FinishRound(s, Before(m_seqNum[s]))

(***************************************************************************)
(* clear() returned {cleared, true}: acknowledge the whole stream, erase   *)
(* its buffer with whatever it still holds.                                *)
(***************************************************************************)
EndOfStream(s) ==
    /\ handler[s] = "finish"
    /\ outbox' = outbox \cup {Ack(s, Before(m_seqNum[s]))}
    /\ exists' = [exists EXCEPT ![s] = FALSE]
    /\ m_seqNum' = [m_seqNum EXCEPT ![s] = 0]
    /\ m_seqNumAck' = [m_seqNumAck EXCEPT ![s] = 0]
    /\ m_buffer' = [m_buffer EXCEPT ![s] = NoCopies(s)]
    /\ handler' = [handler EXCEPT ![s] = "idle"]
    /\ UNCHANGED <<periodic, nums, forwarded>>

(***************************************************************************)
(* periodicMessageRequest(): getStreamSequenceNumbers() reads all expected *)
(* numbers with m_buffersMutex held exclusively, so between handlers ...   *)
(***************************************************************************)
GetStreamSequenceNumbers ==
    /\ periodic = "armed"
    /\ \A s \in Streams : handler[s] = "idle"
    /\ nums' = {<<s, m_seqNum[s]>> : s \in {t \in Streams : exists[t]}}
    /\ periodic' = "send"
    /\ UNCHANGED <<exists, m_seqNum, m_seqNumAck, m_buffer, handler, outbox, forwarded>>

\* Faulty variant: the message after the expected one is requested.
SendPeriodicRequestsAhead ==
    /\ periodic = "send"
    /\ outbox' = outbox \cup {Request(e[1], e[2] + 1, e[2] + 1) : e \in nums}
    /\ nums' = {}
    /\ periodic' = "armed"
    /\ UNCHANGED <<exists, m_seqNum, m_seqNumAck, m_buffer, handler, forwarded>>

(***************************************************************************)
(* ... and the requests are sent, and the next round is scheduled, after   *)
(* the mutex was released: handlers may have run in between.               *)
(***************************************************************************)
SendPeriodicRequests ==
    /\ periodic = "send"
    /\ outbox' = outbox \cup {Request(e[1], e[2], e[2]) : e \in nums}
    /\ nums' = {}
    /\ periodic' = "armed"
    /\ UNCHANGED <<exists, m_seqNum, m_seqNumAck, m_buffer, handler, forwarded>>

\* Steps of a handler that has started.
HandlerStep(s) ==
    \/ \E n \in SeqNums(s) : ForwardExpected(s, n) \/ DropStale(s, n) \/ StopAtGap(s, n)
    \/ StopAtEmpty(s)
    \/ EndOfStream(s)

Next ==
    \/ LowerConnect
    \/ ResetStreams
    \/ \E s \in Streams : \E n \in SeqNums(s) : OnMessage(s, n)
    \/ \E s \in Streams : HandlerStep(s)
    \/ GetStreamSequenceNumbers
    \/ SendPeriodicRequests

Spec == Init /\ [][Next]_vars

-----------------------------------------------------------------------------

ControlMessages ==
    [type : {"reset"}]
    \cup [type : {"request"}, stream : Streams, lower : Nat, upper : Nat]
    \cup [type : {"ack"}, stream : Streams, upto : Nat]

\* The variables keep the types of the members of Sequencer and Buffer.
TypeOK ==
    /\ exists \in [Streams -> BOOLEAN]
    /\ m_seqNum \in [Streams -> Nat]
    /\ m_seqNumAck \in [Streams -> Nat]
    /\ DOMAIN m_buffer = Streams
    /\ \A s \in Streams : m_buffer[s] \in [SeqNums(s) -> Nat]
    /\ handler \in [Streams -> {"idle", "clear", "finish"}]
    /\ periodic \in {"off", "connected", "armed", "send"}
    /\ nums \subseteq Streams \X Nat
    /\ outbox \subseteq ControlMessages
    /\ DOMAIN forwarded = Streams
    /\ \A s \in Streams : forwarded[s] \in Seq(SeqNums(s))

(***************************************************************************)
(* In whatever order and however often messages arrive, those of a stream  *)
(* are forwarded from 0 in sequence without gap or repetition, until the   *)
(* end of stream, after which the stream id starts afresh (clear()).       *)
(***************************************************************************)
Follows(s, k, n) == n = k + 1 \/ (k = LastSeq[s] /\ n = 0)

ForwardedInSequence ==
    \A s \in Streams :
        /\ forwarded[s] # <<>> => forwarded[s][1] = 0
        /\ \A i \in 1..(Len(forwarded[s]) - 1) : Follows(s, forwarded[s][i], forwarded[s][i + 1])

(***************************************************************************)
(* An acknowledgement lets the server discard messages: one is sent for n  *)
(* only when everything up to n was forwarded (the message callback).      *)
(***************************************************************************)
WasForwarded(s, n) == \E i \in 1..Len(forwarded[s]) : forwarded[s][i] = n

AcknowledgedWasForwarded ==
    \A m \in outbox : m.type = "ack" =>
        m.upto <= LastSeq[m.stream] /\ \A k \in 0..m.upto : WasForwarded(m.stream, k)

(***************************************************************************)
(* A request a handler sends names a non-empty range of messages of the    *)
(* stream that starts at the expected one and of which none is in the      *)
(* buffer: nothing that arrived is requested again, and the unsigned       *)
(* arithmetic on sequence numbers never wraps (clear(), the callback).     *)
(***************************************************************************)
RequestsOnlyMissing ==
    [][\A s \in Streams : handler[s] = "clear" /\ handler'[s] = "idle" =>
          \A m \in outbox' \ outbox : m.type = "request" =>
              /\ m.lower = m_seqNum[m.stream]
              /\ m.lower <= m.upper /\ m.upper < LastSeq[m.stream]
              /\ \A n \in m.lower..m.upper : n \notin Buffered(m.stream)]_vars

(***************************************************************************)
(* Between handlers fewer than STREAM_MSG_ACK_WINDOW forwarded messages    *)
(* await acknowledgement, however many one clear() forwarded at once, and  *)
(* every message still buffered is ahead of the expected one.              *)
(***************************************************************************)
QuiescentBuffer ==
    \A s \in Streams : handler[s] = "idle" =>
        /\ m_seqNumAck[s] <= m_seqNum[s] /\ m_seqNum[s] < m_seqNumAck[s] + AckWindow
        /\ \A n \in Buffered(s) : m_seqNum[s] < n

-----------------------------------------------------------------------------
(* The inductive invariant.                                                *)

\* A stream without an entry is as a new entry would be.
FreshWhenErased ==
    \A s \in Streams : ~exists[s] =>
        /\ handler[s] = "idle"
        /\ m_seqNum[s] = 0 /\ m_seqNumAck[s] = 0
        /\ m_buffer[s] = NoCopies(s)

\* Where a handler is, against the expected number and the buffer.
HandlerProgress ==
    \A s \in Streams :
        /\ handler[s] = "finish" => m_seqNum[s] = LastSeq[s] + 1
        /\ handler[s] # "finish" => m_seqNum[s] <= LastSeq[s]
        /\ handler[s] = "clear" => m_seqNum[s] > 0 \/ Buffered(s) # {}
        /\ handler[s] = "idle" => \A n \in Buffered(s) : m_seqNum[s] < n

AckBehind ==
    \A s \in Streams :
        /\ m_seqNumAck[s] <= m_seqNum[s]
        /\ handler[s] = "idle" => m_seqNum[s] < m_seqNumAck[s] + AckWindow

\* The expected number follows the last forwarded one.
ExpectedFollows ==
    \A s \in Streams :
        /\ forwarded[s] = <<>> => m_seqNum[s] = 0
        /\ forwarded[s] # <<>> => Follows(s, forwarded[s][Len(forwarded[s])], m_seqNum[s])

\* Everything below the expected number was forwarded.
PrefixForwarded ==
    \A s \in Streams : \A k \in 0..(LastSeq[s] + 1) : k < m_seqNum[s] => WasForwarded(s, k)

IInv ==
    /\ TypeOK
    /\ FreshWhenErased
    /\ HandlerProgress
    /\ AckBehind
    /\ ExpectedFollows
    /\ ForwardedInSequence
    /\ PrefixForwarded
    /\ AcknowledgedWasForwarded

=============================================================================
