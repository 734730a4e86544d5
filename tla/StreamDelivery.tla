---------------------------- MODULE StreamDelivery ----------------------------
(***************************************************************************)
(* The Sequencer joined to the server's streams by an unreliable link.     *)
(* The server keeps every message it sent until the sequencer acknowledges *)
(* it and resends what is requested; both directions reorder and may lose  *)
(* messages (a connection that breaks loses what is in flight).  The       *)
(* server and the link are external: they are what sequencer.h relies on.  *)
(***************************************************************************)
EXTENDS Sequencer

CONSTANTS
    MaxLosses,      \* bound: messages the link loses
    WireCapacity    \* bound: copies of one message in flight

ASSUME LinkAssumption == MaxLosses \in Nat /\ WireCapacity \in Nat \ {0}

VARIABLES
    nextSend,       \* nextSend[s]: the next message the server sends first
    retained,       \* retained[s]: messages the server can still resend
    wire,           \* wire[s][n]: copies of message n in flight to the client
    losses          \* messages lost so far

linkVars == <<nextSend, retained, wire, losses>>
allVars == <<vars, linkVars>>

DeliveryInit ==
    /\ Init
    /\ nextSend = [s \in Streams |-> 0]
    /\ retained = [s \in Streams |-> {}]
    /\ wire = [s \in Streams |-> NoCopies(s)]
    /\ losses = 0

\* Put a copy of every message of a set on the wire.
Sent(s, msgs) ==
    [wire EXCEPT ![s] = [n \in SeqNums(s) |->
        IF n \in msgs /\ @[n] < WireCapacity THEN @[n] + 1 ELSE @[n]]]

ServerSend(s) ==
    /\ periodic # "off"
    /\ nextSend[s] \in SeqNums(s)
    /\ wire' = Sent(s, {nextSend[s]})
    /\ retained' = [retained EXCEPT ![s] = @ \cup {nextSend[s]}]
    /\ nextSend' = [nextSend EXCEPT ![s] = @ + 1]
    /\ UNCHANGED <<vars, losses>>

\* The link hands a message to the sequencer's callback.
Deliver(s, n) ==
    /\ wire[s][n] > 0
    /\ wire' = [wire EXCEPT ![s][n] = @ - 1]
    /\ OnMessage(s, n)
    /\ UNCHANGED <<nextSend, retained, losses>>

Lose(s, n) ==
    /\ losses < MaxLosses
    /\ wire[s][n] > 0
    /\ wire' = [wire EXCEPT ![s][n] = @ - 1]
    /\ losses' = losses + 1
    /\ UNCHANGED <<vars, nextSend, retained>>

\* Take a control message of the sequencer out of the link.
Take(m) ==
    /\ m \in outbox
    /\ outbox' = outbox \ {m}
    /\ UNCHANGED <<exists, m_seqNum, m_seqNumAck, m_buffer, handler, periodic, nums, forwarded>>

ServerResets(m) ==
    /\ m.type = "reset"
    /\ Take(m)
    /\ UNCHANGED linkVars

ServerResends(m) ==
    /\ m.type = "request"
    /\ Take(m)
    /\ wire' = Sent(m.stream, retained[m.stream] \cap m.lower..m.upper)
    /\ UNCHANGED <<nextSend, retained, losses>>

ServerDiscards(m) ==
    /\ m.type = "ack"
    /\ Take(m)
    /\ retained' = [retained EXCEPT ![m.stream] = @ \ 0..m.upto]
    /\ UNCHANGED <<nextSend, wire, losses>>

LoseControl(m) ==
    /\ losses < MaxLosses
    /\ Take(m)
    /\ losses' = losses + 1
    /\ UNCHANGED <<nextSend, retained, wire>>

SequencerStep ==
    /\ \/ LowerConnect
       \/ ResetStreams
       \/ \E s \in Streams : HandlerStep(s)
       \/ GetStreamSequenceNumbers
       \/ SendPeriodicRequests
    /\ UNCHANGED linkVars

DeliveryNext ==
    \/ SequencerStep
    \/ \E s \in Streams : ServerSend(s)
    \/ \E s \in Streams : \E n \in SeqNums(s) : Deliver(s, n) \/ Lose(s, n)
    \/ \E m \in outbox : ServerResets(m) \/ ServerResends(m) \/ ServerDiscards(m) \/ LoseControl(m)

DeliverySpec == DeliveryInit /\ [][DeliveryNext]_allVars

(***************************************************************************)
(* Handlers run to their end and the timer fires (the io threads run); a   *)
(* handler waiting for a busy accessor or the exclusive lock gets it some  *)
(* time although others take it in between; the link loses at most         *)
(* MaxLosses messages and the server answers what it receives.             *)
(***************************************************************************)
FairDeliverySpec ==
    /\ DeliverySpec
    /\ \A s \in Streams : WF_allVars(HandlerStep(s) /\ UNCHANGED linkVars)
    /\ \A s \in Streams : WF_allVars(ServerSend(s))
    /\ \A s \in Streams : \A n \in SeqNums(s) : SF_allVars(Deliver(s, n))
    /\ SF_allVars(GetStreamSequenceNumbers /\ UNCHANGED linkVars)
    /\ WF_allVars((LowerConnect \/ ResetStreams \/ SendPeriodicRequests) /\ UNCHANGED linkVars)
    /\ \A s \in Streams, lower \in 0..MaxUInt64, upper \in 0..MaxUInt64 :
          WF_allVars(ServerResends(Request(s, lower, upper)))

-----------------------------------------------------------------------------

(***************************************************************************)
(* A message the server has sent and no longer keeps was forwarded, so     *)
(* losses never leave the sequencer waiting for what nobody can resend:    *)
(* acknowledgements of the message callback against the resend buffer.     *)
(***************************************************************************)
NothingStranded ==
    \A s \in Streams : \A n \in 0..(nextSend[s] - 1) :
        n \in retained[s] \/ WasForwarded(s, n)

(***************************************************************************)
(* Once any message of a stream has arrived, all of the stream is          *)
(* forwarded although messages and requests are lost: gap requests and the *)
(* periodic request of the expected message recover every loss.            *)
(***************************************************************************)
StartedStreamCompletes ==
    \A s \in Streams : exists[s] ~> WasForwarded(s, LastSeq[s])

=============================================================================
