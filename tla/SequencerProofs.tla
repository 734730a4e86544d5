--------------------------- MODULE SequencerProofs ---------------------------
(***************************************************************************)
(* Proofs about Sequencer, for any set of streams, stream lengths,         *)
(* acknowledgement window and bounds.  IInv is shown inductive conjunct by *)
(* conjunct; the safety properties follow from it.                         *)
(***************************************************************************)
EXTENDS Sequencer, TLAPS

USE SequencerAssumption

LEMMA BufferedFacts ==
    ASSUME NEW s \in Streams
    PROVE  /\ Buffered(s) \subseteq SeqNums(s)
           /\ \A n \in SeqNums(s) : n \in Nat /\ n <= LastSeq[s]
           /\ LastSeq[s] \in Nat
BY DEF Buffered, SeqNums

\* The types are preserved by every step.
LEMMA TypeStep ==
    ASSUME TypeOK, FreshWhenErased, HandlerProgress, [Next]_vars
    PROVE  TypeOK'
<1> USE DEF TypeOK, SeqNums
<1>1. CASE LowerConnect
    BY <1>1 DEF LowerConnect
<1>2. CASE ResetStreams
    BY <1>2 DEF ResetStreams, Reset, ControlMessages
<1>3. ASSUME NEW s \in Streams, NEW n \in SeqNums(s), OnMessage(s, n)
      PROVE  TypeOK'
    <2>1. Push(s, n) \in [SeqNums(s) -> Nat]
        BY DEF Push
    <2> QED
        BY <1>3, <2>1 DEF OnMessage
<1>4. ASSUME NEW s \in Streams, NEW n \in SeqNums(s), ForwardExpected(s, n)
      PROVE  TypeOK'
    <2>1. /\ n \in Buffered(s) /\ m_buffer[s][n] \in Nat /\ m_buffer[s][n] > 0
        BY <1>4 DEF ForwardExpected, IsNext, Buffered
    <2>2. [m_buffer[s] EXCEPT ![n] = @ - 1] \in [SeqNums(s) -> Nat]
        BY <2>1
    <2>3. Append(forwarded[s], n) \in Seq(SeqNums(s))
        OBVIOUS
    <2>4. /\ m_seqNum' \in [Streams -> Nat]
          /\ handler' \in [Streams -> {"idle", "clear", "finish"}]
        BY <1>4 DEF ForwardExpected
    <2>5. /\ DOMAIN m_buffer' = Streams
          /\ \A t \in Streams : m_buffer'[t] \in [SeqNums(t) -> Nat]
        BY <1>4, <2>2 DEF ForwardExpected
    <2>6. /\ DOMAIN forwarded' = Streams
          /\ \A t \in Streams : forwarded'[t] \in Seq(SeqNums(t))
        BY <1>4, <2>3 DEF ForwardExpected
    <2> QED
        BY <1>4, <2>4, <2>5, <2>6 DEF ForwardExpected
<1>5. ASSUME NEW s \in Streams, NEW n \in SeqNums(s), DropStale(s, n)
      PROVE  TypeOK'
    <2>1. /\ n \in Buffered(s) /\ m_buffer[s][n] \in Nat /\ m_buffer[s][n] > 0
        BY <1>5 DEF DropStale, IsNext, Buffered
    <2>2. [m_buffer[s] EXCEPT ![n] = @ - 1] \in [SeqNums(s) -> Nat]
        BY <2>1
    <2> QED
        BY <1>5, <2>2 DEF DropStale
<1>6. ASSUME NEW s \in Streams, NEW c \in Nat, FinishRound(s, c)
      PROVE  TypeOK'
    <2>1. Request(s, m_seqNum[s], c) \in ControlMessages
        BY DEF Request, ControlMessages
    <2>2. Ack(s, Before(m_seqNum[s])) \in ControlMessages
        BY DEF Ack, ControlMessages, Before
    <2>3. outbox' \subseteq ControlMessages
        BY <1>6, <2>1, <2>2 DEF FinishRound
    <2> QED
        BY <1>6, <2>3 DEF FinishRound
<1>7. ASSUME NEW s \in Streams, NEW n \in SeqNums(s), StopAtGap(s, n)
      PROVE  TypeOK'
    <2>1. Before(n) \in Nat
        BY DEF Before
    <2> QED
        BY <1>6, <1>7, <2>1 DEF StopAtGap
<1>8. ASSUME NEW s \in Streams, StopAtEmpty(s)
      PROVE  TypeOK'
    <2>1. Before(m_seqNum[s]) \in Nat
        BY DEF Before
    <2> QED
        BY <1>6, <1>8, <2>1 DEF StopAtEmpty
<1>9. ASSUME NEW s \in Streams, EndOfStream(s)
      PROVE  TypeOK'
    <2>1. Ack(s, Before(m_seqNum[s])) \in ControlMessages
        BY DEF Ack, ControlMessages, Before
    <2>2. NoCopies(s) \in [SeqNums(s) -> Nat]
        BY DEF NoCopies
    <2> QED
        BY <1>9, <2>1, <2>2 DEF EndOfStream
<1>10. CASE GetStreamSequenceNumbers
    BY <1>10 DEF GetStreamSequenceNumbers
<1>11. CASE SendPeriodicRequests
    <2>1. \A e \in nums : Request(e[1], e[2], e[2]) \in ControlMessages
        BY DEF Request, ControlMessages
    <2> QED
        BY <1>11, <2>1 DEF SendPeriodicRequests
<1>12. CASE UNCHANGED vars
    BY <1>12 DEF vars
<1> QED
    BY <1>1, <1>2, <1>3, <1>4, <1>5, <1>7, <1>8, <1>9, <1>10, <1>11, <1>12 DEF Next, HandlerStep

\* Only a stream with an entry has a running handler, and erasing resets it.
LEMMA FreshStep ==
    ASSUME TypeOK, FreshWhenErased, [Next]_vars
    PROVE  FreshWhenErased'
<1> USE DEF TypeOK, FreshWhenErased, NoCopies
<1>1. CASE LowerConnect
    BY <1>1 DEF LowerConnect
<1>2. CASE ResetStreams
    BY <1>2 DEF ResetStreams
<1>3. ASSUME NEW s \in Streams, NEW n \in SeqNums(s), OnMessage(s, n)
      PROVE  FreshWhenErased'
    BY <1>3 DEF OnMessage
<1>4. ASSUME NEW s \in Streams, NEW n \in SeqNums(s), ForwardExpected(s, n)
      PROVE  FreshWhenErased'
    BY <1>4 DEF ForwardExpected, IsNext
<1>5. ASSUME NEW s \in Streams, NEW n \in SeqNums(s), DropStale(s, n)
      PROVE  FreshWhenErased'
    BY <1>5 DEF DropStale, IsNext
<1>6. ASSUME NEW s \in Streams, NEW c, handler[s] = "clear", FinishRound(s, c)
      PROVE  FreshWhenErased'
    BY <1>6 DEF FinishRound
<1>7. ASSUME NEW s \in Streams, NEW n \in SeqNums(s), StopAtGap(s, n)
      PROVE  FreshWhenErased'
    BY <1>6, <1>7 DEF StopAtGap, IsNext
<1>8. ASSUME NEW s \in Streams, StopAtEmpty(s)
      PROVE  FreshWhenErased'
    BY <1>6, <1>8 DEF StopAtEmpty
<1>9. ASSUME NEW s \in Streams, EndOfStream(s)
      PROVE  FreshWhenErased'
    BY <1>9 DEF EndOfStream
<1>10. CASE GetStreamSequenceNumbers
    BY <1>10 DEF GetStreamSequenceNumbers
<1>11. CASE SendPeriodicRequests
    BY <1>11 DEF SendPeriodicRequests
<1>12. CASE UNCHANGED vars
    BY <1>12 DEF vars
<1> QED
    BY <1>1, <1>2, <1>3, <1>4, <1>5, <1>7, <1>8, <1>9, <1>10, <1>11, <1>12 DEF Next, HandlerStep

\* The loop of clear() leaves only messages ahead of the expected one.
LEMMA ProgressStep ==
    ASSUME TypeOK, FreshWhenErased, HandlerProgress, [Next]_vars
    PROVE  HandlerProgress'
<1> USE DEF TypeOK, HandlerProgress, Buffered, SeqNums
<1>1. CASE LowerConnect
    BY <1>1 DEF LowerConnect
<1>2. CASE ResetStreams
    BY <1>2 DEF ResetStreams
<1>3. ASSUME NEW s \in Streams, NEW n \in SeqNums(s), OnMessage(s, n)
      PROVE  HandlerProgress'
    <2>1. m_seqNum[s] = 0 => m_buffer'[s][n] > 0
        BY <1>3 DEF OnMessage, Push
    <2>2. /\ handler'[s] = "clear" /\ m_seqNum' = m_seqNum
          /\ m_seqNum[s] <= LastSeq[s]
        BY <1>3 DEF OnMessage
    <2>4. m_seqNum[s] = 0 => n \in Buffered(s)'
        BY <2>1
    <2>5. m_seqNum'[s] > 0 \/ Buffered(s)' # {}
        <3>1. m_seqNum[s] \in Nat
            OBVIOUS
        <3> QED
            BY ONLY <2>2, <2>4, <3>1
    <2>3. \A t \in Streams \ {s} : /\ handler'[t] = handler[t] /\ m_seqNum'[t] = m_seqNum[t]
                                   /\ m_buffer'[t] = m_buffer[t]
        BY <1>3 DEF OnMessage
    <2> QED
        BY <2>2, <2>3, <2>5
<1>4. ASSUME NEW s \in Streams, NEW n \in SeqNums(s), ForwardExpected(s, n)
      PROVE  HandlerProgress'
    <2>1. /\ m_seqNum'[s] = n + 1 /\ n = m_seqNum[s]
          /\ handler'[s] = IF n = LastSeq[s] THEN "finish" ELSE "clear"
        BY <1>4 DEF ForwardExpected
    <2>2. \A t \in Streams \ {s} : /\ handler'[t] = handler[t] /\ m_seqNum'[t] = m_seqNum[t]
                                   /\ m_buffer'[t] = m_buffer[t]
        BY <1>4 DEF ForwardExpected
    <2>3. /\ LastSeq[s] \in Nat /\ n \in Nat /\ n <= LastSeq[s]
        BY BufferedFacts
    <2>4. /\ handler'[s] = "finish" => m_seqNum'[s] = LastSeq[s] + 1
          /\ handler'[s] # "finish" => m_seqNum'[s] <= LastSeq[s]
          /\ m_seqNum'[s] > 0 /\ handler'[s] # "idle"
        BY ONLY <2>1, <2>3
    <2> QED
        BY <2>2, <2>4
<1>5. ASSUME NEW s \in Streams, NEW n \in SeqNums(s), DropStale(s, n)
      PROVE  HandlerProgress'
    <2>1. /\ m_seqNum' = m_seqNum /\ m_seqNum[s] > 0
          /\ handler' = handler /\ handler[s] = "clear"
        BY <1>5 DEF DropStale, IsNext
    <2>2. \A t \in Streams \ {s} : m_buffer'[t] = m_buffer[t]
        BY <1>5 DEF DropStale
    <2> QED
        BY <2>1, <2>2
<1>7. ASSUME NEW s \in Streams, NEW n \in SeqNums(s), StopAtGap(s, n)
      PROVE  HandlerProgress'
    <2>1. /\ handler[s] = "clear" /\ m_seqNum[s] < n
          /\ \A k \in Buffered(s) : n <= k
        BY <1>7 DEF StopAtGap, IsNext
    <2>2. /\ m_seqNum' = m_seqNum /\ m_buffer' = m_buffer
          /\ handler' = [handler EXCEPT ![s] = "idle"]
        BY <1>7 DEF StopAtGap, FinishRound
    <2>3. /\ \A k \in Buffered(s) : k \in Nat
          /\ n \in Nat /\ m_seqNum[s] \in Nat
        BY BufferedFacts
    <2>4. \A k \in Buffered(s) : m_seqNum[s] < k
        BY ONLY <2>1, <2>3
    <2> QED
        BY <2>1, <2>2, <2>4
<1>8. ASSUME NEW s \in Streams, StopAtEmpty(s)
      PROVE  HandlerProgress'
    BY <1>8 DEF StopAtEmpty, FinishRound
<1>9. ASSUME NEW s \in Streams, EndOfStream(s)
      PROVE  HandlerProgress'
    BY <1>9 DEF EndOfStream, NoCopies
<1>10. CASE GetStreamSequenceNumbers
    BY <1>10 DEF GetStreamSequenceNumbers
<1>11. CASE SendPeriodicRequests
    BY <1>11 DEF SendPeriodicRequests
<1>12. CASE UNCHANGED vars
    BY <1>12 DEF vars
<1> QED
    BY <1>1, <1>2, <1>3, <1>4, <1>5, <1>7, <1>8, <1>9, <1>10, <1>11, <1>12 DEF Next, HandlerStep

\* The callback acknowledges as soon as a window is full.
LEMMA AckStep ==
    ASSUME TypeOK, FreshWhenErased, AckBehind, [Next]_vars
    PROVE  AckBehind'
<1> USE DEF TypeOK, AckBehind
<1>1. CASE LowerConnect
    BY <1>1 DEF LowerConnect
<1>2. CASE ResetStreams
    BY <1>2 DEF ResetStreams
<1>3. ASSUME NEW s \in Streams, NEW n \in SeqNums(s), OnMessage(s, n)
      PROVE  AckBehind'
    BY <1>3 DEF OnMessage
<1>4. ASSUME NEW s \in Streams, NEW n \in SeqNums(s), ForwardExpected(s, n)
      PROVE  AckBehind'
    BY <1>4 DEF ForwardExpected, SeqNums
<1>5. ASSUME NEW s \in Streams, NEW n \in SeqNums(s), DropStale(s, n)
      PROVE  AckBehind'
    BY <1>5 DEF DropStale
<1>6. ASSUME NEW s \in Streams, NEW c, FinishRound(s, c)
      PROVE  AckBehind'
    BY <1>6 DEF FinishRound
<1>9. ASSUME NEW s \in Streams, EndOfStream(s)
      PROVE  AckBehind'
    BY <1>9 DEF EndOfStream
<1>10. CASE GetStreamSequenceNumbers
    BY <1>10 DEF GetStreamSequenceNumbers
<1>11. CASE SendPeriodicRequests
    BY <1>11 DEF SendPeriodicRequests
<1>12. CASE UNCHANGED vars
    BY <1>12 DEF vars
<1> QED
    BY <1>1, <1>2, <1>3, <1>4, <1>5, <1>6, <1>9, <1>10, <1>11, <1>12
    DEF Next, HandlerStep, StopAtGap, StopAtEmpty

\* Steps that neither forward a message nor erase a buffer.
LEMMA OtherSteps ==
    ASSUME [Next]_vars
    PROVE  \/ \E s \in Streams : \E n \in SeqNums(s) : ForwardExpected(s, n)
           \/ \E s \in Streams : EndOfStream(s)
           \/ UNCHANGED <<m_seqNum, forwarded>>
BY DEF Next, HandlerStep, vars, LowerConnect, ResetStreams, OnMessage, DropStale,
       StopAtGap, StopAtEmpty, FinishRound, GetStreamSequenceNumbers, SendPeriodicRequests

\* What forwarding message n of s does to the history.
LEMMA ForwardFacts ==
    ASSUME TypeOK, NEW s \in Streams, NEW n \in SeqNums(s), ForwardExpected(s, n)
    PROVE  /\ n = m_seqNum[s] /\ n \in Nat
           /\ forwarded[s] \in Seq(SeqNums(s))
           /\ m_seqNum'[s] = n + 1
           /\ Len(forwarded'[s]) = Len(forwarded[s]) + 1
           /\ Len(forwarded[s]) \in Nat
           /\ forwarded'[s][Len(forwarded[s]) + 1] = n
           /\ \A i \in 1..Len(forwarded[s]) : forwarded'[s][i] = forwarded[s][i]
           /\ \A t \in Streams \ {s} : /\ forwarded'[t] = forwarded[t]
                                       /\ m_seqNum'[t] = m_seqNum[t]
<1>1. /\ forwarded'[s] = Append(forwarded[s], n)
      /\ n = m_seqNum[s] /\ m_seqNum'[s] = n + 1 /\ n \in Nat
      /\ \A t \in Streams \ {s} : forwarded'[t] = forwarded[t] /\ m_seqNum'[t] = m_seqNum[t]
    BY DEF ForwardExpected, TypeOK, SeqNums
<1>2. forwarded[s] \in Seq(SeqNums(s))
    BY DEF TypeOK
<1> QED
    BY <1>1, <1>2

\* Erasing the buffer of s restarts its expected number.
LEMMA EraseFacts ==
    ASSUME TypeOK, HandlerProgress, NEW s \in Streams, EndOfStream(s)
    PROVE  /\ m_seqNum[s] = LastSeq[s] + 1 /\ m_seqNum'[s] = 0
           /\ forwarded' = forwarded
           /\ \A t \in Streams \ {s} : m_seqNum'[t] = m_seqNum[t]
BY DEF TypeOK, HandlerProgress, EndOfStream

LEMMA FollowsStep ==
    ASSUME TypeOK, HandlerProgress, ExpectedFollows, [Next]_vars
    PROVE  ExpectedFollows'
<1>1. ASSUME NEW s \in Streams, NEW n \in SeqNums(s), ForwardExpected(s, n)
      PROVE  ExpectedFollows'
    <2>1. /\ forwarded'[s] # <<>>
          /\ Follows(s, forwarded'[s][Len(forwarded'[s])], m_seqNum'[s])
        BY <1>1, ForwardFacts DEF Follows
    <2>2. ASSUME NEW t \in Streams \ {s}
          PROVE  /\ forwarded'[t] = <<>> => m_seqNum'[t] = 0
                 /\ forwarded'[t] # <<>> => Follows(t, forwarded'[t][Len(forwarded'[t])], m_seqNum'[t])
        <3>1. forwarded'[t] = forwarded[t] /\ m_seqNum'[t] = m_seqNum[t]
            BY <1>1, ForwardFacts
        <3> QED
            BY <3>1 DEF ExpectedFollows
    <2> QED
        BY <2>1, <2>2 DEF ExpectedFollows, Follows
<1>2. ASSUME NEW s \in Streams, EndOfStream(s)
      PROVE  ExpectedFollows'
    <2>1. forwarded[s] # <<>> => Follows(s, forwarded[s][Len(forwarded[s])], 0)
        <3> SUFFICES ASSUME forwarded[s] # <<>>
                     PROVE  forwarded[s][Len(forwarded[s])] = LastSeq[s]
            BY DEF Follows
        <3>1. /\ Len(forwarded[s]) \in 1..Len(forwarded[s])
              /\ forwarded[s][Len(forwarded[s])] \in SeqNums(s)
            BY DEF TypeOK
        <3>2. Follows(s, forwarded[s][Len(forwarded[s])], LastSeq[s] + 1)
            BY <1>2, EraseFacts DEF ExpectedFollows
        <3> QED
            BY <3>1, <3>2, BufferedFacts DEF Follows
    <2> QED
        BY <1>2, <2>1, EraseFacts DEF ExpectedFollows, Follows
<1>3. CASE UNCHANGED <<m_seqNum, forwarded>>
    BY <1>3 DEF ExpectedFollows, Follows
<1> QED
    BY <1>1, <1>2, <1>3, OtherSteps

LEMMA SequenceStep ==
    ASSUME TypeOK, HandlerProgress, ExpectedFollows, ForwardedInSequence, [Next]_vars
    PROVE  ForwardedInSequence'
<1>1. ASSUME NEW s \in Streams, NEW n \in SeqNums(s), ForwardExpected(s, n)
      PROVE  ForwardedInSequence'
    <2> DEFINE len == Len(forwarded[s])
    <2>1. len \in Nat /\ Len(forwarded'[s]) = len + 1 /\ (len = 0 <=> forwarded[s] = <<>>)
        BY <1>1, ForwardFacts
    <2>2. forwarded'[s][1] = 0
        <3>1. CASE len = 0
            BY <1>1, <2>1, <3>1, ForwardFacts DEF ExpectedFollows
        <3>2. CASE len # 0
            BY <1>1, <2>1, <3>2, ForwardFacts DEF ForwardedInSequence
        <3> QED
            BY <3>1, <3>2
    <2>3. ASSUME NEW i \in 1..len
          PROVE  Follows(s, forwarded'[s][i], forwarded'[s][i + 1])
        <3>1. CASE i = len
            <4>1. Follows(s, forwarded[s][len], n)
                BY <1>1, <2>1, <3>1, ForwardFacts DEF ExpectedFollows
            <4> QED
                BY <1>1, <2>1, <3>1, <4>1, ForwardFacts
        <3>2. CASE i # len
            <4>1. i \in 1..(len - 1) /\ i + 1 \in 1..len
                BY <2>1, <3>2
            <4>2. Follows(s, forwarded[s][i], forwarded[s][i + 1])
                BY <4>1 DEF ForwardedInSequence
            <4> QED
                BY <1>1, <4>1, <4>2, ForwardFacts
        <3> QED
            BY <3>1, <3>2
    <2>4. 1..(Len(forwarded'[s]) - 1) = 1..len
        BY <2>1
    <2>5. ASSUME NEW t \in Streams \ {s}
          PROVE  /\ forwarded'[t] # <<>> => forwarded'[t][1] = 0
                 /\ \A i \in 1..(Len(forwarded'[t]) - 1) : Follows(t, forwarded'[t][i], forwarded'[t][i + 1])
        <3>1. forwarded'[t] = forwarded[t]
            BY <1>1, ForwardFacts
        <3> QED
            BY <3>1 DEF ForwardedInSequence
    <2> QED
        BY <2>2, <2>3, <2>4, <2>5 DEF ForwardedInSequence, Follows
<1>2. CASE UNCHANGED forwarded
    BY <1>2 DEF ForwardedInSequence, Follows
<1> QED
    BY <1>1, <1>2, OtherSteps, EraseFacts

LEMMA PrefixStep ==
    ASSUME TypeOK, HandlerProgress, PrefixForwarded, [Next]_vars
    PROVE  PrefixForwarded'
<1>1. ASSUME NEW s \in Streams, NEW n \in SeqNums(s), ForwardExpected(s, n)
      PROVE  PrefixForwarded'
    <2>1. WasForwarded(s, n)'
        BY <1>1, ForwardFacts DEF WasForwarded
    <2>2. ASSUME NEW k, WasForwarded(s, k)
          PROVE  WasForwarded(s, k)'
        <3>1. PICK i \in 1..Len(forwarded[s]) : forwarded[s][i] = k
            BY <2>2 DEF WasForwarded
        <3>2. i \in 1..Len(forwarded'[s]) /\ forwarded'[s][i] = k
            BY <1>1, <3>1, ForwardFacts
        <3> QED
            BY <3>2 DEF WasForwarded
    <2>3. \A k \in 0..(LastSeq[s] + 1) : k < n + 1 => k < n \/ k = n
        BY <1>1, ForwardFacts
    <2>4. \A k \in 0..(LastSeq[s] + 1) : k < m_seqNum'[s] => WasForwarded(s, k)'
        BY <1>1, <2>1, <2>2, <2>3, ForwardFacts DEF PrefixForwarded
    <2>5. ASSUME NEW t \in Streams \ {s}, NEW k \in 0..(LastSeq[t] + 1), k < m_seqNum'[t]
          PROVE  WasForwarded(t, k)'
        <3>1. forwarded'[t] = forwarded[t] /\ m_seqNum'[t] = m_seqNum[t]
            BY <1>1, ForwardFacts
        <3>2. WasForwarded(t, k)
            BY <2>5, <3>1 DEF PrefixForwarded
        <3> QED
            BY <3>1, <3>2 DEF WasForwarded
    <2> QED
        BY <2>4, <2>5 DEF PrefixForwarded
<1>2. ASSUME NEW s \in Streams, EndOfStream(s)
      PROVE  PrefixForwarded'
    BY <1>2, EraseFacts DEF PrefixForwarded, WasForwarded
<1>3. CASE UNCHANGED <<m_seqNum, forwarded>>
    BY <1>3 DEF PrefixForwarded, WasForwarded
<1> QED
    BY <1>1, <1>2, <1>3, OtherSteps

\* The history only grows.
LEMMA StaysForwarded ==
    ASSUME TypeOK, HandlerProgress, [Next]_vars,
           NEW s \in Streams, NEW k, WasForwarded(s, k)
    PROVE  WasForwarded(s, k)'
<1>1. PICK i \in 1..Len(forwarded[s]) : forwarded[s][i] = k
    BY DEF WasForwarded
<1>2. ASSUME NEW t \in Streams, NEW n \in SeqNums(t), ForwardExpected(t, n)
      PROVE  WasForwarded(s, k)'
    <2>1. i \in 1..Len(forwarded'[s]) /\ forwarded'[s][i] = k
        BY <1>1, <1>2, ForwardFacts
    <2> QED
        BY <2>1 DEF WasForwarded
<1>3. CASE UNCHANGED forwarded
    BY <1>3 DEF WasForwarded
<1> QED
    BY <1>2, <1>3, OtherSteps, EraseFacts

\* A new acknowledgement is for the message before the expected one.
LEMMA NewAcks ==
    ASSUME TypeOK, HandlerProgress, [Next]_vars,
           NEW m \in outbox', m \notin outbox, m.type = "ack"
    PROVE  m.stream \in Streams /\ m_seqNum[m.stream] > 0 /\ m.upto = m_seqNum[m.stream] - 1
<1>1. CASE ResetStreams
    BY <1>1 DEF ResetStreams, Reset
<1>2. ASSUME NEW s \in Streams, NEW c, FinishRound(s, c)
      PROVE  m.stream \in Streams /\ m_seqNum[m.stream] > 0 /\ m.upto = m_seqNum[m.stream] - 1
    <2>1. m_seqNum[s] \in Nat /\ m_seqNumAck[s] \in Nat
        BY DEF TypeOK
    <2>2. /\ m = Ack(s, Before(m_seqNum[s]))
          /\ m_seqNum[s] >= m_seqNumAck[s] + AckWindow
        BY <1>2 DEF FinishRound, Request
    <2>3. m_seqNum[s] > 0
        BY <2>1, <2>2
    <2> QED
        BY <2>1, <2>2, <2>3 DEF Ack, Before
<1>3. ASSUME NEW s \in Streams, EndOfStream(s)
      PROVE  m.stream \in Streams /\ m_seqNum[m.stream] > 0 /\ m.upto = m_seqNum[m.stream] - 1
    <2>1. m = Ack(s, Before(m_seqNum[s]))
        BY <1>3 DEF EndOfStream
    <2>2. m_seqNum[s] \in Nat /\ m_seqNum[s] > 0
        BY <1>3, EraseFacts, BufferedFacts
    <2> QED
        BY <2>1, <2>2 DEF Ack, Before
<1>4. CASE SendPeriodicRequests
    BY <1>4 DEF SendPeriodicRequests, Request
<1>5. CASE UNCHANGED outbox
    BY <1>5
<1> QED
    BY <1>1, <1>2, <1>3, <1>4, <1>5
    DEF Next, HandlerStep, vars, LowerConnect, OnMessage, ForwardExpected, DropStale,
        StopAtGap, StopAtEmpty, GetStreamSequenceNumbers

LEMMA AcknowledgeStep ==
    ASSUME TypeOK, HandlerProgress, PrefixForwarded, AcknowledgedWasForwarded, [Next]_vars
    PROVE  AcknowledgedWasForwarded'
<1> SUFFICES ASSUME NEW m \in outbox', m.type = "ack"
             PROVE  m.upto <= LastSeq[m.stream] /\ \A k \in 0..m.upto : WasForwarded(m.stream, k)'
    BY DEF AcknowledgedWasForwarded, WasForwarded
<1>1. CASE m \in outbox
    <2>1. m.stream \in Streams
        BY <1>1 DEF TypeOK, ControlMessages
    <2>2. m.upto <= LastSeq[m.stream] /\ \A k \in 0..m.upto : WasForwarded(m.stream, k)
        BY <1>1 DEF AcknowledgedWasForwarded
    <2> QED
        BY <2>1, <2>2, StaysForwarded
<1>2. CASE m \notin outbox
    <2>1. m.stream \in Streams /\ m_seqNum[m.stream] > 0 /\ m.upto = m_seqNum[m.stream] - 1
        BY <1>2, NewAcks
    <2>2. /\ LastSeq[m.stream] \in Nat /\ m_seqNum[m.stream] \in Nat
          /\ m_seqNum[m.stream] <= LastSeq[m.stream] + 1
        <3>1. LastSeq[m.stream] \in Nat /\ m_seqNum[m.stream] \in Nat
            BY <2>1 DEF TypeOK
        <3>2. m_seqNum[m.stream] = LastSeq[m.stream] + 1 \/ m_seqNum[m.stream] <= LastSeq[m.stream]
            BY <2>1 DEF HandlerProgress
        <3> QED
            BY <3>1, <3>2
    <2>3. \A k \in 0..m.upto : k \in 0..(LastSeq[m.stream] + 1) /\ k < m_seqNum[m.stream]
        BY <2>1, <2>2
    <2>4. \A k \in 0..m.upto : WasForwarded(m.stream, k)
        BY <2>1, <2>3 DEF PrefixForwarded
    <2> QED
        BY <2>1, <2>2, <2>4, StaysForwarded
<1> QED
    BY <1>1, <1>2

(***************************************************************************)
(* IInv holds in every reachable state: the callback, clear() and the      *)
(* periodic request keep buffers, counters and history consistent.         *)
(***************************************************************************)
THEOREM Invariance == Spec => []IInv
<1>1. Init => IInv
    <2> SUFFICES ASSUME Init PROVE IInv
        OBVIOUS
    <2>1. ASSUME NEW s \in Streams
          PROVE  /\ NoCopies(s) \in [SeqNums(s) -> Nat]
                 /\ <<>> \in Seq(SeqNums(s))
                 /\ Buffered(s) = {}
        <3>1. NoCopies(s) \in [SeqNums(s) -> Nat] /\ \A n \in SeqNums(s) : NoCopies(s)[n] = 0
            BY DEF NoCopies
        <3>2. m_buffer[s] = NoCopies(s)
            BY DEF Init
        <3>3. Buffered(s) = {}
            BY <3>1, <3>2 DEF Buffered
        <3>4. <<>> \in Seq(SeqNums(s))
            OBVIOUS
        <3> QED
            BY <3>1, <3>3, <3>4
    <2>2. TypeOK
        BY <2>1 DEF Init, TypeOK
    <2>3. \A s \in Streams : Buffered(s) = {}
        BY <2>1
    <2>4. FreshWhenErased /\ HandlerProgress /\ AckBehind
        BY <2>3 DEF Init, FreshWhenErased, HandlerProgress, AckBehind
    <2>5. ExpectedFollows /\ ForwardedInSequence /\ PrefixForwarded /\ AcknowledgedWasForwarded
        BY DEF Init, ExpectedFollows, ForwardedInSequence, PrefixForwarded, AcknowledgedWasForwarded
    <2> QED
        BY <2>2, <2>4, <2>5 DEF IInv
<1>2. IInv /\ [Next]_vars => IInv'
    BY TypeStep, FreshStep, ProgressStep, AckStep, FollowsStep, SequenceStep, PrefixStep,
       AcknowledgeStep DEF IInv
<1> QED
    BY <1>1, <1>2, PTL DEF Spec

\* Messages are forwarded in sequence from 0, none skipped or repeated, until
\* the end of the stream (Buffer::clear()).
THEOREM InSequence == Spec => []ForwardedInSequence
<1>1. IInv => ForwardedInSequence
    BY DEF IInv
<1> QED
    BY <1>1, Invariance, PTL

\* The callback acknowledges only what was forwarded.
THEOREM AcknowledgementsSound == Spec => []AcknowledgedWasForwarded
<1>1. IInv => AcknowledgedWasForwarded
    BY DEF IInv
<1> QED
    BY <1>1, Invariance, PTL

\* Between handlers less than a window is unacknowledged and only messages
\* ahead of the expected one are buffered.
THEOREM Quiescence == Spec => []QuiescentBuffer
<1>1. IInv => QuiescentBuffer
    BY DEF IInv, HandlerProgress, AckBehind, QuiescentBuffer
<1> QED
    BY <1>1, Invariance, PTL

(***************************************************************************)
(* A request sent by a handler is a non-empty range of missing messages    *)
(* that starts at the expected one (setOnMessageCallback, clear()).        *)
(***************************************************************************)
THEOREM RequestsSound == Spec => RequestsOnlyMissing
<1> DEFINE A == \A s \in Streams : handler[s] = "clear" /\ handler'[s] = "idle" =>
                    \A m \in outbox' \ outbox : m.type = "request" =>
                        /\ m.lower = m_seqNum[m.stream]
                        /\ m.lower <= m.upper /\ m.upper < LastSeq[m.stream]
                        /\ \A n \in m.lower..m.upper : n \notin Buffered(m.stream)
<1>1. IInv /\ [Next]_vars => [A]_vars
    <2> SUFFICES ASSUME IInv, [Next]_vars, NEW s \in Streams,
                        handler[s] = "clear", handler'[s] = "idle",
                        NEW m \in outbox', m \notin outbox, m.type = "request"
                 PROVE  /\ m.lower = m_seqNum[m.stream]
                        /\ m.lower <= m.upper /\ m.upper < LastSeq[m.stream]
                        /\ \A n \in m.lower..m.upper : n \notin Buffered(m.stream)
        OBVIOUS
    <2> USE DEF IInv
    <2>1. \/ \E n \in SeqNums(s) : StopAtGap(s, n)
          \/ StopAtEmpty(s)
        <3>1. ASSUME NEW t \in Streams, HandlerStep(t)
              PROVE  \/ \E n \in SeqNums(s) : StopAtGap(s, n)
                     \/ StopAtEmpty(s)
            BY <3>1 DEF TypeOK, HandlerStep, ForwardExpected, DropStale, StopAtGap, StopAtEmpty,
                        FinishRound, EndOfStream
        <3> QED
            BY <3>1 DEF TypeOK, Next, vars, LowerConnect, ResetStreams, OnMessage,
                        GetStreamSequenceNumbers, SendPeriodicRequests
    <2>2. m_seqNum[s] \in Nat /\ LastSeq[s] \in Nat
        BY DEF TypeOK
    <2>3. CASE \E n \in SeqNums(s) : StopAtGap(s, n)
        <3>1. PICK n \in SeqNums(s) : StopAtGap(s, n)
            BY <2>3
        <3>2. /\ n \in Nat /\ n <= LastSeq[s] /\ m_seqNum[s] < n
              /\ \A k \in Buffered(s) : k \in Nat /\ n <= k
            BY <3>1, BufferedFacts DEF StopAtGap, IsNext
        <3>3. m = Request(s, m_seqNum[s], Before(n))
            BY <3>1 DEF StopAtGap, FinishRound, Ack
        <3>4. m.stream = s /\ m.lower = m_seqNum[s] /\ m.upper = n - 1
            BY <2>2, <3>2, <3>3 DEF Request, Before
        <3> QED
            BY <2>2, <3>2, <3>4
    <2>4. CASE StopAtEmpty(s)
        <3>1. m_seqNum[s] > 0
            BY <2>4 DEF StopAtEmpty, HandlerProgress
        <3>2. ~(m_seqNum[s] <= Before(m_seqNum[s]))
            BY <2>2, <3>1 DEF Before
        <3> QED
            BY <2>4, <3>2 DEF StopAtEmpty, FinishRound, Ack
    <2> QED
        BY <2>1, <2>3, <2>4
<1>2. [][A]_vars => RequestsOnlyMissing
    BY PTL DEF RequestsOnlyMissing
<1> QED
    BY <1>1, <1>2, Invariance, PTL DEF Spec

=============================================================================
