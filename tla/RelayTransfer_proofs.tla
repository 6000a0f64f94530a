------------------------- MODULE RelayTransfer_proofs -------------------------
(* The safety of a relay connection, for every set of payloads, window and  *)
(* limit of retransmissions, and its implementation of RelayChannel.       *)
EXTENDS RelayTransfer, FiniteSetTheorems, FunctionTheorems, SequenceTheorems, TLAPS

USE ModesAssumption, WindowAssumption, RetransmitsAssumption

\* The first state satisfies the invariant.
LEMMA Start == Init => IInv
  <1> SUFFICES ASSUME Init PROVE IInv
    OBVIOUS
  <1> USE DEF Init
  <1>1. TypeOK
    <2>1. SenderType
      BY DEF SenderType, Reasons
    <2>2. LoopType
      BY DEF LoopType, LoopPcs
    <2>3. NetType
      BY DEF NetType
    <2>4. PeerType
      BY DEF PeerType
    <2> QED
      BY <2>1, <2>2, <2>3, <2>4 DEF TypeOK
  <1>2. UnackedAreKept
    <2>1. SeqsOf(unacked) = {}
      BY DEF SeqsOf
    <2> QED
      BY <2>1 DEF UnackedAreKept
  <1>3. DeliveredInOrder
    BY DEF DeliveredInOrder
  <1>4. OnlyAccepted /\ AcksAreHandled
    BY DEF OnlyAccepted, AcksAreHandled
  <1> QED
    BY <1>1, <1>2, <1>3, <1>4 DEF IInv, Numbered, ModeParts, FramesGenuine, AcksGiven,
       WindowKept, BufferIsAhead

\* Closing leaves a wakeup or none.
LEMMA WokenType == ASSUME NEW why, woken \in BOOLEAN, HandleClose(why) PROVE woken' \in BOOLEAN
  <1>1. (loopPc \in {"full", "select"}) \in BOOLEAN
    OBVIOUS
  <1>2. woken' = woken \/ woken' = (loopPc \in {"full", "select"})
    BY Zenon DEF HandleClose, connVars
  <1> QED
    BY <1>1, <1>2, Zenon

\* A run of buffered frames ends before a gap, each payload of it is that of a frame
\* with its number, and what was delivered before stays.
LEMMA RunDelivered ==
  ASSUME IInv, NEW f \in net, f.seq = expectedSeq, DeliverRun(f)
  PROVE  \E last \in Nat :
           /\ last >= f.seq /\ expectedSeq' = last + 1
           /\ last = f.seq \/ last \in SeqsOf(recvBuf)
           /\ last + 1 \notin SeqsOf(recvBuf)
           /\ recvBuf' = {g \in recvBuf : g.seq > last}
           /\ delivered' \in Seq(Data) /\ Len(delivered') = Len(delivered) + last - f.seq + 1
           /\ \A i \in 1 .. Len(delivered) : delivered'[i] = delivered[i]
           /\ \A i \in 1 .. last - f.seq + 1 :
                \E g \in recvBuf \cup {f} : g.seq = f.seq + i - 1
                                         /\ delivered'[Len(delivered) + i] = g.data
  <1> USE DEF IInv, TypeOK, NetType, PeerType, Frames
  <1>1. PICK last \in {f.seq} \cup SeqsOf(recvBuf) :
          /\ \A s \in f.seq + 1 .. last : s \in SeqsOf(recvBuf)
          /\ last + 1 \notin SeqsOf(recvBuf)
          /\ expectedSeq' = last + 1
          /\ recvBuf' = {g \in recvBuf : g.seq > last}
          /\ delivered' = delivered \o
               [i \in 1 .. last - f.seq + 1 |-> DataOf(recvBuf \cup {f}, f.seq + i - 1)]
    BY Zenon DEF DeliverRun
  <1>2. last \in Nat /\ last >= f.seq /\ f.seq \in Nat
    BY DEF SeqsOf, BufferIsAhead
  <1> DEFINE n == last - f.seq + 1
             run == [i \in 1 .. n |-> DataOf(recvBuf \cup {f}, f.seq + i - 1)]
  <1>3. \A i \in 1 .. n : \E g \in recvBuf \cup {f} : g.seq = f.seq + i - 1
                                                 /\ run[i] = g.data
    <2> SUFFICES ASSUME NEW i \in 1 .. n
                 PROVE  \E g \in recvBuf \cup {f} : g.seq = f.seq + i - 1 /\ run[i] = g.data
      OBVIOUS
    <2>1. \E g \in recvBuf \cup {f} : g.seq = f.seq + i - 1
      <3>1. CASE i = 1
        BY <1>2, <3>1
      <3>2. CASE i # 1
        <4>1. f.seq + i - 1 \in f.seq + 1 .. last
          BY <1>2, <3>2
        <4> QED
          BY <1>1, <4>1 DEF SeqsOf
      <3> QED
        BY <3>1, <3>2
    <2>2. run[i] = DataOf(recvBuf \cup {f}, f.seq + i - 1)
      OBVIOUS
    <2> QED
      BY <2>1, <2>2 DEF DataOf
  <1>4. run \in Seq(Data) /\ Len(run) = n
    <2>1. \A i \in 1 .. n : run[i] \in Data
      BY <1>3
    <2>2. n \in Nat
      BY <1>2
    <2>3. run \in [1 .. n -> Data]
      BY <2>1
    <2> HIDE DEF n, run
    <2>4. run \in Seq(Data)
      BY <2>2, <2>3, SeqDef
    <2>5. DOMAIN run = 1 .. n /\ DOMAIN run = 1 .. Len(run) /\ Len(run) \in Nat
      BY <2>3, <2>4, LenProperties
    <2> QED
      BY <2>2, <2>4, <2>5
  <1>5. delivered' = delivered \o run
    BY <1>1
  <1>n. n \in Nat
    BY <1>2
  <1> HIDE DEF n, run
  <1>6. /\ delivered' \in Seq(Data) /\ Len(delivered') = Len(delivered) + n
        /\ \A i \in 1 .. Len(delivered) : delivered'[i] = delivered[i]
        /\ \A i \in 1 .. n : delivered'[Len(delivered) + i] = run[i]
    <2>1. Len(delivered) \in Nat
      OBVIOUS
    <2>2. /\ delivered' \in Seq(Data) /\ Len(delivered') = Len(delivered) + n
          /\ \A i \in 1 .. Len(delivered) + n :
               delivered'[i] = IF i <= Len(delivered) THEN delivered[i]
                                                      ELSE run[i - Len(delivered)]
      BY <1>4, <1>5, ConcatProperties
    <2>3. \A i \in 1 .. n : /\ Len(delivered) + i \in 1 .. Len(delivered) + n
                            /\ ~(Len(delivered) + i <= Len(delivered))
                            /\ Len(delivered) + i - Len(delivered) = i
      BY <1>n, <2>1
    <2>4. \A i \in 1 .. Len(delivered) : i \in 1 .. Len(delivered) + n /\ i <= Len(delivered)
      BY <1>n, <2>1
    <2> HIDE DEF IInv, TypeOK, NetType, PeerType, Frames
    <2>5. \A i \in 1 .. Len(delivered) : delivered'[i] = delivered[i]
      BY <2>2, <2>4
    <2>6. ASSUME NEW i \in 1 .. n PROVE delivered'[Len(delivered) + i] = run[i]
      <3>1. PICK k \in 1 .. Len(delivered) + n : k = Len(delivered) + i
        BY <2>3
      <3>2. ~(k <= Len(delivered)) /\ k - Len(delivered) = i
        BY <2>3, <3>1
      <3>3. delivered'[k] = run[k - Len(delivered)]
        BY <2>2, <3>2
      <3> QED
        BY <3>1, <3>2, <3>3
    <2> QED
      BY <2>2, <2>5, <2>6
  <1>7. Len(delivered') = Len(delivered) + last - f.seq + 1
    BY <1>2, <1>6 DEF n
  <1>8. \A i \in 1 .. last - f.seq + 1 :
          \E g \in recvBuf \cup {f} : g.seq = f.seq + i - 1
                                   /\ delivered'[Len(delivered) + i] = g.data
    BY <1>3, <1>6 DEF n
  <1>9. last = f.seq \/ last \in SeqsOf(recvBuf)
    BY <1>1
  <1> QED
    BY <1>1, <1>2, <1>6, <1>7, <1>8, <1>9

\* The sender keeps its types.
LEMMA SenderTypeStep == ASSUME IInv, Next PROVE SenderType'
  <1> USE DEF IInv, TypeOK, SenderType, Frames, config, connVars, sendVars,
              queueVars, loopVars, netVars, peerVars
  <1>1. ASSUME NEW d \in Data, Send(d) PROVE SenderType'
    BY <1>1 DEF Send
  <1>2. ASSUME NEW d \in sending, Enqueue(d) PROVE SenderType'
    BY <1>2 DEF Enqueue
  <1>3. ASSUME NEW d \in sending, SendGivesUp(d) PROVE SenderType'
    BY <1>3 DEF SendGivesUp
  <1>4. CASE Close
    BY <1>4 DEF Close
  <1>5. CASE FinishClose
    BY <1>5 DEF FinishClose, HandleClose, Reasons
  <1>6. CASE RemoteClose
    BY <1>6 DEF RemoteClose, HandleClose, Reasons
  <1>7. CASE LoopTop
    BY <1>7 DEF LoopTop, Goto
  <1>8. CASE CheckWindow
    BY <1>8 DEF CheckWindow, Goto, WindowIsOpen
  <1>9. CASE CloseWakes
    BY <1>9 DEF CloseWakes
  <1>10. CASE TakeData
    <2>1. taken < Len(accepted) /\ taken' = taken + 1 /\ accepted[taken + 1] \in Data
      BY <1>10 DEF TakeData
    <2>2. UNCHANGED <<mode, state, reason, sendBase, retransCnt, sending, accepted>>
      BY <1>10 DEF TakeData
    <2>3. nextSeq' \in Nat /\ unacked' \subseteq Frames
      BY <1>10, <2>1 DEF TakeData
    <2> QED
      BY <2>1, <2>2, <2>3
  <1>11. CASE Transmit
    BY <1>11 DEF Transmit, Goto, HandleClose, Reasons
  <1>12. CASE Tick
    BY <1>12 DEF Tick, Reasons
  <1>13. ASSUME NEW s \in resend, Resend(s) PROVE SenderType'
    BY <1>13 DEF Resend
  <1>14. CASE ResendDone
    BY <1>14 DEF ResendDone, Goto
  <1>15. ASSUME NEW a \in acks, HandleAck(a) PROVE SenderType'
    BY <1>15 DEF HandleAck, NetType
  <1>16. ASSUME NEW f \in net, HandleOrdered(f) PROVE SenderType'
    BY <1>16 DEF HandleOrdered, Receive, Acknowledge
  <1>17. ASSUME NEW f \in net, HandleDirect(f) PROVE SenderType'
    BY <1>17 DEF HandleDirect, Receive
  <1>18. ASSUME NEW f \in net, AcknowledgeFirst(f) PROVE SenderType'
    BY <1>18 DEF AcknowledgeFirst, Receive, Acknowledge
  <1>19. ASSUME NEW f \in handling, DeliverHandled(f) PROVE SenderType'
    BY <1>19 DEF DeliverHandled
  <1>20. CASE ReceiveClose
    BY <1>20 DEF ReceiveClose
  <1>21. CASE Lose
    BY <1>21 DEF Lose
  <1> QED
    BY <1>1, <1>2, <1>3, <1>4, <1>5, <1>6, <1>7, <1>8, <1>9, <1>10, <1>11, <1>12,
       <1>13, <1>14, <1>15, <1>16, <1>17, <1>18, <1>19, <1>20, <1>21, Zenon DEF Next, SendLoop

\* The send loop keeps its types.
LEMMA LoopTypeStep == ASSUME IInv, Next PROVE LoopType'
  <1> USE DEF IInv, TypeOK, LoopType, config, connVars, sendVars, queueVars,
              loopVars, netVars, peerVars
  <1>1. ASSUME NEW d \in Data, Send(d) PROVE LoopType'
    BY <1>1 DEF Send
  <1>2. ASSUME NEW d \in sending, Enqueue(d) PROVE LoopType'
    BY <1>2 DEF Enqueue
  <1>3. ASSUME NEW d \in sending, SendGivesUp(d) PROVE LoopType'
    BY <1>3 DEF SendGivesUp
  <1>4. CASE Close
    BY <1>4 DEF Close
  <1>5. CASE FinishClose
    <2>1. woken' \in BOOLEAN
      BY <1>5, WokenType DEF FinishClose
    <2> QED
      BY <1>5, <2>1 DEF FinishClose
  <1>6. CASE RemoteClose
    <2>1. woken' \in BOOLEAN
      BY <1>6, WokenType DEF RemoteClose
    <2> QED
      BY <1>6, <2>1 DEF RemoteClose
  <1>7. CASE LoopTop
    BY <1>7 DEF LoopTop, Goto, LoopPcs
  <1>8. CASE CheckWindow
    BY <1>8 DEF CheckWindow, Goto, WindowIsOpen, LoopPcs
  <1>9. CASE CloseWakes
    BY <1>9 DEF CloseWakes, LoopPcs
  <1>10. CASE TakeData
    <2>1. accepted[taken + 1] \in Data /\ nextSeq \in Nat
      BY <1>10 DEF TakeData, SenderType
    <2>2. /\ loopPc' \in {"transmit", "done"} /\ woken' = FALSE
          /\ UNCHANGED <<resend, back>>
      BY <1>10 DEF TakeData, Goto
    <2>3. frame' \in Frames \/ (frame' = frame /\ loopPc' = "done")
      BY <1>10, <2>1 DEF TakeData, Goto, Frames
    <2> QED
      BY <2>2, <2>3 DEF LoopPcs
  <1>11. CASE Transmit
    <2>1. woken' \in BOOLEAN
      BY <1>11, WokenType DEF Transmit
    <2> QED
      BY <1>11, <2>1 DEF Transmit, Goto, LoopPcs
  <1>12. CASE Tick
    <2>1. back' \in {"top", "check"} /\ woken' = FALSE /\ frame' = frame
      BY <1>12 DEF Tick
    <2>2. loopPc' \in {back', "resend"}
      BY <1>12 DEF Tick
    <2>3. resend' \subseteq Nat
      <3>1. SeqsOf(unacked) \subseteq Nat
        BY DEF SeqsOf, SenderType, Frames
      <3>2. resend' = resend \/ resend' = SeqsOf(unacked)
        BY <1>12 DEF Tick
      <3> QED
        BY <3>1, <3>2
    <2> QED
      BY <2>1, <2>2, <2>3 DEF LoopPcs
  <1>13. ASSUME NEW s \in resend, Resend(s) PROVE LoopType'
    BY <1>13 DEF Resend
  <1>14. CASE ResendDone
    BY <1>14 DEF ResendDone, Goto, LoopPcs
  <1>15. ASSUME NEW a \in acks, HandleAck(a) PROVE LoopType'
    BY <1>15 DEF HandleAck
  <1>16. ASSUME NEW f \in net, HandleOrdered(f) PROVE LoopType'
    BY <1>16 DEF HandleOrdered, Receive, Acknowledge
  <1>17. ASSUME NEW f \in net, HandleDirect(f) PROVE LoopType'
    BY <1>17 DEF HandleDirect, Receive
  <1>18. ASSUME NEW f \in net, AcknowledgeFirst(f) PROVE LoopType'
    BY <1>18 DEF AcknowledgeFirst, Receive, Acknowledge
  <1>19. ASSUME NEW f \in handling, DeliverHandled(f) PROVE LoopType'
    BY <1>19 DEF DeliverHandled
  <1>20. CASE ReceiveClose
    BY <1>20 DEF ReceiveClose
  <1>21. CASE Lose
    BY <1>21 DEF Lose
  <1> QED
    BY <1>1, <1>2, <1>3, <1>4, <1>5, <1>6, <1>7, <1>8, <1>9, <1>10, <1>11, <1>12,
       <1>13, <1>14, <1>15, <1>16, <1>17, <1>18, <1>19, <1>20, <1>21, Zenon DEF Next, SendLoop

\* The packets keep their types.
LEMMA NetTypeStep == ASSUME IInv, Next PROVE NetType'
  <1> USE DEF IInv, TypeOK, NetType, Frames, config, connVars, sendVars, queueVars,
              loopVars, netVars, peerVars
  <1>1. ASSUME NEW d \in Data, Send(d) PROVE NetType'
    BY <1>1 DEF Send
  <1>2. ASSUME NEW d \in sending, Enqueue(d) PROVE NetType'
    BY <1>2 DEF Enqueue
  <1>3. ASSUME NEW d \in sending, SendGivesUp(d) PROVE NetType'
    BY <1>3 DEF SendGivesUp
  <1>4. CASE Close
    BY <1>4 DEF Close
  <1>5. CASE FinishClose
    BY <1>5 DEF FinishClose, HandleClose
  <1>6. CASE RemoteClose
    BY <1>6 DEF RemoteClose, HandleClose
  <1>7. CASE LoopTop
    BY <1>7 DEF LoopTop, Goto
  <1>8. CASE CheckWindow
    BY <1>8 DEF CheckWindow, Goto, WindowIsOpen
  <1>9. CASE CloseWakes
    BY <1>9 DEF CloseWakes
  <1>10. CASE TakeData
    BY <1>10 DEF TakeData, Goto
  <1>11. CASE Transmit
    BY <1>11 DEF Transmit, Goto, HandleClose, LoopType
  <1>12. CASE Tick
    BY <1>12 DEF Tick
  <1>13. ASSUME NEW s \in resend, Resend(s) PROVE NetType'
    BY <1>13 DEF Resend, SenderType
  <1>14. CASE ResendDone
    BY <1>14 DEF ResendDone, Goto
  <1>15. ASSUME NEW a \in acks, HandleAck(a) PROVE NetType'
    BY <1>15 DEF HandleAck
  <1>16. ASSUME NEW f \in net, HandleOrdered(f) PROVE NetType'
    <2>1. acks' \subseteq Nat
      BY <1>16 DEF HandleOrdered, Acknowledge
    <2> QED
      BY <1>16, <2>1 DEF HandleOrdered, Receive
  <1>17. ASSUME NEW f \in net, HandleDirect(f) PROVE NetType'
    BY <1>17 DEF HandleDirect, Receive
  <1>18. ASSUME NEW f \in net, AcknowledgeFirst(f) PROVE NetType'
    <2>1. acks' \subseteq Nat
      BY <1>18 DEF AcknowledgeFirst, Acknowledge
    <2> QED
      BY <1>18, <2>1 DEF AcknowledgeFirst, Receive
  <1>19. ASSUME NEW f \in handling, DeliverHandled(f) PROVE NetType'
    BY <1>19 DEF DeliverHandled
  <1>20. CASE ReceiveClose
    BY <1>20 DEF ReceiveClose
  <1>21. CASE Lose
    BY <1>21 DEF Lose
  <1> QED
    BY <1>1, <1>2, <1>3, <1>4, <1>5, <1>6, <1>7, <1>8, <1>9, <1>10, <1>11, <1>12,
       <1>13, <1>14, <1>15, <1>16, <1>17, <1>18, <1>19, <1>20, <1>21, Zenon DEF Next, SendLoop

\* The receiver keeps its types.
LEMMA PeerTypeStep == ASSUME IInv, Next PROVE PeerType'
  <1> USE DEF IInv, TypeOK, NetType, PeerType, Frames, config, connVars, sendVars,
              queueVars, loopVars, netVars, peerVars
  <1>1. ASSUME NEW d \in Data, Send(d) PROVE PeerType'
    BY <1>1 DEF Send
  <1>2. ASSUME NEW d \in sending, Enqueue(d) PROVE PeerType'
    BY <1>2 DEF Enqueue
  <1>3. ASSUME NEW d \in sending, SendGivesUp(d) PROVE PeerType'
    BY <1>3 DEF SendGivesUp
  <1>4. CASE Close
    BY <1>4 DEF Close
  <1>5. CASE FinishClose
    BY <1>5 DEF FinishClose, HandleClose
  <1>6. CASE RemoteClose
    BY <1>6 DEF RemoteClose, HandleClose
  <1>7. CASE LoopTop
    BY <1>7 DEF LoopTop, Goto
  <1>8. CASE CheckWindow
    BY <1>8 DEF CheckWindow, Goto, WindowIsOpen
  <1>9. CASE CloseWakes
    BY <1>9 DEF CloseWakes
  <1>10. CASE TakeData
    BY <1>10 DEF TakeData, Goto
  <1>11. CASE Transmit
    BY <1>11 DEF Transmit, Goto, HandleClose
  <1>12. CASE Tick
    BY <1>12 DEF Tick
  <1>13. ASSUME NEW s \in resend, Resend(s) PROVE PeerType'
    BY <1>13 DEF Resend
  <1>14. CASE ResendDone
    BY <1>14 DEF ResendDone, Goto
  <1>15. ASSUME NEW a \in acks, HandleAck(a) PROVE PeerType'
    BY <1>15 DEF HandleAck
  <1>16. ASSUME NEW f \in net, HandleOrdered(f) PROVE PeerType'
    <2>1. CASE f.seq = expectedSeq /\ DeliverRun(f)
      BY <1>16, <2>1, RunDelivered DEF HandleOrdered
    <2>2. CASE Buffer(f)
      BY <1>16, <2>2 DEF HandleOrdered, Buffer
    <2>3. CASE UNCHANGED <<expectedSeq, recvBuf, delivered>>
      BY <1>16, <2>3 DEF HandleOrdered
    <2> QED
      BY <1>16, <2>1, <2>2, <2>3 DEF HandleOrdered
  <1>17. ASSUME NEW f \in net, HandleDirect(f) PROVE PeerType'
    <2>1. delivered' \in Seq(Data)
      BY <1>17 DEF HandleDirect, DeliverOnce
    <2> QED
      BY <1>17, <2>1 DEF HandleDirect
  <1>18. ASSUME NEW f \in net, AcknowledgeFirst(f) PROVE PeerType'
    BY <1>18 DEF AcknowledgeFirst
  <1>19. ASSUME NEW f \in handling, DeliverHandled(f) PROVE PeerType'
    <2>1. delivered' \in Seq(Data)
      BY <1>19 DEF DeliverHandled, DeliverOnce
    <2> QED
      BY <1>19, <2>1 DEF DeliverHandled
  <1>20. CASE ReceiveClose
    BY <1>20 DEF ReceiveClose
  <1>21. CASE Lose
    BY <1>21 DEF Lose
  <1> QED
    BY <1>1, <1>2, <1>3, <1>4, <1>5, <1>6, <1>7, <1>8, <1>9, <1>10, <1>11, <1>12,
       <1>13, <1>14, <1>15, <1>16, <1>17, <1>18, <1>19, <1>20, <1>21, Zenon DEF Next, SendLoop

\* The type invariant is preserved.
LEMMA TypeStep == ASSUME IInv, Next PROVE TypeOK'
  BY SenderTypeStep, LoopTypeStep, NetTypeStep, PeerTypeStep DEF TypeOK

\* Payloads are numbered in the order in which they are taken out.
LEMMA NumberedStep == ASSUME IInv, Next PROVE Numbered'
  <1> USE DEF IInv, TypeOK, SenderType, LoopType, NetType, PeerType, Frames,
              Numbered, ModeParts, config, connVars, sendVars, queueVars, loopVars,
              netVars, peerVars
  <1>1. ASSUME NEW d \in Data, Send(d) PROVE Numbered'
    BY <1>1 DEF Send
  <1>2. ASSUME NEW d \in sending, Enqueue(d) PROVE Numbered'
    BY <1>2 DEF Enqueue
  <1>3. ASSUME NEW d \in sending, SendGivesUp(d) PROVE Numbered'
    BY <1>3 DEF SendGivesUp
  <1>4. CASE Close
    BY <1>4 DEF Close
  <1>5. CASE FinishClose
    BY <1>5 DEF FinishClose, HandleClose
  <1>6. CASE RemoteClose
    BY <1>6 DEF RemoteClose, HandleClose
  <1>7. CASE LoopTop
    BY <1>7 DEF LoopTop, Goto
  <1>8. CASE CheckWindow
    BY <1>8 DEF CheckWindow, Goto, WindowIsOpen
  <1>9. CASE CloseWakes
    BY <1>9 DEF CloseWakes
  <1>10. CASE TakeData
    BY <1>10 DEF TakeData, Goto
  <1>11. CASE Transmit
    BY <1>11 DEF Transmit, Goto, HandleClose
  <1>12. CASE Tick
    BY <1>12 DEF Tick
  <1>13. ASSUME NEW s \in resend, Resend(s) PROVE Numbered'
    BY <1>13 DEF Resend
  <1>14. CASE ResendDone
    BY <1>14 DEF ResendDone, Goto
  <1>15. ASSUME NEW a \in acks, HandleAck(a) PROVE Numbered'
    BY <1>15 DEF HandleAck
  <1>16. ASSUME NEW f \in net, HandleOrdered(f) PROVE Numbered'
    BY <1>16 DEF HandleOrdered, Receive, Acknowledge
  <1>17. ASSUME NEW f \in net, HandleDirect(f) PROVE Numbered'
    BY <1>17 DEF HandleDirect, Receive
  <1>18. ASSUME NEW f \in net, AcknowledgeFirst(f) PROVE Numbered'
    BY <1>18 DEF AcknowledgeFirst, Receive, Acknowledge
  <1>19. ASSUME NEW f \in handling, DeliverHandled(f) PROVE Numbered'
    BY <1>19 DEF DeliverHandled
  <1>20. CASE ReceiveClose
    BY <1>20 DEF ReceiveClose
  <1>21. CASE Lose
    BY <1>21 DEF Lose
  <1> QED
    BY <1>1, <1>2, <1>3, <1>4, <1>5, <1>6, <1>7, <1>8, <1>9, <1>10, <1>11, <1>12,
       <1>13, <1>14, <1>15, <1>16, <1>17, <1>18, <1>19, <1>20, <1>21, Zenon DEF Next, SendLoop

\* What a mode does without stays unused.
LEMMA ModeStep == ASSUME IInv, Next PROVE ModeParts'
  <1> USE DEF IInv, ModeParts, TypeOK, SenderType, config, connVars, sendVars,
              queueVars, loopVars, netVars, peerVars
  <1>1. ASSUME NEW d \in Data, Send(d) PROVE ModeParts'
    BY <1>1 DEF Send
  <1>2. ASSUME NEW d \in sending, Enqueue(d) PROVE ModeParts'
    BY <1>2 DEF Enqueue
  <1>3. ASSUME NEW d \in sending, SendGivesUp(d) PROVE ModeParts'
    BY <1>3 DEF SendGivesUp
  <1>4. CASE Close
    BY <1>4 DEF Close
  <1>5. CASE FinishClose
    BY <1>5 DEF FinishClose, HandleClose
  <1>6. CASE RemoteClose
    BY <1>6 DEF RemoteClose, HandleClose
  <1>7. CASE LoopTop
    BY <1>7 DEF LoopTop, Goto
  <1>8. CASE CheckWindow
    BY <1>8 DEF CheckWindow, Goto, WindowIsOpen
  <1>9. CASE CloseWakes
    BY <1>9 DEF CloseWakes
  <1>10. CASE TakeData
    BY <1>10 DEF TakeData, Goto
  <1>11. CASE Transmit
    BY <1>11 DEF Transmit, Goto, HandleClose
  <1>12. CASE Tick
    BY <1>12 DEF Tick
  <1>13. ASSUME NEW s \in resend, Resend(s) PROVE ModeParts'
    BY <1>13 DEF Resend
  <1>14. CASE ResendDone
    BY <1>14 DEF ResendDone, Goto
  <1>15. ASSUME NEW a \in acks, HandleAck(a) PROVE ModeParts'
    BY <1>15 DEF HandleAck
  <1>16. ASSUME NEW f \in net, HandleOrdered(f) PROVE ModeParts'
    BY <1>16 DEF HandleOrdered, Receive, Acknowledge
  <1>17. ASSUME NEW f \in net, HandleDirect(f) PROVE ModeParts'
    BY <1>17 DEF HandleDirect, Receive
  <1>18. ASSUME NEW f \in net, AcknowledgeFirst(f) PROVE ModeParts'
    BY <1>18 DEF AcknowledgeFirst, Receive, Acknowledge
  <1>19. ASSUME NEW f \in handling, DeliverHandled(f) PROVE ModeParts'
    BY <1>19 DEF DeliverHandled
  <1>20. CASE ReceiveClose
    BY <1>20 DEF ReceiveClose
  <1>21. CASE Lose
    BY <1>21 DEF Lose
  <1> QED
    BY <1>1, <1>2, <1>3, <1>4, <1>5, <1>6, <1>7, <1>8, <1>9, <1>10, <1>11, <1>12,
       <1>13, <1>14, <1>15, <1>16, <1>17, <1>18, <1>19, <1>20, <1>21, Zenon DEF Next, SendLoop

\* The mode is chosen once.
LEMMA ModeKept == ASSUME Next PROVE mode' = mode
  BY DEF Next, SendLoop, Send, Enqueue, SendGivesUp, Close, FinishClose, RemoteClose,
     LoopTop, CheckWindow, CloseWakes, TakeData, Transmit, Tick, Resend, ResendDone,
     HandleAck, HandleOrdered, HandleDirect, AcknowledgeFirst, DeliverHandled, ReceiveClose, Lose, config

\* Putting a payload into the channel leaves the earlier ones in their places.
LEMMA AcceptedKept ==
  ASSUME IInv, Next
  PROVE  \A i \in 1 .. nextSeq - 1 : accepted'[i] = accepted[i] /\ i \in 1 .. Len(accepted)
  <1> USE DEF IInv, TypeOK, SenderType, Numbered
  <1>1. \A i \in 1 .. nextSeq - 1 : i \in 1 .. Len(accepted)
    OBVIOUS
  <1>2. ASSUME NEW d \in sending, Enqueue(d)
        PROVE  \A i \in 1 .. Len(accepted) : accepted'[i] = accepted[i]
    BY <1>2, AppendProperties DEF Enqueue
  <1>3. (\E d \in sending : Enqueue(d)) \/ accepted' = accepted
    BY DEF Next, SendLoop, Send, SendGivesUp, Close, FinishClose, RemoteClose, LoopTop,
       CheckWindow, CloseWakes, TakeData, Transmit, Tick, Resend, ResendDone, HandleAck,
       HandleOrdered, HandleDirect, AcknowledgeFirst, DeliverHandled, ReceiveClose, Lose, queueVars
  <1> QED
    BY <1>1, <1>2, <1>3

\* Every copy of a frame carries the payload of its number.
LEMMA GenuineStep == ASSUME IInv, Next PROVE FramesGenuine'
  <1> USE DEF IInv, TypeOK, SenderType, LoopType, NetType, PeerType, Frames,
              FramesGenuine, Genuine, config, connVars, sendVars, queueVars,
              loopVars, netVars, peerVars
  <1>1. ASSUME NEW d \in Data, Send(d) PROVE FramesGenuine'
    BY <1>1 DEF Send
  <1>2. ASSUME NEW d \in sending, Enqueue(d) PROVE FramesGenuine'
    BY <1>2, AcceptedKept DEF Enqueue
  <1>3. ASSUME NEW d \in sending, SendGivesUp(d) PROVE FramesGenuine'
    BY <1>3 DEF SendGivesUp
  <1>4. CASE Close
    BY <1>4 DEF Close
  <1>5. CASE FinishClose
    BY <1>5 DEF FinishClose, HandleClose
  <1>6. CASE RemoteClose
    BY <1>6 DEF RemoteClose, HandleClose
  <1>7. CASE LoopTop
    BY <1>7 DEF LoopTop, Goto
  <1>8. CASE CheckWindow
    BY <1>8 DEF CheckWindow, Goto, WindowIsOpen
  <1>9. CASE CloseWakes
    BY <1>9 DEF CloseWakes
  <1>10. CASE TakeData
    <2>1. CASE mode = "BestEffort"
      BY <1>10, <2>1 DEF TakeData
    <2>2. CASE mode # "BestEffort" /\ state = "closed"
      BY <1>10, <2>2 DEF TakeData, Goto
    <2>3. CASE mode # "BestEffort" /\ state # "closed"
      <3>1. /\ frame' = [seq |-> nextSeq, data |-> accepted[taken + 1]]
            /\ nextSeq' = nextSeq + 1 /\ unacked' = unacked \cup {frame'}
            /\ loopPc = "select" /\ UNCHANGED <<mode, net, recvBuf, handling, accepted>>
        BY <1>10, <2>3 DEF TakeData, Goto
      <3>2. nextSeq = taken + 1 /\ nextSeq \in Nat \ {0}
        BY <2>3, <3>1 DEF Numbered
      <3>3. Genuine(frame)'
        BY <3>1, <3>2
      <3>4. \A g \in unacked \cup net \cup recvBuf \cup handling : Genuine(g)'
        BY <2>3, <3>1, <3>2
      <3> QED
        BY <3>1, <3>3, <3>4
    <2> QED
      BY <2>1, <2>2, <2>3
  <1>11. CASE Transmit
    BY <1>11 DEF Transmit, Goto, HandleClose
  <1>12. CASE Tick
    BY <1>12 DEF Tick
  <1>13. ASSUME NEW s \in resend, Resend(s) PROVE FramesGenuine'
    BY <1>13 DEF Resend
  <1>14. CASE ResendDone
    BY <1>14 DEF ResendDone, Goto
  <1>15. ASSUME NEW a \in acks, HandleAck(a) PROVE FramesGenuine'
    BY <1>15 DEF HandleAck
  <1>16. ASSUME NEW f \in net, HandleOrdered(f) PROVE FramesGenuine'
    <2>1. recvBuf' \subseteq recvBuf \cup {f}
      <3>1. CASE f.seq = expectedSeq /\ DeliverRun(f)
        BY <1>16, <3>1, RunDelivered
      <3>2. CASE Buffer(f)
        BY <1>16, <3>2 DEF Buffer
      <3> QED
        BY <1>16, <3>1, <3>2 DEF HandleOrdered
    <2>2. /\ net' \subseteq net /\ UNCHANGED <<mode, unacked, handling, nextSeq, accepted, loopPc, frame>>
      BY <1>16 DEF HandleOrdered, Receive
    <2> QED
      BY <2>1, <2>2
  <1>17. ASSUME NEW f \in net, HandleDirect(f) PROVE FramesGenuine'
    BY <1>17 DEF HandleDirect, Receive
  <1>18. ASSUME NEW f \in net, AcknowledgeFirst(f) PROVE FramesGenuine'
    BY <1>18 DEF AcknowledgeFirst, Receive, Acknowledge
  <1>19. ASSUME NEW f \in handling, DeliverHandled(f) PROVE FramesGenuine'
    BY <1>19 DEF DeliverHandled
  <1>20. CASE ReceiveClose
    BY <1>20 DEF ReceiveClose
  <1>21. CASE Lose
    BY <1>21 DEF Lose
  <1> QED
    BY <1>1, <1>2, <1>3, <1>4, <1>5, <1>6, <1>7, <1>8, <1>9, <1>10, <1>11, <1>12,
       <1>13, <1>14, <1>15, <1>16, <1>17, <1>18, <1>19, <1>20, <1>21, Zenon DEF Next, SendLoop

\* Only numbers given are acknowledged.
LEMMA AcksStep == ASSUME IInv, Next PROVE AcksGiven'
  <1> USE DEF IInv, TypeOK, SenderType, NetType, AcksGiven, config, connVars,
              sendVars, queueVars, loopVars, netVars, peerVars
  <1>1. ASSUME NEW d \in Data, Send(d) PROVE AcksGiven'
    BY <1>1 DEF Send
  <1>2. ASSUME NEW d \in sending, Enqueue(d) PROVE AcksGiven'
    BY <1>2 DEF Enqueue
  <1>3. ASSUME NEW d \in sending, SendGivesUp(d) PROVE AcksGiven'
    BY <1>3 DEF SendGivesUp
  <1>4. CASE Close
    BY <1>4 DEF Close
  <1>5. CASE FinishClose
    BY <1>5 DEF FinishClose, HandleClose
  <1>6. CASE RemoteClose
    BY <1>6 DEF RemoteClose, HandleClose
  <1>7. CASE LoopTop
    BY <1>7 DEF LoopTop, Goto
  <1>8. CASE CheckWindow
    BY <1>8 DEF CheckWindow, Goto, WindowIsOpen
  <1>9. CASE CloseWakes
    BY <1>9 DEF CloseWakes
  <1>10. CASE TakeData
    BY <1>10 DEF TakeData, Goto
  <1>11. CASE Transmit
    BY <1>11 DEF Transmit, Goto, HandleClose
  <1>12. CASE Tick
    BY <1>12 DEF Tick
  <1>13. ASSUME NEW s \in resend, Resend(s) PROVE AcksGiven'
    BY <1>13 DEF Resend
  <1>14. CASE ResendDone
    BY <1>14 DEF ResendDone, Goto
  <1>15. ASSUME NEW a \in acks, HandleAck(a) PROVE AcksGiven'
    BY <1>15 DEF HandleAck
  <1>16. ASSUME NEW f \in net, HandleOrdered(f) PROVE AcksGiven'
    BY <1>16 DEF HandleOrdered, Receive, Acknowledge, FramesGenuine, Genuine
  <1>17. ASSUME NEW f \in net, HandleDirect(f) PROVE AcksGiven'
    BY <1>17 DEF HandleDirect, Receive, FramesGenuine, Genuine, ModeParts
  <1>18. ASSUME NEW f \in net, AcknowledgeFirst(f) PROVE AcksGiven'
    BY <1>18 DEF AcknowledgeFirst, Receive, Acknowledge, FramesGenuine, Genuine, ModeParts
  <1>19. ASSUME NEW f \in handling, DeliverHandled(f) PROVE AcksGiven'
    BY <1>19 DEF DeliverHandled
  <1>20. CASE ReceiveClose
    BY <1>20 DEF ReceiveClose
  <1>21. CASE Lose
    BY <1>21 DEF Lose
  <1> QED
    BY <1>1, <1>2, <1>3, <1>4, <1>5, <1>6, <1>7, <1>8, <1>9, <1>10, <1>11, <1>12,
       <1>13, <1>14, <1>15, <1>16, <1>17, <1>18, <1>19, <1>20, <1>21, Zenon DEF Next, SendLoop

\* The frames numbered since the last acknowledgement fit the window.
LEMMA WindowStep == ASSUME IInv, Next PROVE WindowKept'
  <1> USE DEF IInv, TypeOK, SenderType, WindowKept, config, connVars, sendVars,
              queueVars, loopVars, netVars, peerVars
  <1>1. ASSUME NEW d \in Data, Send(d) PROVE WindowKept'
    BY <1>1 DEF Send
  <1>2. ASSUME NEW d \in sending, Enqueue(d) PROVE WindowKept'
    BY <1>2 DEF Enqueue
  <1>3. ASSUME NEW d \in sending, SendGivesUp(d) PROVE WindowKept'
    BY <1>3 DEF SendGivesUp
  <1>4. CASE Close
    BY <1>4 DEF Close
  <1>5. CASE FinishClose
    BY <1>5 DEF FinishClose, HandleClose
  <1>6. CASE RemoteClose
    BY <1>6 DEF RemoteClose, HandleClose
  <1>7. CASE LoopTop
    BY <1>7 DEF LoopTop, Goto
  <1>8. CASE CheckWindow
    BY <1>8 DEF CheckWindow, Goto, WindowIsOpen
  <1>9. CASE CloseWakes
    BY <1>9 DEF CloseWakes
  <1>10. CASE TakeData
    BY <1>10 DEF TakeData, Goto
  <1>11. CASE Transmit
    BY <1>11 DEF Transmit, Goto, HandleClose
  <1>12. CASE Tick
    BY <1>12 DEF Tick, LoopType
  <1>13. ASSUME NEW s \in resend, Resend(s) PROVE WindowKept'
    BY <1>13 DEF Resend
  <1>14. CASE ResendDone
    BY <1>14 DEF ResendDone, Goto, LoopType
  <1>15. ASSUME NEW a \in acks, HandleAck(a) PROVE WindowKept'
    BY <1>15 DEF HandleAck, AcksGiven
  <1>16. ASSUME NEW f \in net, HandleOrdered(f) PROVE WindowKept'
    BY <1>16 DEF HandleOrdered, Receive, Acknowledge
  <1>17. ASSUME NEW f \in net, HandleDirect(f) PROVE WindowKept'
    BY <1>17 DEF HandleDirect, Receive
  <1>18. ASSUME NEW f \in net, AcknowledgeFirst(f) PROVE WindowKept'
    BY <1>18 DEF AcknowledgeFirst, Receive, Acknowledge
  <1>19. ASSUME NEW f \in handling, DeliverHandled(f) PROVE WindowKept'
    BY <1>19 DEF DeliverHandled
  <1>20. CASE ReceiveClose
    BY <1>20 DEF ReceiveClose
  <1>21. CASE Lose
    BY <1>21 DEF Lose
  <1> QED
    BY <1>1, <1>2, <1>3, <1>4, <1>5, <1>6, <1>7, <1>8, <1>9, <1>10, <1>11, <1>12,
       <1>13, <1>14, <1>15, <1>16, <1>17, <1>18, <1>19, <1>20, <1>21, Zenon DEF Next, SendLoop

\* The frames kept are those since the last acknowledgement.
LEMMA UnackedStep == ASSUME IInv, Next PROVE UnackedAreKept'
  <1> USE DEF IInv, TypeOK, SenderType, UnackedAreKept, SeqsOf, config, connVars,
              sendVars, queueVars, loopVars, netVars, peerVars
  <1>1. ASSUME NEW d \in Data, Send(d) PROVE UnackedAreKept'
    BY <1>1 DEF Send
  <1>2. ASSUME NEW d \in sending, Enqueue(d) PROVE UnackedAreKept'
    BY <1>2 DEF Enqueue
  <1>3. ASSUME NEW d \in sending, SendGivesUp(d) PROVE UnackedAreKept'
    BY <1>3 DEF SendGivesUp
  <1>4. CASE Close
    BY <1>4 DEF Close
  <1>5. CASE FinishClose
    BY <1>5 DEF FinishClose, HandleClose
  <1>6. CASE RemoteClose
    BY <1>6 DEF RemoteClose, HandleClose
  <1>7. CASE LoopTop
    BY <1>7 DEF LoopTop, Goto
  <1>8. CASE CheckWindow
    BY <1>8 DEF CheckWindow, Goto, WindowIsOpen
  <1>9. CASE CloseWakes
    BY <1>9 DEF CloseWakes
  <1>10. CASE TakeData
    <2>1. CASE mode = "BestEffort" \/ state = "closed"
      BY <1>10, <2>1 DEF TakeData
    <2>2. CASE mode # "BestEffort" /\ state # "closed"
      <3>1. /\ nextSeq' = nextSeq + 1 /\ unacked' = unacked \cup {frame'}
            /\ frame'.seq = nextSeq /\ sendBase' = sendBase
        BY <1>10, <2>2 DEF TakeData
      <3>2. \A g \in unacked : g.seq \in sendBase .. nextSeq - 1
        OBVIOUS
      <3>3. sendBase <= nextSeq
        BY DEF WindowKept
      <3>4. SeqsOf(unacked)' = SeqsOf(unacked) \cup {nextSeq}
        BY <3>1
      <3>5. SeqsOf(unacked)' = sendBase' .. nextSeq' - 1
        BY <3>1, <3>3, <3>4
      <3>6. \A g, h \in unacked' : g.seq = h.seq => g = h
        BY <3>1, <3>2
      <3> QED
        BY <3>5, <3>6
    <2> QED
      BY <2>1, <2>2
  <1>11. CASE Transmit
    BY <1>11 DEF Transmit, Goto, HandleClose
  <1>12. CASE Tick
    BY <1>12 DEF Tick
  <1>13. ASSUME NEW s \in resend, Resend(s) PROVE UnackedAreKept'
    BY <1>13 DEF Resend
  <1>14. CASE ResendDone
    BY <1>14 DEF ResendDone, Goto
  <1>15. ASSUME NEW a \in acks, HandleAck(a) PROVE UnackedAreKept'
    <2>1. CASE /\ a >= sendBase /\ sendBase' = a + 1
               /\ unacked' = {f \in unacked : f.seq > a}
      <3>1. a \in Nat /\ nextSeq' = nextSeq
        BY <1>15 DEF HandleAck, NetType
      <3>2. SeqsOf(unacked)' = {s \in SeqsOf(unacked) : s > a}
        BY <2>1
      <3>3. {s \in sendBase .. nextSeq - 1 : s > a} = a + 1 .. nextSeq - 1
        BY <2>1, <3>1
      <3>4. SeqsOf(unacked)' = sendBase' .. nextSeq' - 1
        BY <2>1, <3>1, <3>2, <3>3
      <3>5. \A g, h \in unacked' : g.seq = h.seq => g = h
        BY <2>1
      <3> QED
        BY <3>4, <3>5
    <2>2. CASE UNCHANGED <<unacked, sendBase>>
      BY <1>15, <2>2 DEF HandleAck
    <2> QED
      BY <1>15, <2>1, <2>2 DEF HandleAck
  <1>16. ASSUME NEW f \in net, HandleOrdered(f) PROVE UnackedAreKept'
    BY <1>16 DEF HandleOrdered, Receive, Acknowledge
  <1>17. ASSUME NEW f \in net, HandleDirect(f) PROVE UnackedAreKept'
    BY <1>17 DEF HandleDirect, Receive
  <1>18. ASSUME NEW f \in net, AcknowledgeFirst(f) PROVE UnackedAreKept'
    BY <1>18 DEF AcknowledgeFirst, Receive, Acknowledge
  <1>19. ASSUME NEW f \in handling, DeliverHandled(f) PROVE UnackedAreKept'
    BY <1>19 DEF DeliverHandled
  <1>20. CASE ReceiveClose
    BY <1>20 DEF ReceiveClose
  <1>21. CASE Lose
    BY <1>21 DEF Lose
  <1> QED
    BY <1>1, <1>2, <1>3, <1>4, <1>5, <1>6, <1>7, <1>8, <1>9, <1>10, <1>11, <1>12,
       <1>13, <1>14, <1>15, <1>16, <1>17, <1>18, <1>19, <1>20, <1>21, Zenon DEF Next, SendLoop

\* What is buffered is ahead of the frame expected.
LEMMA BufferStep == ASSUME IInv, Next PROVE BufferIsAhead'
  <1> USE DEF IInv, TypeOK, NetType, PeerType, BufferIsAhead, Frames, config,
              connVars, sendVars, queueVars, loopVars, netVars, peerVars
  <1>1. ASSUME NEW d \in Data, Send(d) PROVE BufferIsAhead'
    BY <1>1 DEF Send
  <1>2. ASSUME NEW d \in sending, Enqueue(d) PROVE BufferIsAhead'
    BY <1>2 DEF Enqueue
  <1>3. ASSUME NEW d \in sending, SendGivesUp(d) PROVE BufferIsAhead'
    BY <1>3 DEF SendGivesUp
  <1>4. CASE Close
    BY <1>4 DEF Close
  <1>5. CASE FinishClose
    BY <1>5 DEF FinishClose, HandleClose
  <1>6. CASE RemoteClose
    BY <1>6 DEF RemoteClose, HandleClose
  <1>7. CASE LoopTop
    BY <1>7 DEF LoopTop, Goto
  <1>8. CASE CheckWindow
    BY <1>8 DEF CheckWindow, Goto, WindowIsOpen
  <1>9. CASE CloseWakes
    BY <1>9 DEF CloseWakes
  <1>10. CASE TakeData
    BY <1>10 DEF TakeData, Goto
  <1>11. CASE Transmit
    BY <1>11 DEF Transmit, Goto, HandleClose
  <1>12. CASE Tick
    BY <1>12 DEF Tick
  <1>13. ASSUME NEW s \in resend, Resend(s) PROVE BufferIsAhead'
    BY <1>13 DEF Resend
  <1>14. CASE ResendDone
    BY <1>14 DEF ResendDone, Goto
  <1>15. ASSUME NEW a \in acks, HandleAck(a) PROVE BufferIsAhead'
    BY <1>15 DEF HandleAck
  <1>16. ASSUME NEW f \in net, HandleOrdered(f) PROVE BufferIsAhead'
    <2>1. CASE f.seq = expectedSeq /\ DeliverRun(f)
      <3>1. PICK last \in Nat :
              /\ last >= f.seq /\ expectedSeq' = last + 1
              /\ last + 1 \notin SeqsOf(recvBuf)
              /\ recvBuf' = {g \in recvBuf : g.seq > last}
        BY <2>1, RunDelivered
      <3>2. \A g \in recvBuf' : g.seq # last + 1
        BY <3>1 DEF SeqsOf
      <3> QED
        BY <2>1, <3>1, <3>2
    <2>2. CASE f.seq > expectedSeq /\ f.seq - expectedSeq < Window /\ Buffer(f)
      BY <2>2 DEF Buffer
    <2>3. CASE UNCHANGED <<expectedSeq, recvBuf, delivered>>
      BY <2>3
    <2> QED
      BY <1>16, <2>1, <2>2, <2>3 DEF HandleOrdered
  <1>17. ASSUME NEW f \in net, HandleDirect(f) PROVE BufferIsAhead'
    BY <1>17 DEF HandleDirect, Receive
  <1>18. ASSUME NEW f \in net, AcknowledgeFirst(f) PROVE BufferIsAhead'
    BY <1>18 DEF AcknowledgeFirst, Receive, Acknowledge
  <1>19. ASSUME NEW f \in handling, DeliverHandled(f) PROVE BufferIsAhead'
    BY <1>19 DEF DeliverHandled
  <1>20. CASE ReceiveClose
    BY <1>20 DEF ReceiveClose
  <1>21. CASE Lose
    BY <1>21 DEF Lose
  <1> QED
    BY <1>1, <1>2, <1>3, <1>4, <1>5, <1>6, <1>7, <1>8, <1>9, <1>10, <1>11, <1>12,
       <1>13, <1>14, <1>15, <1>16, <1>17, <1>18, <1>19, <1>20, <1>21, Zenon DEF Next, SendLoop

\* The payloads of a run continue what was delivered.
LEMMA RunInOrder ==
  ASSUME IInv, mode = "ReliableOrdered",
         NEW f \in net, f.seq = expectedSeq, DeliverRun(f)
  PROVE  /\ expectedSeq' \in expectedSeq + 1 .. nextSeq
         /\ delivered' = SubSeq(accepted, 1, expectedSeq' - 1)
  <1> USE DEF IInv, TypeOK, SenderType, NetType, PeerType, Frames
  <1>1. PICK last \in Nat :
          /\ last >= f.seq /\ expectedSeq' = last + 1
          /\ last = f.seq \/ last \in SeqsOf(recvBuf)
          /\ delivered' \in Seq(Data) /\ Len(delivered') = Len(delivered) + last - f.seq + 1
          /\ \A i \in 1 .. Len(delivered) : delivered'[i] = delivered[i]
          /\ \A i \in 1 .. last - f.seq + 1 :
               \E g \in recvBuf \cup {f} : g.seq = f.seq + i - 1
                                        /\ delivered'[Len(delivered) + i] = g.data
    BY RunDelivered
  <1>2. \A g \in recvBuf \cup {f} : g.seq \in 1 .. nextSeq - 1 /\ g.data = accepted[g.seq]
    BY DEF FramesGenuine, Genuine
  <1>3. last \in 1 .. nextSeq - 1
    BY <1>1, <1>2 DEF SeqsOf
  <1>4. nextSeq - 1 <= Len(accepted) /\ Len(accepted) \in Nat
    BY DEF Numbered
  <1>5. \A n \in 1 .. nextSeq : /\ SubSeq(accepted, 1, n - 1) \in Seq(Data)
                                /\ Len(SubSeq(accepted, 1, n - 1)) = n - 1
                                /\ \A i \in 1 .. n - 1 : SubSeq(accepted, 1, n - 1)[i] = accepted[i]
    <2> SUFFICES ASSUME NEW n \in 1 .. nextSeq
                 PROVE  /\ SubSeq(accepted, 1, n - 1) \in Seq(Data)
                        /\ Len(SubSeq(accepted, 1, n - 1)) = n - 1
                        /\ \A i \in 1 .. n - 1 : SubSeq(accepted, 1, n - 1)[i] = accepted[i]
      OBVIOUS
    <2>1. n - 1 \in Nat /\ n - 1 <= Len(accepted)
      BY <1>4
    <2>2. \A i \in 1 .. n - 1 : accepted[i] \in Data
      BY <1>4, <2>1
    <2>3. /\ SubSeq(accepted, 1, n - 1) \in Seq(Data)
          /\ Len(SubSeq(accepted, 1, n - 1)) = IF 1 <= n - 1 THEN n - 1 - 1 + 1 ELSE 0
          /\ \A i \in 1 .. n - 1 - 1 + 1 : SubSeq(accepted, 1, n - 1)[i] = accepted[1 + i - 1]
      BY <2>1, <2>2, SubSeqProperties
    <2> QED
      BY <2>1, <2>3
  <1>6. delivered = SubSeq(accepted, 1, expectedSeq - 1) /\ expectedSeq \in 1 .. nextSeq
    BY DEF DeliveredInOrder
  <1>7. Len(delivered) = expectedSeq - 1 /\ \A i \in 1 .. expectedSeq - 1 : delivered[i] = accepted[i]
    BY <1>5, <1>6
  <1>8. Len(delivered') = last
    BY <1>1, <1>6, <1>7
  <1>9. \A i \in 1 .. last : delivered'[i] = accepted[i]
    <2> SUFFICES ASSUME NEW i \in 1 .. last PROVE delivered'[i] = accepted[i]
      OBVIOUS
    <2>1. CASE i <= expectedSeq - 1
      <3>1. i \in 1 .. expectedSeq - 1
        BY <1>6, <2>1
      <3>2. delivered[i] = accepted[i]
        BY <1>7, <3>1
      <3>3. i \in 1 .. Len(delivered)
        BY <1>7, <3>1
      <3> QED
        BY <1>1, <3>2, <3>3
    <2>2. CASE i >= expectedSeq
      <3>1. i - expectedSeq + 1 \in 1 .. last - f.seq + 1
        BY <1>6, <2>2
      <3>2. PICK g \in recvBuf \cup {f} :
              /\ g.seq = f.seq + (i - expectedSeq + 1) - 1
              /\ delivered'[Len(delivered) + (i - expectedSeq + 1)] = g.data
        BY <1>1, <3>1
      <3>3. g.seq = i /\ Len(delivered) + (i - expectedSeq + 1) = i
        BY <1>6, <1>7, <3>2
      <3> QED
        BY <1>2, <3>2, <3>3
    <2> QED
      BY <1>6, <2>1, <2>2
  <1>10. delivered' = SubSeq(accepted, 1, last)
    <2>1. last + 1 \in 1 .. nextSeq /\ last + 1 - 1 = last
      BY <1>3
    <2>2. /\ SubSeq(accepted, 1, last) \in Seq(Data)
          /\ Len(SubSeq(accepted, 1, last)) = last
          /\ \A i \in 1 .. last : SubSeq(accepted, 1, last)[i] = accepted[i]
      BY <1>5, <2>1
    <2> QED
      BY <1>1, <1>8, <1>9, <2>2, SeqEqual
  <1> QED
    BY <1>1, <1>3, <1>10

\* What is delivered follows what was sent.
LEMMA DeliveredStep == ASSUME IInv, Next PROVE DeliveredInOrder'
  <1> USE DEF IInv, TypeOK, SenderType, PeerType, DeliveredInOrder, config,
              connVars, sendVars, queueVars, loopVars, netVars, peerVars
  <1>1. ASSUME NEW d \in Data, Send(d) PROVE DeliveredInOrder'
    BY <1>1 DEF Send
  <1>2. ASSUME NEW d \in sending, Enqueue(d) PROVE DeliveredInOrder'
    <2>1. UNCHANGED <<mode, nextSeq, expectedSeq, delivered>>
      BY <1>2 DEF Enqueue
    <2>2. expectedSeq - 1 <= Len(accepted) /\ accepted' = Append(accepted, d) /\ d \in Data
      BY <1>2 DEF Enqueue, Numbered, ModeParts
    <2>3. ASSUME mode = "ReliableOrdered"
          PROVE  SubSeq(accepted', 1, expectedSeq - 1) = SubSeq(accepted, 1, expectedSeq - 1)
      BY <2>2, <2>3
    <2> QED
      BY <2>1, <2>3
  <1>3. ASSUME NEW d \in sending, SendGivesUp(d) PROVE DeliveredInOrder'
    BY <1>3 DEF SendGivesUp
  <1>4. CASE Close
    BY <1>4 DEF Close
  <1>5. CASE FinishClose
    BY <1>5 DEF FinishClose, HandleClose
  <1>6. CASE RemoteClose
    BY <1>6 DEF RemoteClose, HandleClose
  <1>7. CASE LoopTop
    BY <1>7 DEF LoopTop, Goto
  <1>8. CASE CheckWindow
    BY <1>8 DEF CheckWindow, Goto, WindowIsOpen
  <1>9. CASE CloseWakes
    BY <1>9 DEF CloseWakes
  <1>10. CASE TakeData
    BY <1>10 DEF TakeData, Goto
  <1>11. CASE Transmit
    BY <1>11 DEF Transmit, Goto, HandleClose
  <1>12. CASE Tick
    BY <1>12 DEF Tick
  <1>13. ASSUME NEW s \in resend, Resend(s) PROVE DeliveredInOrder'
    BY <1>13 DEF Resend
  <1>14. CASE ResendDone
    BY <1>14 DEF ResendDone, Goto
  <1>15. ASSUME NEW a \in acks, HandleAck(a) PROVE DeliveredInOrder'
    BY <1>15 DEF HandleAck
  <1>16. ASSUME NEW f \in net, HandleOrdered(f) PROVE DeliveredInOrder'
    <2>1. UNCHANGED <<mode, nextSeq, accepted>>
      BY <1>16 DEF HandleOrdered
    <2>2. CASE f.seq = expectedSeq /\ DeliverRun(f)
      BY <1>16, <2>1, <2>2, RunInOrder DEF HandleOrdered
    <2>3. CASE UNCHANGED <<expectedSeq, delivered>>
      BY <2>1, <2>3
    <2> QED
      BY <1>16, <2>2, <2>3 DEF HandleOrdered, Buffer
  <1>17. ASSUME NEW f \in net, HandleDirect(f) PROVE DeliveredInOrder'
    BY <1>17 DEF HandleDirect, Receive
  <1>18. ASSUME NEW f \in net, AcknowledgeFirst(f) PROVE DeliveredInOrder'
    BY <1>18 DEF AcknowledgeFirst, Receive, Acknowledge
  <1>19. ASSUME NEW f \in handling, DeliverHandled(f) PROVE DeliveredInOrder'
    BY <1>19 DEF DeliverHandled, ModeParts
  <1>20. CASE ReceiveClose
    BY <1>20 DEF ReceiveClose
  <1>21. CASE Lose
    BY <1>21 DEF Lose
  <1> QED
    BY <1>1, <1>2, <1>3, <1>4, <1>5, <1>6, <1>7, <1>8, <1>9, <1>10, <1>11, <1>12,
       <1>13, <1>14, <1>15, <1>16, <1>17, <1>18, <1>19, <1>20, <1>21, Zenon DEF Next, SendLoop

\* A sequence of payloads and one more.
LEMMA ElementsAppend ==
  ASSUME NEW s \in Seq(Data), NEW d \in Data
  PROVE  Elements(Append(s, d)) = Elements(s) \cup {d}
  <1> DEFINE t == Append(s, d)
  <1>1. /\ DOMAIN t = 1 .. Len(s) + 1 /\ DOMAIN s = 1 .. Len(s) /\ Len(s) \in Nat
        /\ \A i \in 1 .. Len(s) : t[i] = s[i]
        /\ t[Len(s) + 1] = d
    BY AppendProperties
  <1> HIDE DEF t
  <1>2. \A i \in DOMAIN t : i \in 1 .. Len(s) \/ i = Len(s) + 1
    BY <1>1
  <1>3. \A i \in 1 .. Len(s) : i \in DOMAIN t
    BY <1>1
  <1>4. Len(s) + 1 \in DOMAIN t
    BY <1>1
  <1>5. Elements(t) = Elements(s) \cup {d}
    BY <1>1, <1>2, <1>3, <1>4, Zenon DEF Elements
  <1> QED
    BY <1>5 DEF t

\* A payload delivered without an order is among those delivered.
LEMMA OnceDelivered ==
  ASSUME NEW f \in Frames, delivered \in Seq(Data), DeliverOnce(f)
  PROVE  Elements(delivered') = Elements(delivered) \cup {f.data}
  <1>1. f.data \in Data
    BY DEF Frames
  <1>2. CASE f.data \in Elements(delivered)
    BY <1>2 DEF DeliverOnce
  <1>3. CASE f.data \notin Elements(delivered)
    BY <1>1, <1>3, ElementsAppend DEF DeliverOnce
  <1> QED
    BY <1>2, <1>3

\* What is put into the channel stays there.
LEMMA AcceptedGrows ==
  ASSUME IInv, NEW d \in sending, Enqueue(d)
  PROVE  Elements(accepted) \subseteq Elements(accepted')
  BY ElementsAppend DEF Enqueue, IInv, TypeOK, SenderType

\* Without reliability a frame carries what was accepted.
LEMMA OnlyAcceptedStep == ASSUME IInv, Next PROVE OnlyAccepted'
  <1> USE DEF IInv, OnlyAccepted, config, queueVars, loopVars, netVars
  <1>1. ASSUME NEW d \in Data, Send(d) PROVE OnlyAccepted'
    BY <1>1 DEF Send
  <1>2. ASSUME NEW d \in sending, Enqueue(d) PROVE OnlyAccepted'
    BY <1>2, AcceptedGrows DEF Enqueue
  <1>3. ASSUME NEW d \in sending, SendGivesUp(d) PROVE OnlyAccepted'
    BY <1>3 DEF SendGivesUp
  <1>4. CASE Close
    BY <1>4 DEF Close
  <1>5. CASE FinishClose
    BY <1>5 DEF FinishClose
  <1>6. CASE RemoteClose
    BY <1>6 DEF RemoteClose
  <1>7. CASE LoopTop
    BY <1>7 DEF LoopTop, Goto
  <1>8. CASE CheckWindow
    BY <1>8 DEF CheckWindow, Goto
  <1>9. CASE CloseWakes
    BY <1>9 DEF CloseWakes
  <1>10. CASE TakeData
    <2>1. accepted' = accepted /\ net' = net /\ mode' = mode
      BY <1>10 DEF TakeData
    <2>2. mode = "BestEffort" => frame'.data = accepted[taken + 1]
      BY <1>10 DEF TakeData
    <2>3. taken + 1 \in DOMAIN accepted
      BY <1>10 DEF TakeData, TypeOK, SenderType
    <2>4. accepted[taken + 1] \in Elements(accepted)
      BY <2>3 DEF Elements
    <2> QED
      BY <2>1, <2>2, <2>4
  <1>11. CASE Transmit
    BY <1>11 DEF Transmit, Goto
  <1>12. CASE Tick
    BY <1>12 DEF Tick
  <1>13. ASSUME NEW s \in resend, Resend(s) PROVE OnlyAccepted'
    <2>1. mode = "BestEffort" => unacked = {}
      BY DEF ModeParts, WindowKept, UnackedAreKept, SeqsOf
    <2>2. mode = "BestEffort" => net' = net
      <3>1. net' = net \/ net' = net \cup {f \in unacked : f.seq = s}
        BY <1>13 DEF Resend
      <3> QED
        BY <2>1, <3>1
    <2>3. mode' = mode /\ accepted' = accepted /\ loopPc' = loopPc /\ frame' = frame
      BY <1>13 DEF Resend
    <2>4. OnlyAccepted
      OBVIOUS
    <2> HIDE DEF IInv
    <2> QED
      BY <2>2, <2>3, <2>4, Zenon
  <1>14. CASE ResendDone
    BY <1>14 DEF ResendDone, Goto, TypeOK, LoopType
  <1>15. ASSUME NEW a \in acks, HandleAck(a) PROVE OnlyAccepted'
    BY <1>15 DEF HandleAck
  <1>16. ASSUME NEW f \in net, HandleOrdered(f) PROVE OnlyAccepted'
    BY <1>16 DEF HandleOrdered, Receive
  <1>17. ASSUME NEW f \in net, HandleDirect(f) PROVE OnlyAccepted'
    BY <1>17 DEF HandleDirect, Receive
  <1>18. ASSUME NEW f \in net, AcknowledgeFirst(f) PROVE OnlyAccepted'
    BY <1>18 DEF AcknowledgeFirst, Receive
  <1>19. ASSUME NEW f \in handling, DeliverHandled(f) PROVE OnlyAccepted'
    BY <1>19 DEF DeliverHandled
  <1>20. CASE ReceiveClose
    BY <1>20 DEF ReceiveClose
  <1>21. CASE Lose
    BY <1>21 DEF Lose
  <1> QED
    BY <1>1, <1>2, <1>3, <1>4, <1>5, <1>6, <1>7, <1>8, <1>9, <1>10, <1>11, <1>12,
       <1>13, <1>14, <1>15, <1>16, <1>17, <1>18, <1>19, <1>20, <1>21, Zenon DEF Next, SendLoop

\* A receiver that keeps no order has delivered what it acknowledges, or is about to.
LEMMA AcksHandledStep == ASSUME IInv, Next PROVE AcksAreHandled'
  <1> USE DEF IInv, AcksAreHandled, config, queueVars, netVars, peerVars
  <1>1. ASSUME NEW d \in Data, Send(d) PROVE AcksAreHandled'
    BY <1>1 DEF Send
  <1>2. ASSUME NEW d \in sending, Enqueue(d) PROVE AcksAreHandled'
    BY <1>2, AcceptedKept DEF Enqueue, AcksGiven
  <1>3. ASSUME NEW d \in sending, SendGivesUp(d) PROVE AcksAreHandled'
    BY <1>3 DEF SendGivesUp
  <1>4. CASE Close
    BY <1>4 DEF Close
  <1>5. CASE FinishClose
    BY <1>5 DEF FinishClose
  <1>6. CASE RemoteClose
    BY <1>6 DEF RemoteClose
  <1>7. CASE LoopTop
    BY <1>7 DEF LoopTop, Goto
  <1>8. CASE CheckWindow
    BY <1>8 DEF CheckWindow, Goto
  <1>9. CASE CloseWakes
    BY <1>9 DEF CloseWakes
  <1>10. CASE TakeData
    BY <1>10 DEF TakeData, Goto
  <1>11. CASE Transmit
    BY <1>11 DEF Transmit, Goto
  <1>12. CASE Tick
    BY <1>12 DEF Tick
  <1>13. ASSUME NEW s \in resend, Resend(s) PROVE AcksAreHandled'
    BY <1>13 DEF Resend
  <1>14. CASE ResendDone
    BY <1>14 DEF ResendDone, Goto
  <1>15. ASSUME NEW a \in acks, HandleAck(a) PROVE AcksAreHandled'
    BY <1>15 DEF HandleAck
  <1>16. ASSUME NEW f \in net, HandleOrdered(f) PROVE AcksAreHandled'
    BY <1>16 DEF HandleOrdered, Receive
  <1>17. ASSUME NEW f \in net, HandleDirect(f) PROVE AcksAreHandled'
    BY <1>17 DEF HandleDirect
  <1>18. ASSUME NEW f \in net, AcknowledgeFirst(f) PROVE AcksAreHandled'
    <2>1. /\ mode = "AtLeastOnce" /\ acks' \in {acks, acks \cup {f.seq}}
          /\ handling' = handling \cup {f} /\ UNCHANGED <<accepted, delivered>>
      BY <1>18 DEF AcknowledgeFirst, Acknowledge
    <2>2. f.data = accepted[f.seq]
      BY <2>1 DEF FramesGenuine, Genuine
    <2> QED
      BY <2>1, <2>2
  <1>19. ASSUME NEW f \in handling, DeliverHandled(f) PROVE AcksAreHandled'
    <2>1. handling' = handling \ {f} /\ UNCHANGED <<mode, acks, accepted>>
      BY <1>19 DEF DeliverHandled
    <2>2. Elements(delivered') = Elements(delivered) \cup {f.data}
      BY <1>19, OnceDelivered DEF DeliverHandled, TypeOK, PeerType, Frames
    <2>3. \A g \in handling : g \in handling' \/ g = f
      BY <2>1
    <2> QED
      BY <2>1, <2>2, <2>3
  <1>20. CASE ReceiveClose
    BY <1>20 DEF ReceiveClose
  <1>21. CASE Lose
    BY <1>21 DEF Lose
  <1> QED
    BY <1>1, <1>2, <1>3, <1>4, <1>5, <1>6, <1>7, <1>8, <1>9, <1>10, <1>11, <1>12,
       <1>13, <1>14, <1>15, <1>16, <1>17, <1>18, <1>19, <1>20, <1>21, Zenon DEF Next, SendLoop

\* For every set of payloads, window and limit, every state has the inductive invariant:
\* what is numbered, on its way, acknowledged, buffered and delivered
\* (src/src/relay.rs:158-294, 340-705).
THEOREM Invariance == Spec => []IInv
  <1>1. IInv /\ [Next]_vars => IInv'
    <2>1. ASSUME IInv, Next PROVE IInv'
      BY <2>1, TypeStep, NumberedStep, ModeStep, GenuineStep, AcksStep, WindowStep,
         UnackedStep, BufferStep, DeliveredStep, OnlyAcceptedStep, AcksHandledStep DEF IInv
    <2>2. ASSUME IInv, UNCHANGED vars PROVE IInv'
      BY <2>2 DEF vars, config, connVars, sendVars, queueVars, loopVars, netVars, peerVars,
         IInv, TypeOK, SenderType, LoopType, NetType, PeerType, Numbered, ModeParts,
         FramesGenuine, Genuine, AcksGiven, WindowKept, UnackedAreKept, SeqsOf,
         BufferIsAhead, DeliveredInOrder, OnlyAccepted, AcksAreHandled, Elements
    <2> QED
      BY <2>1, <2>2
  <1> QED
    BY Start, <1>1, PTL DEF Spec

\* The type invariant of RelayTransfer holds in every reachable state.
THEOREM TypeCorrect == Spec => []TypeOK
  <1>1. IInv => TypeOK
    BY DEF IInv
  <1> QED
    BY Invariance, <1>1, PTL

\* The frames kept for retransmission are those numbered since the last
\* acknowledgement, each once (src/src/relay.rs:620-635, 462-476).
THEOREM UnackedKept == Spec => []UnackedAreKept
  <1>1. IInv => UnackedAreKept
    BY DEF IInv
  <1> QED
    BY Invariance, <1>1, PTL

\* The frames kept number no more than the window.
WithinWindow == Cardinality(unacked) <= Window

\* No more frames are kept than the window allows (src/src/relay.rs:588-593).
THEOREM WindowHolds == Spec => []WithinWindow
  <1>1. IInv => WithinWindow
    <2> SUFFICES ASSUME IInv PROVE WithinWindow
      OBVIOUS
    <2> DEFINE number == [g \in unacked |-> g.seq]
    <2>1. sendBase \in Nat /\ nextSeq \in Nat
      BY DEF IInv, TypeOK, SenderType
    <2>2. number \in Injection(unacked, sendBase .. nextSeq - 1)
      <3>1. number \in [unacked -> sendBase .. nextSeq - 1]
        BY DEF IInv, UnackedAreKept, SeqsOf
      <3>2. \A g, h \in unacked : number[g] = number[h] => g = h
        BY DEF IInv, UnackedAreKept
      <3> QED
        BY <3>1, <3>2, Fun_IsInj
    <2>3. /\ IsFiniteSet(sendBase .. nextSeq - 1)
          /\ Cardinality(sendBase .. nextSeq - 1) =
               IF sendBase > nextSeq - 1 THEN 0 ELSE nextSeq - 1 - sendBase + 1
      BY <2>1, FS_Interval
    <2>4. Cardinality(unacked) <= Cardinality(sendBase .. nextSeq - 1) /\ IsFiniteSet(unacked)
      BY <2>2, <2>3, FS_Injection
    <2>5. Cardinality(unacked) \in Nat
      BY <2>4, FS_CardinalityType
    <2> QED
      BY <2>1, <2>3, <2>4, <2>5 DEF IInv, WindowKept, WithinWindow
  <1> QED
    BY Invariance, <1>1, PTL

-----------------------------------------------------------------------------
(* A window of one frame.                                                  *)

\* The sender does not get ahead of the receiver.
AckedIsBehind ==
  mode = "ReliableOrdered" =>
    /\ sendBase <= expectedSeq
    /\ \A a \in acks : a < expectedSeq

\* With one frame at a time under way, what is acknowledged is what was delivered.
LEMMA AckedStep == ASSUME Window = 1, IInv, AckedIsBehind, Next PROVE AckedIsBehind'
  <1> USE DEF IInv, TypeOK, SenderType, NetType, PeerType, AckedIsBehind, config, connVars,
              sendVars, queueVars, loopVars, netVars, peerVars
  <1>1. ASSUME NEW d \in Data, Send(d) PROVE AckedIsBehind'
    BY <1>1 DEF Send
  <1>2. ASSUME NEW d \in sending, Enqueue(d) PROVE AckedIsBehind'
    BY <1>2 DEF Enqueue
  <1>3. ASSUME NEW d \in sending, SendGivesUp(d) PROVE AckedIsBehind'
    BY <1>3 DEF SendGivesUp
  <1>4. CASE Close
    BY <1>4 DEF Close
  <1>5. CASE FinishClose
    BY <1>5 DEF FinishClose
  <1>6. CASE RemoteClose
    BY <1>6 DEF RemoteClose
  <1>7. CASE LoopTop
    BY <1>7 DEF LoopTop, Goto
  <1>8. CASE CheckWindow
    BY <1>8 DEF CheckWindow, Goto
  <1>9. CASE CloseWakes
    BY <1>9 DEF CloseWakes
  <1>10. CASE TakeData
    BY <1>10 DEF TakeData, Goto
  <1>11. CASE Transmit
    BY <1>11 DEF Transmit, Goto
  <1>12. CASE Tick
    BY <1>12 DEF Tick
  <1>13. ASSUME NEW s \in resend, Resend(s) PROVE AckedIsBehind'
    BY <1>13 DEF Resend
  <1>14. CASE ResendDone
    BY <1>14 DEF ResendDone, Goto
  <1>15. ASSUME NEW a \in acks, HandleAck(a) PROVE AckedIsBehind'
    BY <1>15 DEF HandleAck
  <1>16. ASSUME NEW f \in net, HandleOrdered(f) PROVE AckedIsBehind'
    <2>1. f.seq \in Nat /\ f.seq <= expectedSeq /\ mode' = mode
      BY <1>16 DEF HandleOrdered, FramesGenuine, Genuine, WindowKept
    <2>2. expectedSeq' \in Nat /\ expectedSeq' >= expectedSeq
      BY <1>16, RunDelivered DEF HandleOrdered, Buffer, BufferIsAhead
    <2>3. f.seq < expectedSeq'
      <3>1. CASE f.seq = expectedSeq /\ DeliverRun(f)
        BY <3>1, <2>1, RunDelivered
      <3>2. CASE f.seq # expectedSeq
        BY <3>2, <2>1, <2>2
      <3> QED
        BY <1>16, <3>1, <3>2 DEF HandleOrdered
    <2>4. sendBase' = sendBase /\ acks' \in {acks, acks \cup {f.seq}}
      BY <1>16 DEF HandleOrdered, Acknowledge
    <2> QED
      BY <1>16, <2>1, <2>2, <2>3, <2>4 DEF HandleOrdered
  <1>17. ASSUME NEW f \in net, HandleDirect(f) PROVE AckedIsBehind'
    BY <1>17 DEF HandleDirect
  <1>18. ASSUME NEW f \in net, AcknowledgeFirst(f) PROVE AckedIsBehind'
    BY <1>18 DEF AcknowledgeFirst
  <1>19. ASSUME NEW f \in handling, DeliverHandled(f) PROVE AckedIsBehind'
    BY <1>19 DEF DeliverHandled
  <1>20. CASE ReceiveClose
    BY <1>20 DEF ReceiveClose
  <1>21. CASE Lose
    BY <1>21 DEF Lose
  <1> QED
    BY <1>1, <1>2, <1>3, <1>4, <1>5, <1>6, <1>7, <1>8, <1>9, <1>10, <1>11, <1>12,
       <1>13, <1>14, <1>15, <1>16, <1>17, <1>18, <1>19, <1>20, <1>21, Zenon DEF Next, SendLoop

\* With a window of one frame no frame is dropped from retransmission before it was
\* received: what handle_ack() takes for all frames up to a number is then one frame
\* (src/src/relay.rs:446-476).  A larger window does not have this property.
THEOREM StopAndWait == Window = 1 => (Spec => []AckedIsReceived)
  <1> SUFFICES ASSUME Window = 1 PROVE Spec => []AckedIsReceived
    OBVIOUS
  <1>1. Init => AckedIsBehind
    BY DEF Init, AckedIsBehind
  <1>2. IInv /\ AckedIsBehind /\ [Next]_vars => AckedIsBehind'
    <2>1. ASSUME UNCHANGED vars, AckedIsBehind PROVE AckedIsBehind'
      BY <2>1 DEF vars, config, sendVars, netVars, peerVars, AckedIsBehind
    <2> QED
      BY <2>1, AckedStep
  <1>3. IInv /\ AckedIsBehind => AckedIsReceived
    BY DEF IInv, TypeOK, SenderType, PeerType, AckedIsBehind, AckedIsReceived
  <1> QED
    BY Invariance, <1>1, <1>2, <1>3, PTL DEF Spec

\* What is acknowledged was delivered, or an AtLeastOnce handler is about to deliver it.
Given(d) == \/ d \in Elements(delivered)
            \/ mode = "AtLeastOnce" /\ \E f \in handling : f.data = d
AckedIsGiven ==
  mode # "BestEffort" => \A s \in 1 .. sendBase - 1 : Given(accepted[s])

\* What a handler is about to deliver, and what was delivered, stays so.
LEMMA GivenStays ==
  ASSUME IInv, Next, mode = "AtLeastOnce"
  PROVE  \A d : Given(d) => Given(d)'
  <1> SUFFICES ASSUME NEW d, Given(d) PROVE Given(d)'
    OBVIOUS
  <1>0. mode' = mode
    BY ModeKept
  <1>1. ASSUME NEW f \in handling, DeliverHandled(f) PROVE Given(d)'
    <2>1. handling' = handling \ {f}
      BY <1>1 DEF DeliverHandled
    <2>2. Elements(delivered') = Elements(delivered) \cup {f.data}
      BY <1>1, OnceDelivered DEF DeliverHandled, IInv, TypeOK, PeerType
    <2>3. \A g \in handling : g \in handling' \/ g = f
      BY <2>1
    <2> QED
      BY <1>0, <2>2, <2>3 DEF Given
  <1>2. ASSUME NEW f \in net, AcknowledgeFirst(f) PROVE Given(d)'
    BY <1>0, <1>2 DEF AcknowledgeFirst, Given, Elements
  <1>3. \/ \E f \in handling : DeliverHandled(f)
        \/ \E f \in net : AcknowledgeFirst(f)
        \/ UNCHANGED <<handling, delivered>>
    BY DEF Next, SendLoop, Send, Enqueue, SendGivesUp, Close, FinishClose, RemoteClose,
       LoopTop, CheckWindow, CloseWakes, TakeData, Transmit, Tick, Resend, ResendDone,
       HandleAck, HandleOrdered, HandleDirect, ReceiveClose, Lose, peerVars
  <1>4. ASSUME UNCHANGED <<handling, delivered>> PROVE Given(d)'
    BY <1>0, <1>4 DEF Given, Elements
  <1> QED
    BY <1>1, <1>2, <1>3, <1>4

\* One frame at a time: an acknowledgement is that of the frame that is waited for.
LEMMA AckedGivenStep ==
  ASSUME Window = 1, IInv, AckedIsGiven, Next, mode = "AtLeastOnce"
  PROVE  AckedIsGiven'
  <1>0. mode' = mode
    BY ModeKept
  <1>1. sendBase \in Nat \ {0} /\ nextSeq \in Nat /\ sendBase <= nextSeq
        /\ nextSeq - sendBase <= 1
    BY DEF IInv, TypeOK, SenderType, WindowKept
  <1>2. \A s \in 1 .. nextSeq - 1 : accepted'[s] = accepted[s]
    BY AcceptedKept
  <1>g. ASSUME NEW s \in 1 .. nextSeq - 1, Given(accepted[s]) PROVE Given(accepted[s])'
    <2>1. accepted'[s] = accepted[s]
      BY <1>2
    <2>2. ASSUME NEW d, d = accepted[s] PROVE Given(d)'
      BY <1>g, <2>2, GivenStays
    <2> QED
      BY <2>1, <2>2 DEF Given
  <1>3. \A s \in 1 .. sendBase - 1 : Given(accepted[s])'
    <2> SUFFICES ASSUME NEW s \in 1 .. sendBase - 1 PROVE Given(accepted[s])'
      OBVIOUS
    <2>1. s \in 1 .. nextSeq - 1
      BY <1>1
    <2>2. Given(accepted[s])
      BY DEF AckedIsGiven
    <2> QED
      BY <1>g, <2>1, <2>2
  <1>4. ASSUME NEW a \in acks, HandleAck(a) PROVE AckedIsGiven'
    <2>1. a \in 1 .. nextSeq - 1 /\ Given(accepted[a])
      BY DEF IInv, AcksGiven, AcksAreHandled, Given
    <2>2. Given(accepted[a])'
      BY <1>g, <2>1
    <2>3. sendBase' = sendBase \/ (sendBase' = a + 1 /\ a >= sendBase)
      BY <1>4 DEF HandleAck
    <2>4. \A s \in 1 .. sendBase' - 1 : s \in 1 .. sendBase - 1 \/ s = a
      <3>1. CASE sendBase' = sendBase
        BY <3>1
      <3>2. CASE sendBase' = a + 1 /\ a >= sendBase
        <4>1. a = sendBase
          BY <1>1, <2>1, <3>2
        <4> QED
          BY <1>1, <3>2, <4>1
      <3> QED
        BY <2>3, <3>1, <3>2
    <2> QED
      BY <1>3, <2>2, <2>4 DEF AckedIsGiven
  <1>5. (\E a \in acks : HandleAck(a)) \/ sendBase' = sendBase
    BY DEF Next, SendLoop, Send, Enqueue, SendGivesUp, Close, FinishClose, RemoteClose,
       LoopTop, CheckWindow, CloseWakes, TakeData, Transmit, Tick, Resend, ResendDone,
       HandleOrdered, HandleDirect, AcknowledgeFirst, DeliverHandled, ReceiveClose, Lose, sendVars
  <1> QED
    BY <1>3, <1>4, <1>5 DEF AckedIsGiven

\* With a window of one frame every payload that the sender no longer keeps was delivered;
\* AtLeastOnce, which acknowledges first, has its handler about to deliver it
\* (src/src/relay.rs:407-476).
THEOREM StopAndWaitDelivers == Window = 1 => (Spec => []AckedIsGiven)
  <1> SUFFICES ASSUME Window = 1 PROVE Spec => []AckedIsGiven
    OBVIOUS
  <1> DEFINE Unordered == mode = "AtLeastOnce" => AckedIsGiven
  <1>1. Init => AckedIsBehind /\ Unordered
    BY DEF Init, AckedIsBehind, AckedIsGiven
  <1>2. IInv /\ AckedIsBehind /\ [Next]_vars => AckedIsBehind'
    <2>1. ASSUME UNCHANGED vars, AckedIsBehind PROVE AckedIsBehind'
      BY <2>1 DEF vars, config, sendVars, netVars, peerVars, AckedIsBehind
    <2> QED
      BY <2>1, AckedStep
  <1>3. ASSUME IInv, Unordered, [Next]_vars PROVE Unordered'
    <2>1. ASSUME UNCHANGED vars PROVE Unordered'
      BY <1>3, <2>1 DEF vars, config, sendVars, queueVars, peerVars, AckedIsGiven, Given, Elements
    <2>2. ASSUME Next PROVE Unordered'
      <3>1. mode' = mode
        BY <2>2, ModeKept
      <3> QED
        BY <1>3, <2>2, <3>1, AckedGivenStep
    <2> QED
      BY <1>3, <2>1, <2>2
  <1>4. ASSUME IInv, AckedIsBehind, Unordered PROVE AckedIsGiven
    <2>1. CASE mode = "ReliableOrdered"
      <3> SUFFICES ASSUME NEW s \in 1 .. sendBase - 1
                   PROVE  accepted[s] \in Elements(delivered)
        BY DEF AckedIsGiven, Given
      <3>1. /\ expectedSeq \in 1 .. nextSeq /\ nextSeq - 1 <= Len(accepted)
            /\ sendBase <= expectedSeq /\ delivered = SubSeq(accepted, 1, expectedSeq - 1)
            /\ accepted \in Seq(Data) /\ sendBase \in Nat /\ nextSeq \in Nat
            /\ Len(accepted) \in Nat
        BY <1>4, <2>1 DEF IInv, TypeOK, SenderType, Numbered, DeliveredInOrder, AckedIsBehind
      <3>2. s \in 1 .. expectedSeq - 1 /\ expectedSeq - 1 \in 0 .. Len(accepted)
        BY <3>1
      <3>3. s \in DOMAIN delivered /\ delivered[s] = accepted[s]
        BY <3>1, <3>2
      <3> QED
        BY <3>3 DEF Elements
    <2>2. CASE mode # "ReliableOrdered"
      <3>1. mode \in {"BestEffort", "AtLeastOnce"}
        BY <1>4, <2>2 DEF IInv, TypeOK, SenderType, Reliabilities
      <3> QED
        BY <1>4, <3>1 DEF AckedIsGiven
    <2> QED
      BY <2>1, <2>2
  <1> QED
    BY Invariance, <1>1, <1>2, <1>3, <1>4, PTL DEF Spec

-----------------------------------------------------------------------------
(* The refinement.                                                         *)

\* The payload of a frame that comes, or is handled, was accepted, whatever the mode.
LEMMA FrameWasAccepted ==
  ASSUME IInv, NEW f \in net \cup handling
  PROVE  \E i \in DOMAIN accepted : f.data = accepted[i]
  <1>1. CASE mode = "BestEffort"
    BY <1>1 DEF IInv, ModeParts, OnlyAccepted, Elements
  <1>2. CASE mode # "BestEffort"
    BY <1>2 DEF IInv, FramesGenuine, Genuine, Numbered, TypeOK, SenderType
  <1> QED
    BY <1>1, <1>2

\* A step of the connection accepts a payload, delivers the next ones in order, or one
\* that was accepted, or does neither.
LEMMA ChannelStep == ASSUME IInv, Next PROVE Channel!Next \/ UNCHANGED Channel!vars
  <1>0. mode' = mode
    BY ModeKept
  <1>1. ASSUME NEW d \in sending, Enqueue(d) PROVE Channel!Next
    <2>1. d \in Data /\ accepted' = Append(accepted, d) /\ delivered' = delivered
      BY <1>1 DEF Enqueue, peerVars, IInv, TypeOK, SenderType
    <2> QED
      BY <1>0, <2>1 DEF Channel!Next, Channel!Send
  <1>2. ASSUME NEW f \in net, HandleOrdered(f), ~UNCHANGED delivered PROVE Channel!Next
    <2>1. /\ mode = "ReliableOrdered" /\ f.seq = expectedSeq /\ DeliverRun(f)
          /\ accepted' = accepted
      BY <1>2 DEF HandleOrdered, Buffer, queueVars
    <2>2. /\ expectedSeq' \in expectedSeq + 1 .. nextSeq
          /\ delivered' = SubSeq(accepted, 1, expectedSeq' - 1)
      BY <1>2, <2>1, RunInOrder
    <2>3. expectedSeq \in Nat \ {0} /\ nextSeq \in Nat /\ nextSeq - 1 <= Len(accepted)
          /\ Len(accepted) \in Nat /\ delivered = SubSeq(accepted, 1, expectedSeq - 1)
      BY <2>1 DEF IInv, TypeOK, SenderType, PeerType, Numbered, DeliveredInOrder
    <2>4. Len(delivered) = expectedSeq - 1
      <3>1. expectedSeq - 1 <= Len(accepted) /\ accepted \in Seq(Data)
        BY <2>2, <2>3 DEF IInv, TypeOK, SenderType
      <3> QED
        BY <2>3, <3>1
    <2>5. expectedSeq' - 1 \in Len(delivered) + 1 .. Len(accepted)
      <3>1. PICK n \in expectedSeq + 1 .. nextSeq : n = expectedSeq'
        BY <2>2
      <3>2. n - 1 \in expectedSeq .. Len(accepted) /\ Len(delivered) + 1 = expectedSeq
        BY <2>3, <2>4
      <3> QED
        BY <3>1, <3>2
    <2> QED
      BY <1>0, <2>1, <2>2, <2>5 DEF Channel!Next, Channel!DeliverRun
  <1>3. ASSUME mode # "ReliableOrdered", accepted' = accepted,
               NEW f \in net \cup handling, DeliverOnce(f), ~UNCHANGED delivered
        PROVE  Channel!Next
    <2>1. f.data \notin Elements(delivered) /\ delivered' = Append(delivered, f.data)
      BY <1>3 DEF DeliverOnce
    <2>2. PICK i \in DOMAIN accepted : f.data = accepted[i]
      BY <1>3, FrameWasAccepted
    <2>3. \A j \in DOMAIN delivered : delivered[j] # accepted[i]
      BY <2>1, <2>2 DEF Elements
    <2> QED
      BY <1>0, <1>3, <2>1, <2>2, <2>3 DEF Channel!Next, Channel!DeliverAny
  <1>4. \/ UNCHANGED <<accepted, delivered>>
        \/ \E d \in sending : Enqueue(d)
        \/ \E f \in net : HandleOrdered(f)
        \/ \E f \in net \cup handling : DeliverOnce(f) /\ mode # "ReliableOrdered"
                                       /\ accepted' = accepted
    BY DEF IInv, ModeParts, Next, SendLoop, Send, SendGivesUp, HandleDirect, AcknowledgeFirst,
       DeliverHandled, Close, FinishClose, RemoteClose,
       LoopTop, CheckWindow, CloseWakes, TakeData, Transmit, Tick, Resend, ResendDone,
       HandleAck, ReceiveClose, Lose, queueVars, peerVars
  <1>5. ASSUME NEW f \in net, HandleOrdered(f) PROVE UNCHANGED accepted
    BY <1>5 DEF HandleOrdered, queueVars
  <1>6. UNCHANGED <<accepted, delivered>> => UNCHANGED Channel!vars
    BY <1>0 DEF Channel!vars
  <1> QED
    BY <1>1, <1>2, <1>3, <1>4, <1>5, <1>6

\* The subscribers of the other end are given only what was sent, and those of a
\* ReliableOrdered connection a prefix of it, in order and once, whatever is lost,
\* delayed, reordered or repeated (src/src/relay.rs:422-445).
THEOREM ChannelImplemented == Spec => ImplementsChannel
  <1>1. Init => Channel!Init
    BY DEF Init, Channel!Init
  <1>2. ASSUME IInv, [Next]_vars PROVE [Channel!Next]_(Channel!vars)
    <2>1. CASE Next
      BY <2>1, <1>2, ChannelStep
    <2>2. CASE UNCHANGED vars
      BY <2>2 DEF vars, config, queueVars, peerVars, Channel!vars
    <2> QED
      BY <1>2, <2>1, <2>2
  <1> QED
    BY Invariance, <1>1, <1>2, PTL DEF Spec, ImplementsChannel, Channel!Spec
=============================================================================
