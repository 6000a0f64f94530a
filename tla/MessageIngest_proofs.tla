------------------------ MODULE MessageIngest_proofs ------------------------
(* The safety of the message path, for every set of messages and every     *)
(* bound, and its implementation of DurableInbox.                          *)
EXTENDS MessageIngest, TLAPS

USE MessagesAssumption, SwitchAssumption, BoundsAssumption

\* The frame of a connection-level error is a frame.
LEMMA ErrorFrameType == ErrorFrame \in Frames /\ ErrorFrame.kind = "error"
  BY DEF ErrorFrame, Frames, Kinds

\* The initial state satisfies the type invariant.
LEMMA TypeInit == Init => TypeOK
  <1> SUFFICES ASSUME Init PROVE TypeOK
    OBVIOUS
  <1> USE DEF Init
  <1>1. FlagType
    BY Zenon DEF FlagType
  <1>2. ServerType
    BY DEF ServerType
  <1>3. ClientType
    BY ErrorFrameType DEF ClientType, Pcs, SendStates
  <1>4. HistoryType
    BY DEF HistoryType, MaxEvents
  <1>5. FrameFits
    BY DEF FrameFits
  <1> QED
    BY <1>1, <1>2, <1>3, <1>4, <1>5 DEF TypeOK

\* What is read from the wire is a frame, and what stays is on the wire.
LEMMA ReadType ==
  ASSUME TypeOK, wire # <<>>
  PROVE  /\ Head(wire) \in Frames /\ Head(wire) = wire[1] /\ 1 \in DOMAIN wire
         /\ Tail(wire) \in Seq(Frames) /\ Len(Tail(wire)) = Len(wire) - 1
         /\ \A i \in DOMAIN Tail(wire) :
              i + 1 \in DOMAIN wire /\ Tail(wire)[i] = wire[i + 1]
         /\ \A i \in DOMAIN wire : wire[i] \in Frames
  BY DEF TypeOK, ServerType

\* The flags stay Boolean.
LEMMA FlagStep == ASSUME FlagType, Next PROVE FlagType'
  <1> USE DEF FlagType, serverVars, clientVars, storeVars, history
  <1>1. ASSUME NEW m \in Messages, Publish(m) PROVE FlagType'
    BY <1>1, Zenon DEF Publish
  <1>2. ASSUME NEW m \in Messages, Push(m) PROVE FlagType'
    BY <1>2, Zenon DEF Push, Deliver
  <1>3. ASSUME NEW m \in Sends, AnswerSend(m) PROVE FlagType'
    BY <1>3, Zenon DEF AnswerSend, Deliver
  <1>4. CASE SendError
    BY <1>4, Zenon DEF SendError, Deliver
  <1>5. CASE ConnectionLost
    BY <1>5, Zenon DEF ConnectionLost
  <1>6. CASE LoadSeen
    BY <1>6, Zenon DEF LoadSeen, Goto
  <1>7. CASE Login
    BY <1>7, Zenon DEF Login, Goto
  <1>8. CASE LoginFails
    BY <1>8, Zenon DEF LoginFails, Goto
  <1>9. CASE ReadFrame
    BY <1>9, Zenon DEF ReadFrame, Goto
  <1>10. CASE ReadFails
    BY <1>10, Zenon DEF ReadFails, Goto
  <1>11. CASE SaveMessage
    BY <1>11, Zenon DEF SaveMessage, Goto
  <1>12. CASE SaveCursor
    BY <1>12, Zenon DEF SaveCursor, AfterPersist, Goto
  <1>13. CASE StoreFails
    BY <1>13, Zenon DEF StoreFails
  <1>14. CASE Ack
    BY <1>14, Zenon DEF Ack, Goto
  <1>15. CASE EmitMessage
    BY <1>15, Zenon DEF EmitMessage, Goto
  <1>16. CASE Resolve
    BY <1>16, Zenon DEF Resolve
  <1>17. ASSUME NEW m \in Sends, SendMessage(m) PROVE FlagType'
    BY <1>17, Zenon DEF SendMessage
  <1>18. ASSUME NEW m \in Sends, SendGone(m) PROVE FlagType'
    BY <1>18, Zenon DEF SendGone
  <1>19. CASE Crash
    BY <1>19, Zenon DEF Crash
  <1> QED
    BY <1>1, <1>2, <1>3, <1>4, <1>5, <1>6, <1>7, <1>8, <1>9, <1>10, <1>11, <1>12,
       <1>13, <1>14, <1>15, <1>16, <1>17, <1>18, <1>19, Zenon DEF Next, ServerStep, ReadLoop

\* The server and the wire keep their types.
LEMMA ServerTypeStep == ASSUME TypeOK, Next PROVE ServerType'
  <1> USE DEF TypeOK, ServerType, ClientType, serverVars, clientVars, storeVars,
              history
  <1>1. ASSUME NEW m \in Messages, Publish(m) PROVE ServerType'
    BY <1>1 DEF Publish
  <1>2. ASSUME NEW m \in Messages, Push(m) PROVE ServerType'
    BY <1>2 DEF Push, Deliver, Frames, Kinds
  <1>3. ASSUME NEW m \in Sends, AnswerSend(m) PROVE ServerType'
    BY <1>3 DEF AnswerSend, Deliver, Frames, Kinds
  <1>4. CASE SendError
    BY <1>4, ErrorFrameType DEF SendError, Deliver
  <1>5. CASE ConnectionLost
    <2>1. CASE wire' = wire
      BY <1>5, <2>1 DEF ConnectionLost
    <2>2. CASE wire' = <<>>
      BY <1>5, <2>2 DEF ConnectionLost
    <2> QED
      BY <1>5, <2>1, <2>2 DEF ConnectionLost
  <1>6. CASE LoadSeen
    BY <1>6 DEF LoadSeen, Goto
  <1>7. CASE Login
    BY <1>7 DEF Login, Goto
  <1>8. CASE LoginFails
    BY <1>8 DEF LoginFails, Goto
  <1>9. CASE ReadFrame
    BY <1>9 DEF ReadFrame, Goto
  <1>10. CASE ReadFails
    BY <1>10 DEF ReadFails, Goto
  <1>11. CASE SaveMessage
    BY <1>11 DEF SaveMessage, Goto
  <1>12. CASE SaveCursor
    BY <1>12 DEF SaveCursor, AfterPersist, Goto
  <1>13. CASE StoreFails
    BY <1>13 DEF StoreFails
  <1>14. CASE Ack
    BY <1>14 DEF Ack, Goto, Frames
  <1>15. CASE EmitMessage
    BY <1>15 DEF EmitMessage, Goto
  <1>16. CASE Resolve
    BY <1>16 DEF Resolve
  <1>17. ASSUME NEW m \in Sends, SendMessage(m) PROVE ServerType'
    BY <1>17 DEF SendMessage
  <1>18. ASSUME NEW m \in Sends, SendGone(m) PROVE ServerType'
    BY <1>18 DEF SendGone
  <1>19. CASE Crash
    BY <1>19 DEF Crash
  <1> QED
    BY <1>1, <1>2, <1>3, <1>4, <1>5, <1>6, <1>7, <1>8, <1>9, <1>10, <1>11, <1>12,
       <1>13, <1>14, <1>15, <1>16, <1>17, <1>18, <1>19, Zenon DEF Next, ServerStep, ReadLoop

\* The client and the store keep their types.
LEMMA ClientTypeStep == ASSUME TypeOK, Next PROVE ClientType'
  <1> USE DEF TypeOK, ServerType, ClientType, Frames, Pcs, serverVars, clientVars,
              storeVars, history
  <1>1. ASSUME NEW m \in Messages, Publish(m) PROVE ClientType'
    BY <1>1 DEF Publish
  <1>2. ASSUME NEW m \in Messages, Push(m) PROVE ClientType'
    BY <1>2 DEF Push, Deliver
  <1>3. ASSUME NEW m \in Sends, AnswerSend(m) PROVE ClientType'
    BY <1>3 DEF AnswerSend, Deliver
  <1>4. CASE SendError
    BY <1>4 DEF SendError, Deliver
  <1>5. CASE ConnectionLost
    BY <1>5 DEF ConnectionLost
  <1>6. CASE LoadSeen
    BY <1>6 DEF LoadSeen, Goto
  <1>7. CASE Login
    BY <1>7 DEF Login, Goto
  <1>8. CASE LoginFails
    BY <1>8 DEF LoginFails, Goto
  <1>9. CASE ReadFrame
    <2>1. Head(wire) \in Frames
      BY <1>9, ReadType DEF ReadFrame
    <2>2. pc' \in Pcs
      BY <1>9 DEF ReadFrame, Goto
    <2> QED
      BY <1>9, <2>1, <2>2 DEF ReadFrame
  <1>10. CASE ReadFails
    BY <1>10 DEF ReadFails, Goto
  <1>11. CASE SaveMessage
    BY <1>11 DEF SaveMessage, Goto
  <1>12. CASE SaveCursor
    BY <1>12 DEF SaveCursor, AfterPersist, Goto
  <1>13. CASE StoreFails
    BY <1>13 DEF StoreFails
  <1>14. CASE Ack
    BY <1>14 DEF Ack, Goto
  <1>15. CASE EmitMessage
    BY <1>15 DEF EmitMessage, Goto
  <1>16. CASE Resolve
    BY <1>16 DEF Resolve, SendStates
  <1>17. ASSUME NEW m \in Sends, SendMessage(m) PROVE ClientType'
    BY <1>17 DEF SendMessage, SendStates
  <1>18. ASSUME NEW m \in Sends, SendGone(m) PROVE ClientType'
    BY <1>18 DEF SendGone, SendStates
  <1>19. CASE Crash
    BY <1>19 DEF Crash, SendStates
  <1> QED
    BY <1>1, <1>2, <1>3, <1>4, <1>5, <1>6, <1>7, <1>8, <1>9, <1>10, <1>11, <1>12,
       <1>13, <1>14, <1>15, <1>16, <1>17, <1>18, <1>19, Zenon DEF Next, ServerStep, ReadLoop

\* The histories and the bounds keep their types.
LEMMA HistoryTypeStep == ASSUME TypeOK, Next PROVE HistoryType'
  <1> USE DEF TypeOK, ClientType, HistoryType, Frames, Pcs, serverVars, clientVars,
              storeVars, history
  <1>1. ASSUME NEW m \in Messages, Publish(m) PROVE HistoryType'
    BY <1>1 DEF Publish
  <1>2. ASSUME NEW m \in Messages, Push(m) PROVE HistoryType'
    BY <1>2 DEF Push, Deliver
  <1>3. ASSUME NEW m \in Sends, AnswerSend(m) PROVE HistoryType'
    BY <1>3 DEF AnswerSend, Deliver
  <1>4. CASE SendError
    BY <1>4 DEF SendError, Deliver
  <1>5. CASE ConnectionLost
    BY <1>5 DEF ConnectionLost
  <1>6. CASE LoadSeen
    BY <1>6 DEF LoadSeen, Goto
  <1>7. CASE Login
    BY <1>7 DEF Login, Goto
  <1>8. CASE LoginFails
    BY <1>8 DEF LoginFails, Goto
  <1>9. CASE ReadFrame
    BY <1>9 DEF ReadFrame, Goto
  <1>10. CASE ReadFails
    BY <1>10 DEF ReadFails, Goto
  <1>11. CASE SaveMessage
    BY <1>11 DEF SaveMessage, Goto
  <1>12. CASE SaveCursor
    BY <1>12 DEF SaveCursor, AfterPersist, Goto
  <1>13. CASE StoreFails
    BY <1>13 DEF StoreFails
  <1>14. CASE Ack
    BY <1>14 DEF Ack, Goto
  <1>15. CASE EmitMessage
    BY <1>15 DEF EmitMessage, Goto, MaxEvents
  <1>16. CASE Resolve
    BY <1>16 DEF Resolve
  <1>17. ASSUME NEW m \in Sends, SendMessage(m) PROVE HistoryType'
    BY <1>17 DEF SendMessage
  <1>18. ASSUME NEW m \in Sends, SendGone(m) PROVE HistoryType'
    BY <1>18 DEF SendGone
  <1>19. CASE Crash
    BY <1>19 DEF Crash
  <1> QED
    BY <1>1, <1>2, <1>3, <1>4, <1>5, <1>6, <1>7, <1>8, <1>9, <1>10, <1>11, <1>12,
       <1>13, <1>14, <1>15, <1>16, <1>17, <1>18, <1>19, Zenon DEF Next, ServerStep, ReadLoop

\* A frame reaches only the positions of its kind.
LEMMA FrameFitsStep == ASSUME TypeOK, Next PROVE FrameFits'
  <1> USE DEF TypeOK, ServerType, ClientType, FrameFits, Frames, Kinds, Pcs,
              serverVars, clientVars, storeVars, history
  <1>1. ASSUME NEW m \in Messages, Publish(m) PROVE FrameFits'
    BY <1>1 DEF Publish
  <1>2. ASSUME NEW m \in Messages, Push(m) PROVE FrameFits'
    BY <1>2 DEF Push, Deliver
  <1>3. ASSUME NEW m \in Sends, AnswerSend(m) PROVE FrameFits'
    BY <1>3 DEF AnswerSend, Deliver
  <1>4. CASE SendError
    BY <1>4 DEF SendError, Deliver
  <1>5. CASE ConnectionLost
    BY <1>5 DEF ConnectionLost
  <1>6. CASE LoadSeen
    BY <1>6 DEF LoadSeen, Goto
  <1>7. CASE Login
    BY <1>7 DEF Login, Goto
  <1>8. CASE LoginFails
    BY <1>8 DEF LoginFails, Goto
  <1>9. CASE ReadFrame
    BY <1>9 DEF ReadFrame, Goto
  <1>10. CASE ReadFails
    BY <1>10 DEF ReadFails, Goto
  <1>11. CASE SaveMessage
    BY <1>11 DEF SaveMessage, Goto
  <1>12. CASE SaveCursor
    BY <1>12 DEF SaveCursor, AfterPersist, Goto
  <1>13. CASE StoreFails
    BY <1>13 DEF StoreFails
  <1>14. CASE Ack
    BY <1>14 DEF Ack, Goto
  <1>15. CASE EmitMessage
    BY <1>15 DEF EmitMessage, Goto
  <1>16. CASE Resolve
    BY <1>16 DEF Resolve
  <1>17. ASSUME NEW m \in Sends, SendMessage(m) PROVE FrameFits'
    BY <1>17 DEF SendMessage
  <1>18. ASSUME NEW m \in Sends, SendGone(m) PROVE FrameFits'
    BY <1>18 DEF SendGone
  <1>19. CASE Crash
    BY <1>19 DEF Crash
  <1> QED
    BY <1>1, <1>2, <1>3, <1>4, <1>5, <1>6, <1>7, <1>8, <1>9, <1>10, <1>11, <1>12,
       <1>13, <1>14, <1>15, <1>16, <1>17, <1>18, <1>19, Zenon DEF Next, ServerStep, ReadLoop

\* The type invariant is preserved.
LEMMA TypeStep == TypeOK /\ [Next]_vars => TypeOK'
  <1>1. ASSUME TypeOK, Next PROVE TypeOK'
    BY <1>1, FlagStep, ServerTypeStep, ClientTypeStep, HistoryTypeStep, FrameFitsStep
       DEF TypeOK
  <1>2. ASSUME TypeOK, UNCHANGED vars PROVE TypeOK'
    BY <1>2 DEF vars, serverVars, clientVars, storeVars, history, TypeOK, FlagType,
       ServerType, ClientType, HistoryType, FrameFits
  <1> QED
    BY <1>1, <1>2

\* The type invariant of MessageIngest holds in every reachable state.
THEOREM TypeCorrect == Spec => []TypeOK
  BY TypeInit, TypeStep, PTL DEF Spec

\* What the server is told of was stored before.
LEMMA StoreInvStep == ASSUME TypeOK, StoreInv, Next PROVE StoreInv'
  <1> USE DEF StoreInv, CursorHasBody, HandledIsStored, LoadedIsStored,
              HeldBackIsStored, ToldIsStored, TypeOK, ClientType, Pcs, Frames,
              serverVars, clientVars, storeVars, history
  <1>1. ASSUME NEW m \in Messages, Publish(m) PROVE StoreInv'
    BY <1>1 DEF Publish
  <1>2. ASSUME NEW m \in Messages, Push(m) PROVE StoreInv'
    BY <1>2 DEF Push, Deliver
  <1>3. ASSUME NEW m \in Sends, AnswerSend(m) PROVE StoreInv'
    BY <1>3 DEF AnswerSend, Deliver
  <1>4. CASE SendError
    BY <1>4 DEF SendError, Deliver
  <1>5. CASE ConnectionLost
    BY <1>5 DEF ConnectionLost
  <1>6. CASE LoadSeen
    BY <1>6 DEF LoadSeen, Goto
  <1>7. CASE Login
    BY <1>7 DEF Login, Goto
  <1>8. CASE LoginFails
    BY <1>8 DEF LoginFails, Goto
  <1>9. CASE ReadFrame
    BY <1>9 DEF ReadFrame, Goto
  <1>10. CASE ReadFails
    BY <1>10 DEF ReadFails, Goto
  <1>11. CASE SaveMessage
    BY <1>11 DEF SaveMessage, Goto
  <1>12. CASE SaveCursor
    BY <1>12 DEF SaveCursor, AfterPersist, Goto
  <1>13. CASE StoreFails
    BY <1>13 DEF StoreFails
  <1>14. CASE Ack
    BY <1>14 DEF Ack, Goto
  <1>15. CASE EmitMessage
    BY <1>15 DEF EmitMessage, Goto, HistoryType, MaxEvents, FrameFits
  <1>16. CASE Resolve
    BY <1>16 DEF Resolve
  <1>17. ASSUME NEW m \in Sends, SendMessage(m) PROVE StoreInv'
    BY <1>17 DEF SendMessage
  <1>18. ASSUME NEW m \in Sends, SendGone(m) PROVE StoreInv'
    BY <1>18 DEF SendGone
  <1>19. CASE Crash
    BY <1>19 DEF Crash
  <1> QED
    BY <1>1, <1>2, <1>3, <1>4, <1>5, <1>6, <1>7, <1>8, <1>9, <1>10, <1>11, <1>12,
       <1>13, <1>14, <1>15, <1>16, <1>17, <1>18, <1>19, Zenon DEF Next, ServerStep, ReadLoop

\* Frames carry published messages, responses those sent.
LEMMA GenuineStep == ASSUME TypeOK, FramesGenuine, Next PROVE FramesGenuine'
  <1> USE DEF FramesGenuine, Genuine, TypeOK, ServerType, ClientType, Pcs,
              serverVars, clientVars, storeVars, history
  <1>1. ASSUME NEW m \in Messages, Publish(m) PROVE FramesGenuine'
    BY <1>1 DEF Publish
  <1>2. ASSUME NEW m \in Messages, Push(m) PROVE FramesGenuine'
    BY <1>2 DEF Push, Deliver, Frames, Kinds
  <1>3. ASSUME NEW m \in Sends, AnswerSend(m) PROVE FramesGenuine'
    BY <1>3 DEF AnswerSend, Deliver, Frames, Kinds
  <1>4. CASE SendError
    BY <1>4, ErrorFrameType DEF SendError, Deliver
  <1>5. CASE ConnectionLost
    BY <1>5 DEF ConnectionLost
  <1>6. CASE LoadSeen
    BY <1>6 DEF LoadSeen, Goto
  <1>7. CASE Login
    BY <1>7 DEF Login, Goto
  <1>8. CASE LoginFails
    BY <1>8 DEF LoginFails, Goto
  <1>9. CASE ReadFrame
    BY <1>9 DEF ReadFrame, Goto
  <1>10. CASE ReadFails
    BY <1>10 DEF ReadFails, Goto
  <1>11. CASE SaveMessage
    BY <1>11 DEF SaveMessage, Goto
  <1>12. CASE SaveCursor
    BY <1>12 DEF SaveCursor, AfterPersist, Goto
  <1>13. CASE StoreFails
    BY <1>13 DEF StoreFails
  <1>14. CASE Ack
    BY <1>14 DEF Ack, Goto
  <1>15. CASE EmitMessage
    BY <1>15 DEF EmitMessage, Goto
  <1>16. CASE Resolve
    BY <1>16 DEF Resolve
  <1>17. ASSUME NEW m \in Sends, SendMessage(m) PROVE FramesGenuine'
    BY <1>17 DEF SendMessage
  <1>18. ASSUME NEW m \in Sends, SendGone(m) PROVE FramesGenuine'
    BY <1>18 DEF SendGone
  <1>19. CASE Crash
    BY <1>19 DEF Crash
  <1> QED
    BY <1>1, <1>2, <1>3, <1>4, <1>5, <1>6, <1>7, <1>8, <1>9, <1>10, <1>11, <1>12,
       <1>13, <1>14, <1>15, <1>16, <1>17, <1>18, <1>19, Zenon DEF Next, ServerStep, ReadLoop

\* Without a connection nothing is in flight.
LEMMA OfflineStep == ASSUME TypeOK, OfflineIsIdle, LoadedIsAll, Next PROVE (OfflineIsIdle /\ LoadedIsAll)'
  <1> USE DEF OfflineIsIdle, LoadedIsAll, TypeOK, ServerType, ClientType, Pcs,
              Frames, Kinds, FrameFits, serverVars, clientVars, storeVars, history
  <1>1. ASSUME NEW m \in Messages, Publish(m) PROVE (OfflineIsIdle /\ LoadedIsAll)'
    BY <1>1 DEF Publish
  <1>2. ASSUME NEW m \in Messages, Push(m) PROVE (OfflineIsIdle /\ LoadedIsAll)'
    BY <1>2 DEF Push, Deliver
  <1>3. ASSUME NEW m \in Sends, AnswerSend(m) PROVE (OfflineIsIdle /\ LoadedIsAll)'
    BY <1>3 DEF AnswerSend, Deliver
  <1>4. CASE SendError
    BY <1>4 DEF SendError, Deliver
  <1>5. CASE ConnectionLost
    BY <1>5 DEF ConnectionLost
  <1>6. CASE LoadSeen
    BY <1>6 DEF LoadSeen, Goto
  <1>7. CASE Login
    BY <1>7 DEF Login, Goto
  <1>8. CASE LoginFails
    BY <1>8 DEF LoginFails, Goto
  <1>9. CASE ReadFrame
    BY <1>9 DEF ReadFrame, Goto
  <1>10. CASE ReadFails
    BY <1>10 DEF ReadFails, Goto
  <1>11. CASE SaveMessage
    BY <1>11 DEF SaveMessage, Goto
  <1>12. CASE SaveCursor
    BY <1>12 DEF SaveCursor, AfterPersist, Goto
  <1>13. CASE StoreFails
    BY <1>13 DEF StoreFails
  <1>14. CASE Ack
    BY <1>14 DEF Ack, Goto
  <1>15. CASE EmitMessage
    BY <1>15 DEF EmitMessage, Goto
  <1>16. CASE Resolve
    BY <1>16 DEF Resolve
  <1>17. ASSUME NEW m \in Sends, SendMessage(m) PROVE (OfflineIsIdle /\ LoadedIsAll)'
    BY <1>17 DEF SendMessage
  <1>18. ASSUME NEW m \in Sends, SendGone(m) PROVE (OfflineIsIdle /\ LoadedIsAll)'
    BY <1>18 DEF SendGone
  <1>19. CASE Crash
    BY <1>19 DEF Crash
  <1> QED
    BY <1>1, <1>2, <1>3, <1>4, <1>5, <1>6, <1>7, <1>8, <1>9, <1>10, <1>11, <1>12,
       <1>13, <1>14, <1>15, <1>16, <1>17, <1>18, <1>19, Zenon DEF Next, ServerStep, ReadLoop

\* A saved cursor is announced, or what kept it from that is known.
LEMMA AnnouncedStep == ASSUME TypeOK, FramesGenuine, StoredIsAnnounced, Next PROVE StoredIsAnnounced'
  <1> USE DEF StoredIsAnnounced, FramesGenuine, Genuine, TypeOK, FrameFits,
              ClientType, HistoryType, Frames, Kinds, MaxEvents, Pcs, serverVars,
              clientVars, storeVars, history
  <1>1. ASSUME NEW m \in Messages, Publish(m) PROVE StoredIsAnnounced'
    BY <1>1 DEF Publish
  <1>2. ASSUME NEW m \in Messages, Push(m) PROVE StoredIsAnnounced'
    BY <1>2 DEF Push, Deliver
  <1>3. ASSUME NEW m \in Sends, AnswerSend(m) PROVE StoredIsAnnounced'
    BY <1>3 DEF AnswerSend, Deliver
  <1>4. CASE SendError
    BY <1>4 DEF SendError, Deliver
  <1>5. CASE ConnectionLost
    BY <1>5 DEF ConnectionLost
  <1>6. CASE LoadSeen
    BY <1>6 DEF LoadSeen, Goto
  <1>7. CASE Login
    BY <1>7 DEF Login, Goto
  <1>8. CASE LoginFails
    BY <1>8 DEF LoginFails, Goto
  <1>9. CASE ReadFrame
    BY <1>9 DEF ReadFrame, Goto
  <1>10. CASE ReadFails
    BY <1>10 DEF ReadFails, Goto
  <1>11. CASE SaveMessage
    BY <1>11 DEF SaveMessage, Goto
  <1>12. CASE SaveCursor
    BY <1>12 DEF SaveCursor, AfterPersist, Goto
  <1>13. CASE StoreFails
    BY <1>13 DEF StoreFails
  <1>14. CASE Ack
    BY <1>14 DEF Ack, Goto
  <1>15. CASE EmitMessage
    BY <1>15 DEF EmitMessage, Goto
  <1>16. CASE Resolve
    BY <1>16 DEF Resolve
  <1>17. ASSUME NEW m \in Sends, SendMessage(m) PROVE StoredIsAnnounced'
    BY <1>17 DEF SendMessage
  <1>18. ASSUME NEW m \in Sends, SendGone(m) PROVE StoredIsAnnounced'
    BY <1>18 DEF SendGone
  <1>19. CASE Crash
    BY <1>19 DEF Crash
  <1> QED
    BY <1>1, <1>2, <1>3, <1>4, <1>5, <1>6, <1>7, <1>8, <1>9, <1>10, <1>11, <1>12,
       <1>13, <1>14, <1>15, <1>16, <1>17, <1>18, <1>19, Zenon DEF Next, ServerStep, ReadLoop

\* A push in flight is fresh and alone, and nothing is announced twice.
LEMMA OnceStep == ASSUME IInv, Next PROVE OnceInv'
  <1> USE DEF OnceInv, IInv, AtMostOneEvent, ToldIsKnown, PushIsKnown, InFlightIsFresh,
              InFlightOnce, Fresh, IsPush, Handling, TypeOK, ServerType, ClientType,
              HistoryType, Frames, Kinds, MaxEvents, Pcs, serverVars, clientVars,
              storeVars, history
  <1>1. ASSUME NEW m \in Messages, Publish(m) PROVE OnceInv'
    BY <1>1 DEF Publish
  <1>2. ASSUME NEW m \in Messages, Push(m) PROVE OnceInv'
    <2>1. m \notin seen /\ online /\ pc \notin {"offline", "login"}
      BY <1>2 DEF Push, Deliver, OfflineIsIdle
    <2>2. /\ pushed' = pushed \cup {m} /\ UNCHANGED <<seen, pc, frame, events>>
          /\ repeated' = IF m \in pushed THEN repeated \cup {m} ELSE repeated
      BY <1>2 DEF Push
    <2>3. m \notin repeated' =>
            /\ m \notin pushed /\ m \notin repeated /\ events[m] = 0
            /\ ~Handling(m) /\ \A i \in DOMAIN wire : ~IsPush(wire[i], m)
      BY <2>1, <2>2
    <2>4. repeated \subseteq repeated'
      BY <2>2
    <2>5. /\ Len(wire') = Len(wire) + 1 /\ DOMAIN wire' = 1..Len(wire) + 1
          /\ wire'[Len(wire) + 1] = [kind |-> "push", msg |-> m]
          /\ \A i \in DOMAIN wire : i \in 1..Len(wire) /\ wire'[i] = wire[i]
          /\ DOMAIN wire = 1..Len(wire)
      BY <1>2 DEF Push, Deliver
    <2>6. ToldIsKnown' /\ AtMostOneEvent'
      BY <2>2, <2>4
    <2>7. PushIsKnown'
      <3> SUFFICES ASSUME NEW n \in Messages,
                          Handling(n)' \/ \E i \in DOMAIN wire' : IsPush(wire'[i], n)
                   PROVE  n \in pushed'
        BY DEF PushIsKnown
      <3>1. CASE Handling(n)'
        BY <2>2, <3>1
      <3>2. ASSUME NEW i \in DOMAIN wire', IsPush(wire'[i], n) PROVE n \in pushed'
        BY <2>2, <2>5, <3>2
      <3> QED
        BY <3>1, <3>2
    <2>8. InFlightIsFresh'
      <3> SUFFICES ASSUME NEW n \in Messages, n \notin repeated'
                   PROVE  /\ Handling(n)' => Fresh(n)'
                          /\ \A i \in DOMAIN wire' :
                               IsPush(wire'[i], n) => Fresh(n)' /\ ~Handling(n)'
        BY DEF InFlightIsFresh
      <3>1. Handling(n)' => Fresh(n)'
        BY <2>2, <2>4
      <3>2. ASSUME NEW i \in DOMAIN wire', IsPush(wire'[i], n)
            PROVE  Fresh(n)' /\ ~Handling(n)'
        <4>1. CASE i = Len(wire) + 1
          BY <2>2, <2>3, <2>5, <3>2, <4>1
        <4>2. CASE i # Len(wire) + 1
          <5>1. i \in DOMAIN wire /\ wire'[i] = wire[i]
            BY <2>5, <3>2, <4>2
          <5> QED
            BY <2>2, <2>4, <3>2, <5>1
        <4> QED
          BY <4>1, <4>2
      <3> QED
        BY <3>1, <3>2
    <2>9. InFlightOnce'
      BY <2>3, <2>4, <2>5
    <2> QED
      BY <2>6, <2>7, <2>8, <2>9
  <1>3. ASSUME NEW m \in Sends, AnswerSend(m) PROVE OnceInv'
    BY <1>3 DEF AnswerSend, Deliver
  <1>4. CASE SendError
    BY <1>4, ErrorFrameType DEF SendError, Deliver
  <1>5. CASE ConnectionLost
    BY <1>5 DEF ConnectionLost
  <1>6. CASE LoadSeen
    BY <1>6 DEF LoadSeen, Goto
  <1>7. CASE Login
    BY <1>7 DEF Login, Goto, LoadedIsAll, StoreInv, ToldIsStored, LoadedIsStored
  <1>8. CASE LoginFails
    BY <1>8 DEF LoginFails, Goto
  <1>9. CASE ReadFrame
    <2>1. /\ pc = "read" /\ wire # <<>> /\ wire' = Tail(wire) /\ frame' = Head(wire)
          /\ UNCHANGED <<seen, pushed, events, repeated>>
      BY <1>9 DEF ReadFrame, Goto
    <2>2. pc' \in {"read", "save"}
      BY <1>9 DEF ReadFrame, Goto
    <2>3. \A i \in DOMAIN wire' : i + 1 \in DOMAIN wire /\ i + 1 # 1 /\ wire'[i] = wire[i + 1]
      BY <2>1, ReadType
    <2>4. frame' = wire[1] /\ 1 \in DOMAIN wire
      BY <2>1, ReadType
    <2>5. ToldIsKnown' /\ AtMostOneEvent'
      BY <2>1, <2>2
    <2>6. PushIsKnown'
      BY <2>1, <2>3, <2>4
    <2>7. InFlightIsFresh'
      <3> SUFFICES ASSUME NEW m \in Messages, m \notin repeated'
                   PROVE  /\ Handling(m)' => Fresh(m)'
                          /\ \A i \in DOMAIN wire' :
                               IsPush(wire'[i], m) => Fresh(m)' /\ ~Handling(m)'
        BY DEF InFlightIsFresh
      <3>1. Handling(m)' => Fresh(m)'
        BY <2>1, <2>4
      <3>2. ASSUME NEW i \in DOMAIN wire', IsPush(wire'[i], m) PROVE Fresh(m)'
        BY <2>1, <2>3, <3>2
      <3>3. ASSUME NEW i \in DOMAIN wire', IsPush(wire'[i], m), Handling(m)' PROVE FALSE
        <4>1. wire[i + 1].kind = "push" /\ wire[i + 1].msg = m /\ i + 1 \in DOMAIN wire
          BY <2>3, <3>3
        <4>2. wire[1].kind = "push" /\ wire[1].msg = m
          BY <2>4, <3>3
        <4>3. wire[1] \in Frames /\ wire[i + 1] \in Frames
          BY <2>1, <2>4, <4>1, ReadType
        <4>4. wire[1] = wire[i + 1]
          BY <4>1, <4>2, <4>3
        <4>5. i + 1 # 1
          BY <2>3
        <4> QED
          BY <2>1, <2>4, <4>1, <4>2, <4>4, <4>5
      <3> QED
        BY <3>1, <3>2, <3>3
    <2>8. InFlightOnce'
      <3> SUFFICES ASSUME NEW i \in DOMAIN wire', NEW j \in DOMAIN wire',
                          wire'[i].kind = "push", wire'[i].msg \notin repeated',
                          wire'[j] = wire'[i]
                   PROVE  i = j
        BY DEF InFlightOnce
      <3>1. /\ i + 1 \in DOMAIN wire /\ j + 1 \in DOMAIN wire
            /\ wire[i + 1].kind = "push" /\ wire[i + 1].msg \notin repeated
            /\ wire[j + 1] = wire[i + 1]
        BY <2>1, <2>3
      <3>2. i + 1 = j + 1
        BY <3>1
      <3>3. i \in Nat /\ j \in Nat
        BY <2>1, ReadType
      <3> QED
        BY <3>2, <3>3
    <2> QED
      BY <2>5, <2>6, <2>7, <2>8
  <1>10. CASE ReadFails
    BY <1>10 DEF ReadFails, Goto
  <1>11. CASE SaveMessage
    BY <1>11 DEF SaveMessage, Goto
  <1>12. CASE SaveCursor
    BY <1>12 DEF SaveCursor, AfterPersist, Goto
  <1>13. CASE StoreFails
    BY <1>13 DEF StoreFails
  <1>14. CASE Ack
    BY <1>14 DEF Ack, Goto
  <1>15. CASE EmitMessage
    <2>1. pc = "emit" /\ pc' = "read" /\ UNCHANGED <<seen, pushed, wire, frame, repeated>>
      BY <1>15 DEF EmitMessage, Goto
    <2>2. frame.kind = "push" /\ frame.msg \in Messages
      BY <2>1 DEF FrameFits
    <2>3. Handling(frame.msg)
      BY <2>1, <2>2
    <2>4. frame.msg \in pushed
      BY <2>2, <2>3
    <2>5. frame.msg \notin repeated => events[frame.msg] = 0
      BY <2>2, <2>3
    <2>6. \A m \in Messages :
            events'[m] = IF m = frame.msg
                           THEN IF events[m] < MaxEvents THEN events[m] + 1 ELSE events[m]
                           ELSE events[m]
      BY <1>15, <2>2 DEF EmitMessage
    <2>7. ToldIsKnown' /\ AtMostOneEvent'
      BY <2>1, <2>4, <2>5, <2>6
    <2>8. InFlightIsFresh'
      BY <2>1, <2>2, <2>3, <2>6
    <2>9. InFlightOnce' /\ PushIsKnown'
      BY <2>1, <2>2
    <2> QED
      BY <2>7, <2>8, <2>9
  <1>16. CASE Resolve
    BY <1>16 DEF Resolve
  <1>17. ASSUME NEW m \in Sends, SendMessage(m) PROVE OnceInv'
    BY <1>17 DEF SendMessage
  <1>18. ASSUME NEW m \in Sends, SendGone(m) PROVE OnceInv'
    BY <1>18 DEF SendGone
  <1>19. CASE Crash
    BY <1>19 DEF Crash
  <1> QED
    BY <1>1, <1>2, <1>3, <1>4, <1>5, <1>6, <1>7, <1>8, <1>9, <1>10, <1>11, <1>12,
       <1>13, <1>14, <1>15, <1>16, <1>17, <1>18, <1>19, Zenon DEF Next, ServerStep, ReadLoop

\* For any number of messages, connections, failures and crashes, every state has the
\* inductive invariant: at each step of the handler, what is stored and what the server
\* was told (src/src/client.rs:1733-1786, 1992-2004).
THEOREM Invariance == Spec => []IInv
  <1>1. Init => IInv
    <2> SUFFICES ASSUME Init PROVE IInv
      OBVIOUS
    <2>1. TypeOK
      BY TypeInit
    <2> QED
      BY <2>1 DEF Init, IInv, StoreInv, CursorHasBody, HandledIsStored, LoadedIsStored,
         HeldBackIsStored, ToldIsStored, FramesGenuine, OfflineIsIdle, LoadedIsAll,
         StoredIsAnnounced, OnceInv, ToldIsKnown, PushIsKnown, InFlightIsFresh, InFlightOnce,
         Handling, AtMostOneEvent
  <1>2. IInv /\ [Next]_vars => IInv'
    <2>1. ASSUME IInv, Next PROVE IInv'
      <3>1. TypeOK'
        BY <2>1, TypeStep DEF IInv
      <3>2. StoreInv'
        BY <2>1, StoreInvStep DEF IInv
      <3>3. FramesGenuine'
        BY <2>1, GenuineStep DEF IInv
      <3>4. OfflineIsIdle' /\ LoadedIsAll'
        BY <2>1, OfflineStep DEF IInv
      <3>5. StoredIsAnnounced'
        BY <2>1, AnnouncedStep DEF IInv
      <3>6. OnceInv'
        BY <2>1, OnceStep DEF OnceInv
      <3> QED
        BY <3>1, <3>2, <3>3, <3>4, <3>5, <3>6 DEF IInv
    <2>2. ASSUME IInv, UNCHANGED vars PROVE IInv'
      <3>1. TypeOK'
        BY <2>2, TypeStep DEF IInv
      <3> QED
        BY <2>2, <3>1 DEF vars, serverVars, clientVars, storeVars, history, IInv,
           StoreInv, CursorHasBody, HandledIsStored, LoadedIsStored, HeldBackIsStored,
           ToldIsStored, FramesGenuine, Genuine, OfflineIsIdle, LoadedIsAll,
           StoredIsAnnounced, OnceInv, ToldIsKnown, PushIsKnown, InFlightIsFresh, InFlightOnce,
           Handling, Fresh, IsPush, AtMostOneEvent
    <2> QED
      BY <2>1, <2>2
  <1> QED
    BY <1>1, <1>2, PTL DEF Spec

\* The server holds a message back only when its body and its cursor are stored:
\* persist_message() comes before the acknowledgement, and a login reports only
\* what the store holds (src/src/client.rs:1739-1754, 1652-1680).
THEOREM HeldBackStored == Spec => []HeldBackIsStored
  <1>1. IInv => HeldBackIsStored
    BY DEF IInv, StoreInv
  <1> QED
    BY Invariance, <1>1, PTL

\* A saved cursor has its message saved with it: save_cursor() runs only after
\* save_message() succeeded (src/src/client.rs:1992-2004).
THEOREM CursorsHaveBodies == Spec => []CursorHasBody
  <1>1. IInv => CursorHasBody
    BY DEF IInv, StoreInv
  <1> QED
    BY Invariance, <1>1, PTL

\* Nobody is told of a message before it is stored (src/src/client.rs:1756, 1775).
THEOREM ToldStored == Spec => []ToldIsStored
  <1>1. IInv => ToldIsStored
    BY DEF IInv, StoreInv
  <1> QED
    BY Invariance, <1>1, PTL

\* A cursor that is saved was announced, unless a stop of the client or a failure
\* of the store came between (src/src/client.rs:1740-1756).
THEOREM StoredAnnounced == Spec => []StoredIsAnnounced
  <1>1. IInv => StoredIsAnnounced
    BY DEF IInv
  <1> QED
    BY Invariance, <1>1, PTL

\* No subscriber gets a message twice that the server did not push twice on one
\* connection, through any number of reconnects and crashes: the cursors reported
\* at login (src/src/client.rs:1652-1680) are the only guard.
THEOREM AnnouncedOnce == Spec => []AtMostOneEvent
  <1>1. IInv => AtMostOneEvent
    BY DEF IInv, OnceInv
  <1> QED
    BY Invariance, <1>1, PTL

\* Every step of the message path is a step of DurableInbox or leaves it alone.
LEMMA InboxStep == ASSUME IInv, IInv', Next PROVE Inbox!Next \/ UNCHANGED Inbox!vars
  <1> DEFINE Goal == Inbox!Next \/ UNCHANGED Inbox!vars
  <1> USE DEF Goal, Inbox!Next, Inbox!vars, serverVars, clientVars, storeVars, history, IInv,
          TypeOK, ClientType, ServerType, Pcs, Frames
  <1>0. UNCHANGED <<events, sendState>> => UNCHANGED Told
    BY DEF Told
  <1>1. ASSUME NEW m \in Messages, Publish(m) PROVE Goal
    BY <1>0, <1>1 DEF Publish, Inbox!Publish
  <1>2. ASSUME NEW m \in Messages, Push(m) PROVE Goal
    BY <1>0, <1>2 DEF Push, Deliver
  <1>3. ASSUME NEW m \in Sends, AnswerSend(m) PROVE Goal
    BY <1>0, <1>3, MessagesAssumption DEF AnswerSend, Deliver, Inbox!Publish
  <1>4. ASSUME SendError PROVE Goal
    BY <1>0, <1>4 DEF SendError, Deliver
  <1>5. ASSUME ConnectionLost PROVE Goal
    BY <1>0, <1>5 DEF ConnectionLost
  <1>6. ASSUME LoadSeen PROVE Goal
    BY <1>0, <1>6 DEF LoadSeen, Goto
  <1>7. ASSUME Login PROVE Goal
    BY <1>0, <1>7 DEF Login, Goto, Inbox!Report, StoreInv, HeldBackIsStored
  <1>8. ASSUME LoginFails PROVE Goal
    BY <1>0, <1>8 DEF LoginFails, Goto
  <1>9. ASSUME ReadFrame PROVE Goal
    BY <1>0, <1>9 DEF ReadFrame, Goto
  <1>10. ASSUME ReadFails PROVE Goal
    BY <1>0, <1>10 DEF ReadFails, Goto
  <1>11. ASSUME SaveMessage PROVE Goal
    <2>1. bodies' \cap cursors' = bodies \cap cursors
      BY <1>11 DEF SaveMessage, Goto, StoreInv, CursorHasBody
    <2> QED
      BY <1>0, <1>11, <2>1 DEF SaveMessage
  <1>12. ASSUME SaveCursor PROVE Goal
    <2>1. bodies' \cap cursors' = (bodies \cap cursors) \cup {frame.msg}
      BY <1>12 DEF SaveCursor, Goto, StoreInv, HandledIsStored
    <2>2. frame.msg \in published
      BY <1>12 DEF SaveCursor, Goto, FramesGenuine, Genuine, FrameFits
    <2> QED
      BY <1>0, <1>12, <2>1, <2>2 DEF SaveCursor, Inbox!Store
  <1>13. ASSUME StoreFails PROVE Goal
    <2>1. frame.msg \in published
      BY <1>13 DEF StoreFails, FramesGenuine, Genuine, FrameFits
    <2>2. bodies' \cap cursors' \in {bodies \cap cursors, (bodies \cap cursors) \cup {frame.msg}}
      BY <1>13 DEF StoreFails, StoreInv, CursorHasBody, HandledIsStored
    <2> QED
      BY <1>0, <1>13, <2>1, <2>2 DEF StoreFails, Inbox!Store
  <1>14. ASSUME Ack PROVE Goal
    BY <1>0, <1>14 DEF Ack, Goto, Inbox!Report, StoreInv, HeldBackIsStored
  <1>15. ASSUME EmitMessage PROVE Goal
    <2>1. frame.msg \in bodies \cap cursors
      BY <1>15 DEF EmitMessage, Goto, StoreInv, HandledIsStored
    <2>2. \A m \in Messages : events'[m] > 0 <=> events[m] > 0 \/ m = frame.msg
      BY <1>15 DEF EmitMessage, HistoryType, MaxEvents
    <2>3. Told' = Told \cup {frame.msg}
      BY <1>15, <2>2 DEF EmitMessage, Told
    <2> QED
      BY <1>15, <2>1, <2>3 DEF EmitMessage, Inbox!Tell
  <1>16. ASSUME Resolve PROVE Goal
    <2>1. CASE UNCHANGED Told
      BY <1>16, <2>1 DEF Resolve
    <2>2. CASE Told' # Told
      <3>1. pc = "resolve" /\ Told' = Told \cup {frame.msg}
        BY <1>16, <2>2 DEF Resolve, Told
      <3>2. frame.msg \in bodies \cap cursors
        BY <3>1 DEF StoreInv, HandledIsStored
      <3> QED
        BY <1>16, <3>1, <3>2 DEF Resolve, Inbox!Tell
    <2> QED
      BY <2>1, <2>2
  <1>17. ASSUME NEW m \in Sends, SendMessage(m) PROVE Goal
    <2>1. Told' = Told
      BY <1>17 DEF SendMessage, Told
    <2> QED
      BY <1>17, <2>1 DEF SendMessage
  <1>18. ASSUME NEW m \in Sends, SendGone(m) PROVE Goal
    <2>1. Told' = Told
      BY <1>18 DEF SendGone, Told
    <2> QED
      BY <1>18, <2>1 DEF SendGone
  <1>19. ASSUME Crash PROVE Goal
    <2>1. Told' = Told
      BY <1>19 DEF Crash, Told
    <2> QED
      BY <1>19, <2>1 DEF Crash
  <1> QED
    BY <1>1, <1>2, <1>3, <1>4, <1>5, <1>6, <1>7, <1>8, <1>9, <1>10, <1>11, <1>12,
       <1>13, <1>14, <1>15, <1>16, <1>17, <1>18, <1>19, Zenon DEF Next, ServerStep, ReadLoop

\* The message path implements DurableInbox: whatever connections, failures of the
\* store and crashes come between, the server never holds back, and the application never
\* hears of, what is not stored (src/src/client.rs:1733-1786, 1992-2004).
THEOREM InboxImplemented == Spec => ImplementsInbox
  <1>1. Init => Inbox!Init
    BY DEF Init, Inbox!Init, Told
  <1>2. IInv /\ IInv' /\ [Next]_vars => [Inbox!Next]_Inbox!vars
    <2>1. ASSUME IInv, IInv', Next PROVE Inbox!Next \/ UNCHANGED Inbox!vars
      BY <2>1, InboxStep
    <2>2. UNCHANGED vars => UNCHANGED Inbox!vars
      BY DEF vars, serverVars, clientVars, storeVars, history, Inbox!vars, Told
    <2> QED
      BY <2>1, <2>2
  <1> QED
    BY Invariance, <1>1, <1>2, PTL DEF Spec, ImplementsInbox, Inbox!Spec
=============================================================================
