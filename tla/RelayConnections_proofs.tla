------------------------ MODULE RelayConnections_proofs ------------------------
(* The safety of the table of relay connections, for any number of calls   *)
(* and of frames from peers.                                               *)
EXTENDS RelayConnections, TLAPS

USE BoundsAssumption, NamesAssumption

\* The first state satisfies the invariant.
LEMMA Start == Init => IInv
  <1> SUFFICES ASSUME Init PROVE IInv
    OBVIOUS
  <1> USE DEF Init, Conns, Ids
  <1>1. TypeOK
    BY DEF TypeOK, States, Closers, ConnectPcs, Handlers
  <1>2. Fresh /\ Begun /\ ClosedByOne
    BY DEF Fresh, Begun, ClosedByOne, Opens
  <1>3. OwnEntries /\ DoneIsGone
    BY DEF OwnEntries, DoneIsGone
  <1>4. ClosingIsGiven /\ FailedLeavesNothing
    BY DEF ClosingIsGiven, FailedLeavesNothing
  <1> QED
    BY <1>1, <1>2, <1>3, <1>4 DEF IInv

\* Every step keeps the types.
LEMMA TypeStep == ASSUME IInv, Next PROVE TypeOK'
  <1> USE DEF IInv, TypeOK, States, Closers, ConnectPcs, Handlers, Conns, connVars,
              callVars, appVars, Opens, Ids
  <1>1. ASSUME NEW c \in Calls, ConnectRefused(c) PROVE TypeOK'
    BY <1>1 DEF ConnectRefused, At
  <1>2. ASSUME NEW c \in Calls, Connect(c) PROVE TypeOK'
    BY <1>2 DEF Connect, At
  <1>3. ASSUME NEW c \in Calls, OpenReaches(c) PROVE TypeOK'
    BY <1>3 DEF OpenReaches
  <1>4. ASSUME NEW c \in Calls, OpenSent(c) PROVE TypeOK'
    BY <1>4 DEF OpenSent, At
  <1>5. ASSUME NEW c \in Calls, OpenFails(c) PROVE TypeOK'
    BY <1>5 DEF OpenFails, At, Forget
  <1>6. ASSUME NEW c \in Calls, Arm(c) PROVE TypeOK'
    BY <1>6 DEF Arm, At
  <1>7. ASSUME NEW c \in Calls, ConnectOk(c) PROVE TypeOK'
    BY <1>7 DEF ConnectOk, At
  <1>8. ASSUME NEW c \in Calls, OpenTimeout(c) PROVE TypeOK'
    BY <1>8 DEF OpenTimeout, At, BeginClose
  <1>9. ASSUME NEW c \in Calls, ConnectFails(c) PROVE TypeOK'
    BY <1>9 DEF ConnectFails, At
  <1>10. ASSUME NEW c \in Calls, ConnectDropped(c) PROVE TypeOK'
    BY <1>10 DEF ConnectDropped
  <1>11. ASSUME NEW i \in Ids, NEW kind \in {"ack", "close"}, Find(kind, i) PROVE TypeOK'
    BY <1>11 DEF Find, Handle
  <1>12. ASSUME NEW i \in OpenIds \cup reached, AcceptIncoming(i) PROVE TypeOK'
    BY <1>12 DEF AcceptIncoming, Handle
  <1>13. ASSUME NEW h \in handlers, HandleOpenAck(h) PROVE TypeOK'
    BY <1>13 DEF HandleOpenAck, Handled
  <1>14. ASSUME NEW h \in handlers, HandleClose(h) PROVE TypeOK'
    BY <1>14 DEF HandleClose, BeginClose, Handled
  <1>15. ASSUME NEW h \in handlers, CallHandler(h) PROVE TypeOK'
    BY <1>15 DEF CallHandler, Handled
  <1>15a. ASSUME NEW h \in handlers, SpawnLoop(h) PROVE TypeOK'
    BY <1>15a DEF SpawnLoop
  <1>16. ASSUME NEW h \in handlers, Reject(h) PROVE TypeOK'
    BY <1>16 DEF Reject, BeginClose, Handled
  <1>17. ASSUME NEW c \in Conns, RunCallbacks(c) PROVE TypeOK'
    BY <1>17 DEF RunCallbacks
  <1>18. ASSUME NEW c \in Conns, Remove(c) PROVE TypeOK'
    BY <1>18 DEF Remove, Forget
  <1>19. ASSUME NEW c \in Conns, CloserDropped(c) PROVE TypeOK'
    BY <1>19 DEF CloserDropped
  <1>20. ASSUME NEW c \in Conns, OnClose(c) PROVE TypeOK'
    BY <1>20 DEF OnClose
  <1>21. ASSUME NEW c \in Conns, Close(c) PROVE TypeOK'
    BY <1>21 DEF Close
  <1>22. ASSUME NEW c \in Conns, FinishClose(c) PROVE TypeOK'
    BY <1>22 DEF FinishClose, BeginClose
  <1>23. ASSUME NEW c \in Conns, CloseDropped(c) PROVE TypeOK'
    BY <1>23 DEF CloseDropped
  <1>24. ASSUME NEW c \in Conns, Abort(c) PROVE TypeOK'
    BY <1>24 DEF Abort, BeginClose
  <1>25. ASSUME NEW c \in Conns, LoopCloses(c) PROVE TypeOK'
    BY <1>25 DEF LoopCloses, BeginClose
  <1>26. ASSUME NEW c \in Calls, ConnectStep(c) PROVE TypeOK'
    BY <1>26, <1>1, <1>2, <1>3, <1>4, <1>5, <1>6, <1>7, <1>8, <1>9, <1>10 DEF ConnectStep
  <1>27. ASSUME NEW h \in handlers, FrameStep(h) PROVE TypeOK'
    BY <1>27, <1>13, <1>14, <1>15, <1>16, <1>15a DEF FrameStep
  <1>28. ASSUME NEW c \in Conns, CloserStep(c) \/ AppStep(c) PROVE TypeOK'
    BY <1>28, <1>17, <1>18, <1>20, <1>21, <1>22, <1>23, <1>24 DEF CloserStep, AppStep
  <1> QED
    BY <1>11, <1>12, <1>19, <1>25, <1>26, <1>27, <1>28 DEF Next

\* What has not begun leaves no trace.
LEMMA FreshStep == ASSUME IInv, Next PROVE Fresh'
  <1> USE DEF IInv, TypeOK, States, Closers, ConnectPcs, Handlers, Conns, connVars,
              callVars, appVars, Fresh, Begun
  <1>1. ASSUME NEW c \in Calls, ConnectRefused(c) PROVE Fresh'
    BY <1>1 DEF ConnectRefused, At
  <1>2. ASSUME NEW c \in Calls, Connect(c) PROVE Fresh'
    BY <1>2 DEF Connect, At
  <1>3. ASSUME NEW c \in Calls, OpenReaches(c) PROVE Fresh'
    BY <1>3 DEF OpenReaches
  <1>4. ASSUME NEW c \in Calls, OpenSent(c) PROVE Fresh'
    BY <1>4 DEF OpenSent, At
  <1>5. ASSUME NEW c \in Calls, OpenFails(c) PROVE Fresh'
    BY <1>5 DEF OpenFails, At, Forget
  <1>6. ASSUME NEW c \in Calls, Arm(c) PROVE Fresh'
    BY <1>6 DEF Arm, At
  <1>7. ASSUME NEW c \in Calls, ConnectOk(c) PROVE Fresh'
    BY <1>7 DEF ConnectOk, At
  <1>8. ASSUME NEW c \in Calls, OpenTimeout(c) PROVE Fresh'
    BY <1>8 DEF OpenTimeout, At, BeginClose
  <1>9. ASSUME NEW c \in Calls, ConnectFails(c) PROVE Fresh'
    BY <1>9 DEF ConnectFails, At
  <1>10. ASSUME NEW c \in Calls, ConnectDropped(c) PROVE Fresh'
    BY <1>10 DEF ConnectDropped
  <1>11. ASSUME NEW i \in Ids, NEW kind \in {"ack", "close"}, Find(kind, i) PROVE Fresh'
    BY <1>11 DEF Find, Handle
  <1>12. ASSUME NEW i \in OpenIds \cup reached, AcceptIncoming(i) PROVE Fresh'
    BY <1>12 DEF AcceptIncoming, Handle, Opens
  <1>13. ASSUME NEW h \in handlers, HandleOpenAck(h) PROVE Fresh'
    BY <1>13 DEF HandleOpenAck, Handled
  <1>14. ASSUME NEW h \in handlers, HandleClose(h) PROVE Fresh'
    BY <1>14 DEF HandleClose, BeginClose, Handled
  <1>15. ASSUME NEW h \in handlers, CallHandler(h) PROVE Fresh'
    BY <1>15 DEF CallHandler, Handled
  <1>15a. ASSUME NEW h \in handlers, SpawnLoop(h) PROVE Fresh'
    BY <1>15a DEF SpawnLoop
  <1>16. ASSUME NEW h \in handlers, Reject(h) PROVE Fresh'
    BY <1>16 DEF Reject, BeginClose, Handled
  <1>17. ASSUME NEW c \in Conns, RunCallbacks(c) PROVE Fresh'
    BY <1>17 DEF RunCallbacks
  <1>18. ASSUME NEW c \in Conns, Remove(c) PROVE Fresh'
    BY <1>18 DEF Remove, Forget
  <1>19. ASSUME NEW c \in Conns, CloserDropped(c) PROVE Fresh'
    BY <1>19 DEF CloserDropped
  <1>20. ASSUME NEW c \in Conns, OnClose(c) PROVE Fresh'
    BY <1>20 DEF OnClose
  <1>21. ASSUME NEW c \in Conns, Close(c) PROVE Fresh'
    BY <1>21 DEF Close
  <1>22. ASSUME NEW c \in Conns, FinishClose(c) PROVE Fresh'
    BY <1>22 DEF FinishClose, BeginClose
  <1>23. ASSUME NEW c \in Conns, CloseDropped(c) PROVE Fresh'
    BY <1>23 DEF CloseDropped
  <1>24. ASSUME NEW c \in Conns, Abort(c) PROVE Fresh'
    BY <1>24 DEF Abort, BeginClose
  <1>25. ASSUME NEW c \in Conns, LoopCloses(c) PROVE Fresh'
    BY <1>25 DEF LoopCloses, BeginClose
  <1>26. ASSUME NEW c \in Calls, ConnectStep(c) PROVE Fresh'
    BY <1>26, <1>1, <1>2, <1>3, <1>4, <1>5, <1>6, <1>7, <1>8, <1>9, <1>10 DEF ConnectStep
  <1>27. ASSUME NEW h \in handlers, FrameStep(h) PROVE Fresh'
    BY <1>27, <1>13, <1>14, <1>15, <1>16, <1>15a DEF FrameStep
  <1>28. ASSUME NEW c \in Conns, CloserStep(c) \/ AppStep(c) PROVE Fresh'
    BY <1>28, <1>17, <1>18, <1>20, <1>21, <1>22, <1>23, <1>24 DEF CloserStep, AppStep
  <1> QED
    BY <1>11, <1>12, <1>19, <1>25, <1>26, <1>27, <1>28 DEF Next

\* Entries, frames and loops are those of connections that have begun.
LEMMA BegunStep == ASSUME IInv, Next PROVE Begun'
  <1> USE DEF IInv, TypeOK, States, Closers, ConnectPcs, Handlers, Conns, connVars,
              callVars, appVars, Begun
  <1>1. ASSUME NEW c \in Calls, ConnectRefused(c) PROVE Begun'
    BY <1>1 DEF ConnectRefused, At
  <1>2. ASSUME NEW c \in Calls, Connect(c) PROVE Begun'
    BY <1>2 DEF Connect, At
  <1>3. ASSUME NEW c \in Calls, OpenReaches(c) PROVE Begun'
    BY <1>3 DEF OpenReaches
  <1>4. ASSUME NEW c \in Calls, OpenSent(c) PROVE Begun'
    BY <1>4 DEF OpenSent, At
  <1>5. ASSUME NEW c \in Calls, OpenFails(c) PROVE Begun'
    BY <1>5 DEF OpenFails, At, Forget
  <1>6. ASSUME NEW c \in Calls, Arm(c) PROVE Begun'
    BY <1>6 DEF Arm, At
  <1>7. ASSUME NEW c \in Calls, ConnectOk(c) PROVE Begun'
    BY <1>7 DEF ConnectOk, At
  <1>8. ASSUME NEW c \in Calls, OpenTimeout(c) PROVE Begun'
    BY <1>8 DEF OpenTimeout, At, BeginClose
  <1>9. ASSUME NEW c \in Calls, ConnectFails(c) PROVE Begun'
    BY <1>9 DEF ConnectFails, At
  <1>10. ASSUME NEW c \in Calls, ConnectDropped(c) PROVE Begun'
    BY <1>10 DEF ConnectDropped
  <1>11. ASSUME NEW i \in Ids, NEW kind \in {"ack", "close"}, Find(kind, i) PROVE Begun'
    BY <1>11 DEF Find, Handle, Ids
  <1>12. ASSUME NEW i \in OpenIds \cup reached, AcceptIncoming(i) PROVE Begun'
    BY <1>12 DEF AcceptIncoming, Handle, Opens, Ids
  <1>13. ASSUME NEW h \in handlers, HandleOpenAck(h) PROVE Begun'
    BY <1>13 DEF HandleOpenAck, Handled
  <1>14. ASSUME NEW h \in handlers, HandleClose(h) PROVE Begun'
    BY <1>14 DEF HandleClose, BeginClose, Handled
  <1>15. ASSUME NEW h \in handlers, CallHandler(h) PROVE Begun'
    BY <1>15 DEF CallHandler, Handled
  <1>15a. ASSUME NEW h \in handlers, SpawnLoop(h) PROVE Begun'
    BY <1>15a DEF SpawnLoop
  <1>16. ASSUME NEW h \in handlers, Reject(h) PROVE Begun'
    BY <1>16 DEF Reject, BeginClose, Handled
  <1>17. ASSUME NEW c \in Conns, RunCallbacks(c) PROVE Begun'
    BY <1>17 DEF RunCallbacks
  <1>18. ASSUME NEW c \in Conns, Remove(c) PROVE Begun'
    BY <1>18 DEF Remove, Forget
  <1>19. ASSUME NEW c \in Conns, CloserDropped(c) PROVE Begun'
    BY <1>19 DEF CloserDropped
  <1>20. ASSUME NEW c \in Conns, OnClose(c) PROVE Begun'
    BY <1>20 DEF OnClose
  <1>21. ASSUME NEW c \in Conns, Close(c) PROVE Begun'
    BY <1>21 DEF Close
  <1>22. ASSUME NEW c \in Conns, FinishClose(c) PROVE Begun'
    BY <1>22 DEF FinishClose, BeginClose
  <1>23. ASSUME NEW c \in Conns, CloseDropped(c) PROVE Begun'
    BY <1>23 DEF CloseDropped
  <1>24. ASSUME NEW c \in Conns, Abort(c) PROVE Begun'
    BY <1>24 DEF Abort, BeginClose
  <1>25. ASSUME NEW c \in Conns, LoopCloses(c) PROVE Begun'
    BY <1>25 DEF LoopCloses, BeginClose
  <1>26. ASSUME NEW c \in Calls, ConnectStep(c) PROVE Begun'
    BY <1>26, <1>1, <1>2, <1>3, <1>4, <1>5, <1>6, <1>7, <1>8, <1>9, <1>10 DEF ConnectStep
  <1>27. ASSUME NEW h \in handlers, FrameStep(h) PROVE Begun'
    BY <1>27, <1>13, <1>14, <1>15, <1>16, <1>15a DEF FrameStep
  <1>28. ASSUME NEW c \in Conns, CloserStep(c) \/ AppStep(c) PROVE Begun'
    BY <1>28, <1>17, <1>18, <1>20, <1>21, <1>22, <1>23, <1>24 DEF CloserStep, AppStep
  <1> QED
    BY <1>11, <1>12, <1>19, <1>25, <1>26, <1>27, <1>28 DEF Next

\* Closing is begun by one handle_close().
LEMMA ClosedStep == ASSUME IInv, Next PROVE ClosedByOne'
  <1> USE DEF IInv, TypeOK, States, Closers, ConnectPcs, Handlers, Conns, connVars,
              callVars, appVars, ClosedByOne, Fresh, Begun
  <1>1. ASSUME NEW c \in Calls, ConnectRefused(c) PROVE ClosedByOne'
    BY <1>1 DEF ConnectRefused, At
  <1>2. ASSUME NEW c \in Calls, Connect(c) PROVE ClosedByOne'
    BY <1>2 DEF Connect, At
  <1>3. ASSUME NEW c \in Calls, OpenReaches(c) PROVE ClosedByOne'
    BY <1>3 DEF OpenReaches
  <1>4. ASSUME NEW c \in Calls, OpenSent(c) PROVE ClosedByOne'
    BY <1>4 DEF OpenSent, At
  <1>5. ASSUME NEW c \in Calls, OpenFails(c) PROVE ClosedByOne'
    BY <1>5 DEF OpenFails, At, Forget
  <1>6. ASSUME NEW c \in Calls, Arm(c) PROVE ClosedByOne'
    BY <1>6 DEF Arm, At
  <1>7. ASSUME NEW c \in Calls, ConnectOk(c) PROVE ClosedByOne'
    BY <1>7 DEF ConnectOk, At
  <1>8. ASSUME NEW c \in Calls, OpenTimeout(c) PROVE ClosedByOne'
    BY <1>8 DEF OpenTimeout, At, BeginClose
  <1>9. ASSUME NEW c \in Calls, ConnectFails(c) PROVE ClosedByOne'
    BY <1>9 DEF ConnectFails, At
  <1>10. ASSUME NEW c \in Calls, ConnectDropped(c) PROVE ClosedByOne'
    BY <1>10 DEF ConnectDropped
  <1>11. ASSUME NEW i \in Ids, NEW kind \in {"ack", "close"}, Find(kind, i) PROVE ClosedByOne'
    BY <1>11 DEF Find, Handle
  <1>12. ASSUME NEW i \in OpenIds \cup reached, AcceptIncoming(i) PROVE ClosedByOne'
    BY <1>12 DEF AcceptIncoming, Handle, Opens
  <1>13. ASSUME NEW h \in handlers, HandleOpenAck(h) PROVE ClosedByOne'
    BY <1>13 DEF HandleOpenAck, Handled
  <1>14. ASSUME NEW h \in handlers, HandleClose(h) PROVE ClosedByOne'
    BY <1>14 DEF HandleClose, BeginClose, Handled
  <1>15. ASSUME NEW h \in handlers, CallHandler(h) PROVE ClosedByOne'
    BY <1>15 DEF CallHandler, Handled
  <1>15a. ASSUME NEW h \in handlers, SpawnLoop(h) PROVE ClosedByOne'
    BY <1>15a DEF SpawnLoop
  <1>16. ASSUME NEW h \in handlers, Reject(h) PROVE ClosedByOne'
    BY <1>16 DEF Reject, BeginClose, Handled
  <1>17. ASSUME NEW c \in Conns, RunCallbacks(c) PROVE ClosedByOne'
    BY <1>17 DEF RunCallbacks
  <1>18. ASSUME NEW c \in Conns, Remove(c) PROVE ClosedByOne'
    BY <1>18 DEF Remove, Forget
  <1>19. ASSUME NEW c \in Conns, CloserDropped(c) PROVE ClosedByOne'
    BY <1>19 DEF CloserDropped
  <1>20. ASSUME NEW c \in Conns, OnClose(c) PROVE ClosedByOne'
    BY <1>20 DEF OnClose
  <1>21. ASSUME NEW c \in Conns, Close(c) PROVE ClosedByOne'
    BY <1>21 DEF Close
  <1>22. ASSUME NEW c \in Conns, FinishClose(c) PROVE ClosedByOne'
    BY <1>22 DEF FinishClose, BeginClose
  <1>23. ASSUME NEW c \in Conns, CloseDropped(c) PROVE ClosedByOne'
    BY <1>23 DEF CloseDropped
  <1>24. ASSUME NEW c \in Conns, Abort(c) PROVE ClosedByOne'
    BY <1>24 DEF Abort, BeginClose
  <1>25. ASSUME NEW c \in Conns, LoopCloses(c) PROVE ClosedByOne'
    BY <1>25 DEF LoopCloses, BeginClose
  <1>26. ASSUME NEW c \in Calls, ConnectStep(c) PROVE ClosedByOne'
    BY <1>26, <1>1, <1>2, <1>3, <1>4, <1>5, <1>6, <1>7, <1>8, <1>9, <1>10 DEF ConnectStep
  <1>27. ASSUME NEW h \in handlers, FrameStep(h) PROVE ClosedByOne'
    BY <1>27, <1>13, <1>14, <1>15, <1>16, <1>15a DEF FrameStep
  <1>28. ASSUME NEW c \in Conns, CloserStep(c) \/ AppStep(c) PROVE ClosedByOne'
    BY <1>28, <1>17, <1>18, <1>20, <1>21, <1>22, <1>23, <1>24 DEF CloserStep, AppStep
  <1> QED
    BY <1>11, <1>12, <1>19, <1>25, <1>26, <1>27, <1>28 DEF Next

\* Entries stay under the relay_id of their connection.
LEMMA OwnStep == ASSUME IInv, Next PROVE OwnEntries'
  <1> USE DEF IInv, TypeOK, States, Closers, ConnectPcs, Handlers, Conns, connVars,
              callVars, appVars, OwnEntries, Fresh, Begun
  <1>1. ASSUME NEW c \in Calls, ConnectRefused(c) PROVE OwnEntries'
    BY <1>1 DEF ConnectRefused, At
  <1>2. ASSUME NEW c \in Calls, Connect(c) PROVE OwnEntries'
    BY <1>2 DEF Connect, At
  <1>3. ASSUME NEW c \in Calls, OpenReaches(c) PROVE OwnEntries'
    BY <1>3 DEF OpenReaches
  <1>4. ASSUME NEW c \in Calls, OpenSent(c) PROVE OwnEntries'
    BY <1>4 DEF OpenSent, At
  <1>5. ASSUME NEW c \in Calls, OpenFails(c) PROVE OwnEntries'
    BY <1>5 DEF OpenFails, At, Forget
  <1>6. ASSUME NEW c \in Calls, Arm(c) PROVE OwnEntries'
    BY <1>6 DEF Arm, At
  <1>7. ASSUME NEW c \in Calls, ConnectOk(c) PROVE OwnEntries'
    BY <1>7 DEF ConnectOk, At
  <1>8. ASSUME NEW c \in Calls, OpenTimeout(c) PROVE OwnEntries'
    BY <1>8 DEF OpenTimeout, At, BeginClose
  <1>9. ASSUME NEW c \in Calls, ConnectFails(c) PROVE OwnEntries'
    BY <1>9 DEF ConnectFails, At
  <1>10. ASSUME NEW c \in Calls, ConnectDropped(c) PROVE OwnEntries'
    BY <1>10 DEF ConnectDropped
  <1>11. ASSUME NEW i \in Ids, NEW kind \in {"ack", "close"}, Find(kind, i) PROVE OwnEntries'
    BY <1>11 DEF Find, Handle
  <1>12. ASSUME NEW i \in OpenIds \cup reached, AcceptIncoming(i) PROVE OwnEntries'
    BY <1>12 DEF AcceptIncoming, Handle, Opens, Ids
  <1>13. ASSUME NEW h \in handlers, HandleOpenAck(h) PROVE OwnEntries'
    BY <1>13 DEF HandleOpenAck, Handled
  <1>14. ASSUME NEW h \in handlers, HandleClose(h) PROVE OwnEntries'
    BY <1>14 DEF HandleClose, BeginClose, Handled
  <1>15. ASSUME NEW h \in handlers, CallHandler(h) PROVE OwnEntries'
    BY <1>15 DEF CallHandler, Handled
  <1>15a. ASSUME NEW h \in handlers, SpawnLoop(h) PROVE OwnEntries'
    BY <1>15a DEF SpawnLoop
  <1>16. ASSUME NEW h \in handlers, Reject(h) PROVE OwnEntries'
    BY <1>16 DEF Reject, BeginClose, Handled
  <1>17. ASSUME NEW c \in Conns, RunCallbacks(c) PROVE OwnEntries'
    BY <1>17 DEF RunCallbacks
  <1>18. ASSUME NEW c \in Conns, Remove(c) PROVE OwnEntries'
    BY <1>18 DEF Remove, Forget
  <1>19. ASSUME NEW c \in Conns, CloserDropped(c) PROVE OwnEntries'
    BY <1>19 DEF CloserDropped
  <1>20. ASSUME NEW c \in Conns, OnClose(c) PROVE OwnEntries'
    BY <1>20 DEF OnClose
  <1>21. ASSUME NEW c \in Conns, Close(c) PROVE OwnEntries'
    BY <1>21 DEF Close
  <1>22. ASSUME NEW c \in Conns, FinishClose(c) PROVE OwnEntries'
    BY <1>22 DEF FinishClose, BeginClose
  <1>23. ASSUME NEW c \in Conns, CloseDropped(c) PROVE OwnEntries'
    BY <1>23 DEF CloseDropped
  <1>24. ASSUME NEW c \in Conns, Abort(c) PROVE OwnEntries'
    BY <1>24 DEF Abort, BeginClose
  <1>25. ASSUME NEW c \in Conns, LoopCloses(c) PROVE OwnEntries'
    BY <1>25 DEF LoopCloses, BeginClose
  <1>26. ASSUME NEW c \in Calls, ConnectStep(c) PROVE OwnEntries'
    BY <1>26, <1>1, <1>2, <1>3, <1>4, <1>5, <1>6, <1>7, <1>8, <1>9, <1>10 DEF ConnectStep
  <1>27. ASSUME NEW h \in handlers, FrameStep(h) PROVE OwnEntries'
    BY <1>27, <1>13, <1>14, <1>15, <1>16, <1>15a DEF FrameStep
  <1>28. ASSUME NEW c \in Conns, CloserStep(c) \/ AppStep(c) PROVE OwnEntries'
    BY <1>28, <1>17, <1>18, <1>20, <1>21, <1>22, <1>23, <1>24 DEF CloserStep, AppStep
  <1> QED
    BY <1>11, <1>12, <1>19, <1>25, <1>26, <1>27, <1>28 DEF Next

\* What was removed stays removed.
LEMMA DoneStep == ASSUME IInv, Next PROVE DoneIsGone'
  <1> USE DEF IInv, TypeOK, States, Closers, ConnectPcs, Handlers, Conns, connVars,
              callVars, appVars, DoneIsGone, OwnEntries, ClosedByOne, Fresh, Begun
  <1>1. ASSUME NEW c \in Calls, ConnectRefused(c) PROVE DoneIsGone'
    BY <1>1 DEF ConnectRefused, At
  <1>2. ASSUME NEW c \in Calls, Connect(c) PROVE DoneIsGone'
    BY <1>2 DEF Connect, At
  <1>3. ASSUME NEW c \in Calls, OpenReaches(c) PROVE DoneIsGone'
    BY <1>3 DEF OpenReaches
  <1>4. ASSUME NEW c \in Calls, OpenSent(c) PROVE DoneIsGone'
    BY <1>4 DEF OpenSent, At
  <1>5. ASSUME NEW c \in Calls, OpenFails(c) PROVE DoneIsGone'
    BY <1>5 DEF OpenFails, At, Forget
  <1>6. ASSUME NEW c \in Calls, Arm(c) PROVE DoneIsGone'
    BY <1>6 DEF Arm, At
  <1>7. ASSUME NEW c \in Calls, ConnectOk(c) PROVE DoneIsGone'
    BY <1>7 DEF ConnectOk, At
  <1>8. ASSUME NEW c \in Calls, OpenTimeout(c) PROVE DoneIsGone'
    BY <1>8 DEF OpenTimeout, At, BeginClose
  <1>9. ASSUME NEW c \in Calls, ConnectFails(c) PROVE DoneIsGone'
    BY <1>9 DEF ConnectFails, At
  <1>10. ASSUME NEW c \in Calls, ConnectDropped(c) PROVE DoneIsGone'
    BY <1>10 DEF ConnectDropped
  <1>11. ASSUME NEW i \in Ids, NEW kind \in {"ack", "close"}, Find(kind, i) PROVE DoneIsGone'
    BY <1>11 DEF Find, Handle
  <1>12. ASSUME NEW i \in OpenIds \cup reached, AcceptIncoming(i) PROVE DoneIsGone'
    BY <1>12 DEF AcceptIncoming, Handle, Opens, Ids
  <1>13. ASSUME NEW h \in handlers, HandleOpenAck(h) PROVE DoneIsGone'
    BY <1>13 DEF HandleOpenAck, Handled
  <1>14. ASSUME NEW h \in handlers, HandleClose(h) PROVE DoneIsGone'
    BY <1>14 DEF HandleClose, BeginClose, Handled
  <1>15. ASSUME NEW h \in handlers, CallHandler(h) PROVE DoneIsGone'
    BY <1>15 DEF CallHandler, Handled
  <1>15a. ASSUME NEW h \in handlers, SpawnLoop(h) PROVE DoneIsGone'
    BY <1>15a DEF SpawnLoop
  <1>16. ASSUME NEW h \in handlers, Reject(h) PROVE DoneIsGone'
    BY <1>16 DEF Reject, BeginClose, Handled
  <1>17. ASSUME NEW c \in Conns, RunCallbacks(c) PROVE DoneIsGone'
    BY <1>17 DEF RunCallbacks
  <1>18. ASSUME NEW c \in Conns, Remove(c) PROVE DoneIsGone'
    BY <1>18 DEF Remove, Forget
  <1>19. ASSUME NEW c \in Conns, CloserDropped(c) PROVE DoneIsGone'
    BY <1>19 DEF CloserDropped
  <1>20. ASSUME NEW c \in Conns, OnClose(c) PROVE DoneIsGone'
    BY <1>20 DEF OnClose
  <1>21. ASSUME NEW c \in Conns, Close(c) PROVE DoneIsGone'
    BY <1>21 DEF Close
  <1>22. ASSUME NEW c \in Conns, FinishClose(c) PROVE DoneIsGone'
    BY <1>22 DEF FinishClose, BeginClose
  <1>23. ASSUME NEW c \in Conns, CloseDropped(c) PROVE DoneIsGone'
    BY <1>23 DEF CloseDropped
  <1>24. ASSUME NEW c \in Conns, Abort(c) PROVE DoneIsGone'
    BY <1>24 DEF Abort, BeginClose
  <1>25. ASSUME NEW c \in Conns, LoopCloses(c) PROVE DoneIsGone'
    BY <1>25 DEF LoopCloses, BeginClose
  <1>26. ASSUME NEW c \in Calls, ConnectStep(c) PROVE DoneIsGone'
    BY <1>26, <1>1, <1>2, <1>3, <1>4, <1>5, <1>6, <1>7, <1>8, <1>9, <1>10 DEF ConnectStep
  <1>27. ASSUME NEW h \in handlers, FrameStep(h) PROVE DoneIsGone'
    BY <1>27, <1>13, <1>14, <1>15, <1>16, <1>15a DEF FrameStep
  <1>28. ASSUME NEW c \in Conns, CloserStep(c) \/ AppStep(c) PROVE DoneIsGone'
    BY <1>28, <1>17, <1>18, <1>20, <1>21, <1>22, <1>23, <1>24 DEF CloserStep, AppStep
  <1> QED
    BY <1>11, <1>12, <1>19, <1>25, <1>26, <1>27, <1>28 DEF Next

\* Only what was given is closed by the application.
LEMMA GivenStep == ASSUME IInv, Next PROVE ClosingIsGiven'
  <1> USE DEF IInv, TypeOK, States, Closers, ConnectPcs, Handlers, Conns, connVars,
              callVars, appVars, ClosingIsGiven, ClosedByOne, Fresh, Begun
  <1>1. ASSUME NEW c \in Calls, ConnectRefused(c) PROVE ClosingIsGiven'
    BY <1>1 DEF ConnectRefused, At
  <1>2. ASSUME NEW c \in Calls, Connect(c) PROVE ClosingIsGiven'
    BY <1>2 DEF Connect, At
  <1>3. ASSUME NEW c \in Calls, OpenReaches(c) PROVE ClosingIsGiven'
    BY <1>3 DEF OpenReaches
  <1>4. ASSUME NEW c \in Calls, OpenSent(c) PROVE ClosingIsGiven'
    BY <1>4 DEF OpenSent, At
  <1>5. ASSUME NEW c \in Calls, OpenFails(c) PROVE ClosingIsGiven'
    BY <1>5 DEF OpenFails, At, Forget
  <1>6. ASSUME NEW c \in Calls, Arm(c) PROVE ClosingIsGiven'
    BY <1>6 DEF Arm, At
  <1>7. ASSUME NEW c \in Calls, ConnectOk(c) PROVE ClosingIsGiven'
    BY <1>7 DEF ConnectOk, At
  <1>8. ASSUME NEW c \in Calls, OpenTimeout(c) PROVE ClosingIsGiven'
    BY <1>8 DEF OpenTimeout, At, BeginClose
  <1>9. ASSUME NEW c \in Calls, ConnectFails(c) PROVE ClosingIsGiven'
    BY <1>9 DEF ConnectFails, At
  <1>10. ASSUME NEW c \in Calls, ConnectDropped(c) PROVE ClosingIsGiven'
    BY <1>10 DEF ConnectDropped
  <1>11. ASSUME NEW i \in Ids, NEW kind \in {"ack", "close"}, Find(kind, i) PROVE ClosingIsGiven'
    BY <1>11 DEF Find, Handle
  <1>12. ASSUME NEW i \in OpenIds \cup reached, AcceptIncoming(i) PROVE ClosingIsGiven'
    BY <1>12 DEF AcceptIncoming, Handle, Opens
  <1>13. ASSUME NEW h \in handlers, HandleOpenAck(h) PROVE ClosingIsGiven'
    BY <1>13 DEF HandleOpenAck, Handled
  <1>14. ASSUME NEW h \in handlers, HandleClose(h) PROVE ClosingIsGiven'
    BY <1>14 DEF HandleClose, BeginClose, Handled
  <1>15. ASSUME NEW h \in handlers, CallHandler(h) PROVE ClosingIsGiven'
    BY <1>15 DEF CallHandler, Handled, Opens
  <1>15a. ASSUME NEW h \in handlers, SpawnLoop(h) PROVE ClosingIsGiven'
    BY <1>15a DEF SpawnLoop, Opens
  <1>16. ASSUME NEW h \in handlers, Reject(h) PROVE ClosingIsGiven'
    BY <1>16 DEF Reject, BeginClose, Handled
  <1>17. ASSUME NEW c \in Conns, RunCallbacks(c) PROVE ClosingIsGiven'
    BY <1>17 DEF RunCallbacks
  <1>18. ASSUME NEW c \in Conns, Remove(c) PROVE ClosingIsGiven'
    BY <1>18 DEF Remove, Forget
  <1>19. ASSUME NEW c \in Conns, CloserDropped(c) PROVE ClosingIsGiven'
    BY <1>19 DEF CloserDropped
  <1>20. ASSUME NEW c \in Conns, OnClose(c) PROVE ClosingIsGiven'
    BY <1>20 DEF OnClose
  <1>21. ASSUME NEW c \in Conns, Close(c) PROVE ClosingIsGiven'
    BY <1>21 DEF Close
  <1>22. ASSUME NEW c \in Conns, FinishClose(c) PROVE ClosingIsGiven'
    BY <1>22 DEF FinishClose, BeginClose
  <1>23. ASSUME NEW c \in Conns, CloseDropped(c) PROVE ClosingIsGiven'
    BY <1>23 DEF CloseDropped
  <1>24. ASSUME NEW c \in Conns, Abort(c) PROVE ClosingIsGiven'
    BY <1>24 DEF Abort, BeginClose
  <1>25. ASSUME NEW c \in Conns, LoopCloses(c) PROVE ClosingIsGiven'
    BY <1>25 DEF LoopCloses, BeginClose
  <1>26. ASSUME NEW c \in Calls, ConnectStep(c) PROVE ClosingIsGiven'
    BY <1>26, <1>1, <1>2, <1>3, <1>4, <1>5, <1>6, <1>7, <1>8, <1>9, <1>10 DEF ConnectStep
  <1>27. ASSUME NEW h \in handlers, FrameStep(h) PROVE ClosingIsGiven'
    BY <1>27, <1>13, <1>14, <1>15, <1>16, <1>15a DEF FrameStep
  <1>28. ASSUME NEW c \in Conns, CloserStep(c) \/ AppStep(c) PROVE ClosingIsGiven'
    BY <1>28, <1>17, <1>18, <1>20, <1>21, <1>22, <1>23, <1>24 DEF CloserStep, AppStep
  <1> QED
    BY <1>11, <1>12, <1>19, <1>25, <1>26, <1>27, <1>28 DEF Next

\* A failed connect() leaves nothing behind.
LEMMA FailedStep == ASSUME IInv, Next PROVE FailedLeavesNothing'
  <1> USE DEF IInv, TypeOK, States, Closers, ConnectPcs, Handlers, Conns, connVars,
              callVars, appVars, FailedLeavesNothing, ClosingIsGiven, DoneIsGone,
              ClosedByOne, Fresh, Begun, Ids
  <1>1. ASSUME NEW c \in Calls, ConnectRefused(c) PROVE FailedLeavesNothing'
    BY <1>1 DEF ConnectRefused, At
  <1>2. ASSUME NEW c \in Calls, Connect(c) PROVE FailedLeavesNothing'
    BY <1>2 DEF Connect, At
  <1>3. ASSUME NEW c \in Calls, OpenReaches(c) PROVE FailedLeavesNothing'
    BY <1>3 DEF OpenReaches
  <1>4. ASSUME NEW c \in Calls, OpenSent(c) PROVE FailedLeavesNothing'
    BY <1>4 DEF OpenSent, At
  <1>5. ASSUME NEW c \in Calls, OpenFails(c) PROVE FailedLeavesNothing'
    BY <1>5 DEF OpenFails, At, Forget
  <1>6. ASSUME NEW c \in Calls, Arm(c) PROVE FailedLeavesNothing'
    BY <1>6 DEF Arm, At
  <1>7. ASSUME NEW c \in Calls, ConnectOk(c) PROVE FailedLeavesNothing'
    BY <1>7 DEF ConnectOk, At
  <1>8. ASSUME NEW c \in Calls, OpenTimeout(c) PROVE FailedLeavesNothing'
    BY <1>8 DEF OpenTimeout, At, BeginClose
  <1>9. ASSUME NEW c \in Calls, ConnectFails(c) PROVE FailedLeavesNothing'
    BY <1>9 DEF ConnectFails, At
  <1>10. ASSUME NEW c \in Calls, ConnectDropped(c) PROVE FailedLeavesNothing'
    BY <1>10 DEF ConnectDropped
  <1>11. ASSUME NEW i \in Ids, NEW kind \in {"ack", "close"}, Find(kind, i) PROVE FailedLeavesNothing'
    BY <1>11 DEF Find, Handle
  <1>12. ASSUME NEW i \in OpenIds \cup reached, AcceptIncoming(i) PROVE FailedLeavesNothing'
    BY <1>12 DEF AcceptIncoming, Handle, Opens
  <1>13. ASSUME NEW h \in handlers, HandleOpenAck(h) PROVE FailedLeavesNothing'
    BY <1>13 DEF HandleOpenAck, Handled
  <1>14. ASSUME NEW h \in handlers, HandleClose(h) PROVE FailedLeavesNothing'
    BY <1>14 DEF HandleClose, BeginClose, Handled
  <1>15. ASSUME NEW h \in handlers, CallHandler(h) PROVE FailedLeavesNothing'
    BY <1>15 DEF CallHandler, Handled
  <1>15a. ASSUME NEW h \in handlers, SpawnLoop(h) PROVE FailedLeavesNothing'
    BY <1>15a DEF SpawnLoop
  <1>16. ASSUME NEW h \in handlers, Reject(h) PROVE FailedLeavesNothing'
    BY <1>16 DEF Reject, BeginClose, Handled
  <1>17. ASSUME NEW c \in Conns, RunCallbacks(c) PROVE FailedLeavesNothing'
    BY <1>17 DEF RunCallbacks
  <1>18. ASSUME NEW c \in Conns, Remove(c) PROVE FailedLeavesNothing'
    BY <1>18 DEF Remove, Forget, OwnEntries
  <1>19. ASSUME NEW c \in Conns, CloserDropped(c) PROVE FailedLeavesNothing'
    BY <1>19 DEF CloserDropped
  <1>20. ASSUME NEW c \in Conns, OnClose(c) PROVE FailedLeavesNothing'
    BY <1>20 DEF OnClose
  <1>21. ASSUME NEW c \in Conns, Close(c) PROVE FailedLeavesNothing'
    BY <1>21 DEF Close
  <1>22. ASSUME NEW c \in Conns, FinishClose(c) PROVE FailedLeavesNothing'
    BY <1>22 DEF FinishClose, BeginClose
  <1>23. ASSUME NEW c \in Conns, CloseDropped(c) PROVE FailedLeavesNothing'
    BY <1>23 DEF CloseDropped
  <1>24. ASSUME NEW c \in Conns, Abort(c) PROVE FailedLeavesNothing'
    BY <1>24 DEF Abort, BeginClose
  <1>25. ASSUME NEW c \in Conns, LoopCloses(c) PROVE FailedLeavesNothing'
    BY <1>25 DEF LoopCloses, BeginClose
  <1>26. ASSUME NEW c \in Calls, ConnectStep(c) PROVE FailedLeavesNothing'
    BY <1>26, <1>1, <1>2, <1>3, <1>4, <1>5, <1>6, <1>7, <1>8, <1>9, <1>10 DEF ConnectStep
  <1>27. ASSUME NEW h \in handlers, FrameStep(h) PROVE FailedLeavesNothing'
    BY <1>27, <1>13, <1>14, <1>15, <1>16, <1>15a DEF FrameStep
  <1>28. ASSUME NEW c \in Conns, CloserStep(c) \/ AppStep(c) PROVE FailedLeavesNothing'
    BY <1>28, <1>17, <1>18, <1>20, <1>21, <1>22, <1>23, <1>24 DEF CloserStep, AppStep
  <1> QED
    BY <1>11, <1>12, <1>19, <1>25, <1>26, <1>27, <1>28 DEF Next

\* For any number of calls and frames, every state has the inductive invariant: which
\* connections are listed, and who closes each (src/src/relay.rs:842-899, 1000-1100).
THEOREM Invariance == Spec => []IInv
  <1>1. Init => IInv
    BY Start
  <1>2. IInv /\ [Next]_vars => IInv'
    <2>1. ASSUME IInv, Next PROVE IInv'
      <3>1. TypeOK'
        BY <2>1, TypeStep
      <3>2. Fresh'
        BY <2>1, FreshStep
      <3>3. Begun'
        BY <2>1, BegunStep
      <3>4. ClosedByOne'
        BY <2>1, ClosedStep
      <3>5. OwnEntries'
        BY <2>1, OwnStep
      <3>6. DoneIsGone'
        BY <2>1, DoneStep
      <3>7. ClosingIsGiven'
        BY <2>1, GivenStep
      <3>8. FailedLeavesNothing'
        BY <2>1, FailedStep
      <3> QED
        BY <3>1, <3>2, <3>3, <3>4, <3>5, <3>6, <3>7, <3>8 DEF IInv
    <2>2. ASSUME IInv, UNCHANGED vars PROVE IInv'
      BY <2>2 DEF vars, connVars, callVars, appVars, IInv, TypeOK, Fresh, Begun,
         ClosedByOne, OwnEntries, DoneIsGone, ClosingIsGiven, FailedLeavesNothing
    <2> QED
      BY <2>1, <2>2
  <1> QED
    BY <1>1, <1>2, PTL DEF Spec

\* The type invariant of the relay manager.
THEOREM TypeCorrect == Spec => []TypeOK
  <1>1. IInv => TypeOK
    BY DEF IInv
  <1> QED
    BY Invariance, <1>1, PTL

\* A connect() that failed left no entry, whatever frames came in the meantime:
\* each way out of it removes the connection or closes it (src/src/relay.rs:866-894).
THEOREM FailuresLeaveNothing == Spec => []FailedLeavesNothing
  <1>1. IInv => FailedLeavesNothing
    BY DEF IInv
  <1> QED
    BY Invariance, <1>1, PTL

\* A removed connection is never found again, although remove_connection() goes by
\* the relay_id and a relay_id may be opened again (src/src/relay.rs:985-989).
THEOREM RemovedIsGone == Spec => []DoneIsGone
  <1>1. IInv => DoneIsGone
    BY DEF IInv
  <1> QED
    BY Invariance, <1>1, PTL

\* A step after which the same connections have begun and ended, and the table and the
\* relay_ids are the same, changes nothing that RelayRegistry sees.
LEMMA RegistryRest ==
  ASSUME UNCHANGED <<id, conns>>,
         \A c \in Conns : (state'[c] = "none" <=> state[c] = "none") /\ (Ended(c)' <=> Ended(c))
  PROVE  UNCHANGED Registry!vars
  BY DEF Registry!vars, BegunConns

\* One connection ends, and the table loses at most the entry under its relay_id.
LEMMA OneEnds ==
  ASSUME NEW c \in Conns, state[c] # "none", ~Ended(c), Ended(c)',
         \A d \in Conns : state'[d] = "none" <=> state[d] = "none",
         \A d \in Conns \ {c} : Ended(d)' <=> Ended(d),
         UNCHANGED id, UNCHANGED conns \/ Forget(id[c])
  PROVE  Registry!Next
  <1>1. c \in BegunConns \ {d \in Conns : Ended(d)} /\ BegunConns' = BegunConns
    BY DEF BegunConns
  <1>2. {d \in Conns : Ended(d)}' = {d \in Conns : Ended(d)} \cup {c}
    OBVIOUS
  <1>3. Registry!End(c)
    BY <1>1, <1>2 DEF Registry!End, Registry!Delist, Forget
  <1> QED
    BY <1>3 DEF Registry!Next

\* A connection begins: it is listed if nothing else is under its relay_id.
LEMMA OneBegins ==
  ASSUME NEW c \in Conns, NEW i \in Ids, state[c] = "none", state'[c] # "none", ~Ended(c)',
         \A d \in Conns \ {c} : (state'[d] = "none" <=> state[d] = "none")
                                 /\ (Ended(d)' <=> Ended(d)),
         id' = [id EXCEPT ![c] = i],
         conns' = [conns EXCEPT ![i] = IF @ = None THEN c ELSE @]
  PROVE  Registry!Next
  <1>1. c \notin BegunConns /\ BegunConns' = BegunConns \cup {c}
    BY DEF BegunConns
  <1>2. ~Ended(c)
    BY DEF Ended
  <1>3. {d \in Conns : Ended(d)}' = {d \in Conns : Ended(d)}
    BY <1>2
  <1>4. Registry!Begin(c, i)
    BY <1>1, <1>3 DEF Registry!Begin
  <1> QED
    BY <1>4 DEF Registry!Next

\* A handle_close() of a connection that began ends it, or finds it closed.
LEMMA ClosingEnds ==
  ASSUME TypeOK, NEW c \in Conns, state[c] # "none", BeginClose(c), UNCHANGED <<id, conns>>,
         \A d \in Calls \ {c} : connectPc'[d] = connectPc[d],
         c \in Calls /\ connectPc[c] = "failed" => connectPc'[c] = "failed",
         c \in Calls /\ connectPc[c] # "failed" /\ connectPc'[c] = "failed" =>
           state[c] = "closed"
  PROVE  Registry!Next \/ UNCHANGED Registry!vars
  <1>1. state'[c] = "closed"
    BY DEF BeginClose, TypeOK
  <1>2. \A d \in Conns \ {c} : state'[d] = state[d]
    BY DEF BeginClose, TypeOK
  <1>3. \A d \in Conns : state'[d] = "none" <=> state[d] = "none"
    BY <1>1, <1>2
  <1>4. \A d \in Conns \ {c} : Ended(d)' <=> Ended(d)
    BY <1>2 DEF Ended
  <1>5. Ended(c)'
    BY <1>1 DEF Ended
  <1>6. CASE Ended(c)
    BY <1>3, <1>4, <1>5, <1>6, RegistryRest
  <1>7. CASE ~Ended(c)
    BY <1>3, <1>4, <1>5, <1>7, OneEnds
  <1> QED
    BY <1>6, <1>7

\* The relay_id of a connect() that has not begun is free: only the peer that its OPEN
\* reached can name it.
LEMMA FreshIdIsFree ==
  ASSUME IInv, NEW c \in Calls, connectPc[c] = "idle"
  PROVE  state[c] = "none" /\ conns[c] = None
  <1>1. c \in Ids /\ state[c] = "none"
    BY DEF IInv, Fresh, Ids
  <1>2. SUFFICES ASSUME conns[c] # None PROVE FALSE
    BY <1>1
  <1>3. conns[c] \in Conns /\ id[conns[c]] = c /\ state[conns[c]] # "none"
    BY <1>1, <1>2 DEF IInv, TypeOK, OwnEntries, Begun
  <1>4. CASE conns[c] \in Calls
    BY <1>1, <1>3, <1>4 DEF IInv, OwnEntries
  <1>5. CASE conns[c] \in Opens
    <2>1. c \in OpenIds \cup reached \cup {None}
      BY <1>3, <1>5 DEF IInv, OwnEntries
    <2> QED
      BY <2>1, <1>1 DEF IInv, Begun, Ids
  <1> QED
    BY <1>3, <1>4, <1>5 DEF Conns

\* Every step of the manager is a step of RelayRegistry or changes nothing that it sees.
LEMMA RegistryStep == ASSUME IInv, Next PROVE Registry!Next \/ UNCHANGED Registry!vars
  <1> DEFINE Goal == Registry!Next \/ UNCHANGED Registry!vars
  <1>0. IInv /\ TypeOK
    BY DEF IInv
  <1>1. ASSUME NEW c \in Calls, ConnectRefused(c) PROVE Goal
    <2>1. state[c] = "none"
      BY <1>0, <1>1, FreshIdIsFree DEF ConnectRefused, At
    <2> QED
      BY <1>0, <1>1, <2>1, RegistryRest DEF ConnectRefused, At, Ended, TypeOK, connVars
  <1>2. ASSUME NEW c \in Calls, Connect(c) PROVE Goal
    <2>1. state[c] = "none" /\ conns[c] = None /\ id[c] = c
      BY <1>0, <1>2, FreshIdIsFree DEF IInv, OwnEntries, Connect, At
    <2>2. c \in Conns /\ c \in Ids
      BY DEF Conns, Ids
    <2>3. id' = [id EXCEPT ![c] = c]
      BY <1>0, <1>2, <2>1, <2>2 DEF Connect, TypeOK
    <2>4. conns' = [conns EXCEPT ![c] = IF @ = None THEN c ELSE @]
      BY <1>0, <1>2, <2>1, <2>2 DEF Connect, TypeOK
    <2>5. state'[c] = "opening" /\ connectPc'[c] = "send"
      BY <1>0, <1>2, <2>2 DEF Connect, At, TypeOK
    <2>6. \A d \in Conns \ {c} : state'[d] = state[d] /\ (Ended(d)' <=> Ended(d))
      BY <1>0, <1>2 DEF Connect, At, TypeOK, Ended
    <2> QED
      BY <2>1, <2>2, <2>3, <2>4, <2>5, <2>6, OneBegins DEF Ended
  <1>3. ASSUME NEW c \in Calls, OpenReaches(c) PROVE Goal
    BY <1>0, <1>3, RegistryRest DEF OpenReaches, connVars, Ended, TypeOK
  <1>4. ASSUME NEW c \in Calls, OpenSent(c) PROVE Goal
    BY <1>0, <1>4, RegistryRest DEF OpenSent, At, connVars, Ended, TypeOK
  <1>5. ASSUME NEW c \in Calls, OpenFails(c) PROVE Goal
    <2>1. c \in Conns /\ state[c] # "none" /\ id[c] = c
      BY <1>0, <1>5 DEF OpenFails, At, IInv, Begun, OwnEntries, Conns
    <2>2. UNCHANGED <<id, state>> /\ connectPc'[c] = "failed" /\ Forget(id[c])
      BY <1>0, <1>5, <2>1 DEF OpenFails, At, TypeOK, connVars
    <2>3. \A d \in Conns : (d # c => (Ended(d)' <=> Ended(d))) /\ (Ended(c) => Ended(c)')
      BY <1>0, <1>5, <2>2 DEF OpenFails, At, TypeOK, Ended
    <2>4. Ended(c)'
      BY <1>5, <2>1, <2>2 DEF Ended
    <2>5. CASE Ended(c)
      <3>1. Registry!Forget(c)
        BY <2>1, <2>2, <2>3, <2>4, <2>5 DEF Registry!Forget, Registry!Delist, Forget, BegunConns
      <3> QED
        BY <2>1, <3>1 DEF Registry!Next
    <2>6. CASE ~Ended(c)
      BY <2>1, <2>2, <2>3, <2>4, <2>6, OneEnds
    <2> QED
      BY <2>5, <2>6
  <1>6. ASSUME NEW c \in Calls, Arm(c) PROVE Goal
    BY <1>0, <1>6, RegistryRest DEF Arm, At, connVars, Ended, TypeOK
  <1>7. ASSUME NEW c \in Calls, ConnectOk(c) PROVE Goal
    BY <1>0, <1>7, RegistryRest DEF ConnectOk, At, connVars, Ended, TypeOK
  <1>8. ASSUME NEW c \in Calls, OpenTimeout(c) PROVE Goal
    <2>1. c \in Conns /\ state[c] # "none"
      BY <1>0, <1>8 DEF OpenTimeout, At, IInv, Begun, Conns
    <2>2. BeginClose(c) /\ UNCHANGED <<id, conns>>
      BY <1>8 DEF OpenTimeout
    <2>3. /\ \A d \in Calls \ {c} : connectPc'[d] = connectPc[d]
          /\ connectPc[c] # "failed"
          /\ connectPc'[c] = "failed" => state[c] = "closed"
      BY <1>0, <1>8 DEF OpenTimeout, At, TypeOK
    <2> QED
      BY <1>0, <2>1, <2>2, <2>3, ClosingEnds
  <1>9. ASSUME NEW c \in Calls, ConnectFails(c) PROVE Goal
    <2>1. state[c] = "closed"
      BY <1>0, <1>9 DEF ConnectFails, At, IInv, ClosingIsGiven
    <2> QED
      BY <1>0, <1>9, <2>1, RegistryRest DEF ConnectFails, At, Ended, TypeOK, connVars
  <1>10. ASSUME NEW c \in Calls, ConnectDropped(c) PROVE Goal
    BY <1>0, <1>10, RegistryRest DEF ConnectDropped, connVars, Ended, TypeOK
  <1>11. ASSUME NEW i \in Ids, NEW kind \in {"ack", "close"}, Find(kind, i) PROVE Goal
    BY <1>0, <1>11, RegistryRest DEF Find, connVars, callVars, Ended, TypeOK
  <1>12. ASSUME NEW i \in OpenIds \cup reached, AcceptIncoming(i) PROVE Goal
    <2> PICK n \in Opens : n = opens + 1
      BY <1>0, <1>12 DEF AcceptIncoming, TypeOK, Opens
    <2>1. n \in Conns /\ n \notin Calls /\ state[n] = "none" /\ i \in Ids
      BY <1>0, <1>12 DEF AcceptIncoming, IInv, TypeOK, Fresh, Opens, Conns, Ids
    <2>2. /\ id' = [id EXCEPT ![n] = i] /\ state' = [state EXCEPT ![n] = "open"]
          /\ UNCHANGED connectPc
      BY <1>12 DEF AcceptIncoming, callVars
    <2>3. conns' = [conns EXCEPT ![i] = IF @ = None THEN n ELSE @]
      BY <1>0, <1>12, <2>1 DEF AcceptIncoming, TypeOK
    <2>4. state'[n] = "open" /\ ~Ended(n)'
      BY <1>0, <2>1, <2>2 DEF TypeOK, Ended
    <2>5. \A d \in Conns \ {n} : state'[d] = state[d] /\ (Ended(d)' <=> Ended(d))
      BY <1>0, <2>1, <2>2 DEF TypeOK, Ended
    <2> QED
      BY <2>1, <2>2, <2>3, <2>4, <2>5, OneBegins
  <1>13. ASSUME NEW h \in handlers, HandleOpenAck(h) PROVE Goal
    BY <1>0, <1>13, RegistryRest DEF HandleOpenAck, Handlers, Ended, TypeOK
  <1>14. ASSUME NEW h \in handlers, HandleClose(h) PROVE Goal
    <2>1. h.conn \in Conns /\ state[h.conn] # "none"
      BY <1>0, <1>14 DEF HandleClose, TypeOK, Handlers, IInv, Begun
    <2> QED
      BY <1>0, <1>14, <2>1, ClosingEnds DEF HandleClose, callVars
  <1>15. ASSUME NEW h \in handlers, CallHandler(h) PROVE Goal
    BY <1>0, <1>15, RegistryRest DEF CallHandler, connVars, callVars, Ended, TypeOK
  <1>15a. ASSUME NEW h \in handlers, SpawnLoop(h) PROVE Goal
    BY <1>0, <1>15a, RegistryRest DEF SpawnLoop, connVars, callVars, Ended, TypeOK
  <1>16. ASSUME NEW h \in handlers, Reject(h) PROVE Goal
    <2>1. h.conn \in Conns /\ state[h.conn] # "none"
      BY <1>0, <1>16 DEF Reject, TypeOK, Handlers, IInv, Begun
    <2> QED
      BY <1>0, <1>16, <2>1, ClosingEnds DEF Reject, callVars
  <1>17. ASSUME NEW c \in Conns, RunCallbacks(c) PROVE Goal
    BY <1>0, <1>17, RegistryRest DEF RunCallbacks, callVars, Ended, TypeOK
  <1>18. ASSUME NEW c \in Conns, Remove(c) PROVE Goal
    <2>1. state[c] = "closed"
      BY <1>0, <1>18 DEF Remove, IInv, ClosedByOne
    <2>2. BegunConns' = BegunConns /\ {d \in Conns : Ended(d)}' = {d \in Conns : Ended(d)}
      BY <1>18 DEF Remove, callVars, BegunConns, Ended
    <2>3. Registry!Forget(c)
      BY <1>18, <2>1, <2>2 DEF Remove, Registry!Forget, Registry!Delist, Forget, Ended
    <2> QED
      BY <2>3 DEF Registry!Next
  <1>19. ASSUME NEW c \in Conns, CloserDropped(c) PROVE Goal
    <2>1. \A d \in Calls : connectPc'[d] = "failed" <=> connectPc[d] = "failed"
      BY <1>19 DEF CloserDropped
    <2> QED
      BY <1>19, <2>1, RegistryRest DEF CloserDropped, Ended
  <1>20. ASSUME NEW c \in Conns, OnClose(c) PROVE Goal
    BY <1>0, <1>20, RegistryRest DEF OnClose, callVars, Ended, TypeOK
  <1>21. ASSUME NEW c \in Conns, Close(c) PROVE Goal
    BY <1>0, <1>21, RegistryRest DEF Close, callVars, Ended, TypeOK
  <1>22. ASSUME NEW c \in Conns, FinishClose(c) PROVE Goal
    <2>1. c \in Conns /\ state[c] # "none"
      BY <1>0, <1>22 DEF FinishClose, TypeOK
    <2> QED
      BY <1>0, <1>22, <2>1, ClosingEnds DEF FinishClose, callVars
  <1>23. ASSUME NEW c \in Conns, CloseDropped(c) PROVE Goal
    BY <1>0, <1>23, RegistryRest DEF CloseDropped, connVars, callVars, Ended, TypeOK
  <1>24. ASSUME NEW c \in Conns, Abort(c) PROVE Goal
    <2>1. c \in Conns /\ state[c] # "none"
      BY <1>0, <1>24 DEF Abort, IInv, Begun
    <2> QED
      BY <1>0, <1>24, <2>1, ClosingEnds DEF Abort, callVars
  <1>25. ASSUME NEW c \in Conns, LoopCloses(c) PROVE Goal
    <2>1. c \in Conns /\ state[c] # "none"
      BY <1>0, <1>25 DEF LoopCloses, IInv, Begun
    <2> QED
      BY <1>0, <1>25, <2>1, ClosingEnds DEF LoopCloses, callVars
  <1> HIDE DEF Goal
  <1>26. ASSUME NEW c \in Calls, ConnectStep(c) PROVE Goal
    BY <1>26, <1>1, <1>2, <1>3, <1>4, <1>5, <1>6, <1>7, <1>8, <1>9, <1>10 DEF ConnectStep
  <1>27. ASSUME NEW h \in handlers, FrameStep(h) PROVE Goal
    BY <1>27, <1>13, <1>14, <1>15, <1>16, <1>15a DEF FrameStep
  <1>28. ASSUME NEW c \in Conns, CloserStep(c) \/ AppStep(c) PROVE Goal
    BY <1>28, <1>17, <1>18, <1>20, <1>21, <1>22, <1>23, <1>24 DEF CloserStep, AppStep
  <1>29. Goal
    BY <1>11, <1>12, <1>19, <1>25, <1>26, <1>27, <1>28 DEF Next
  <1> QED
    BY <1>29 DEF Goal

\* The empty table is that of RelayRegistry.
LEMMA RegistryStart == Init => Registry!Init
  BY DEF Init, Registry!Init, BegunConns, Ended, Conns, Ids

\* The manager implements RelayRegistry: a connection is listed once, as it begins and
\* under a free relay_id, and an entry goes only once a connection of that relay_id has
\* ended (src/src/relay.rs:842-899, 985-989, 1033-1064).
THEOREM RegistryImplemented == Spec => ImplementsRegistry
  <1>1. Init => Registry!Init
    BY RegistryStart
  <1>2. ASSUME IInv, [Next]_vars PROVE [Registry!Next]_(Registry!vars)
    <2>1. CASE Next
      BY <1>2, <2>1, RegistryStep
    <2>2. CASE UNCHANGED vars
      BY <2>2, RegistryRest DEF vars, connVars, callVars, Ended
    <2> QED
      BY <1>2, <2>1, <2>2
  <1> QED
    BY Invariance, <1>1, <1>2, PTL DEF Spec, ImplementsRegistry, Registry!Spec

\* No OPEN takes the place of a listed connection (src/src/relay.rs:1033-1064): neither
\* does an entry of RelayRegistry, which the manager implements.
THEOREM NeverReplaced == Spec => ListedIsNotReplaced
  <1> DEFINE Kept == \A i \in Ids : conns[i] # None => conns'[i] \in {conns[i], None}
  <1>1. ASSUME TypeOK, Registry!Next PROVE Kept
    BY <1>1 DEF TypeOK, Registry!Next, Registry!Begin, Registry!End, Registry!Forget,
                Registry!Delist
  <1>2. ASSUME UNCHANGED Registry!vars PROVE Kept
    BY <1>2 DEF Registry!vars
  <1>3. ASSUME IInv, [Next]_vars PROVE [Kept]_vars
    BY <1>1, <1>2, <1>3, RegistryStep DEF IInv
  <1> QED
    BY Invariance, <1>3, PTL DEF Spec, ListedIsNotReplaced
=============================================================================
