------------------------ MODULE ClientSession_proofs ------------------------
(* The safety properties of ClientSession, for every set of calls and every *)
(* bound.                                                                  *)
EXTENDS ClientSession, TLAPS

USE RequestsAssumption, MaxSessionsAssumption, DelayAssumption, FlagAssumption

\* The initial state has the types of TypeOK.
LEMMA TypeInit == Init => TypeOK
  <1> SUFFICES ASSUME Init PROVE TypeOK
    OBVIOUS
  <1> USE DEF Init, Tasks, Rpcs
  <1>0. FlagType
    BY Zenon DEF FlagType
  <1>1. StateType
    BY DEF StateType
  <1>5. HistoryType
    BY DEF HistoryType
  <1>2. CallType
    BY DEF CallType, ConnectPcs, ClosePcs
  <1>3. RunType
    BY DEF RunType, RunPcs
  <1>4. RpcType
    BY DEF RpcType, RpcPcs
  <1> QED
    BY <1>0, <1>1, <1>2, <1>3, <1>4, <1>5 DEF TypeOK

\* The flags keep their type: the part of TypeOK that is Boolean.
LEMMA FlagStep == ASSUME FlagType, Next PROVE FlagType'
  <1> USE DEF FlagType, stateVars, eventVars, ConnectFrame, CloseFrame, RunFrame, RpcFrame
  <1>1. ASSUME NEW c \in Connectors, ConnectStep(c) PROVE FlagType'
    <2>1. CASE Connect(c)
      BY <2>1, Zenon DEF Connect
    <2>2. CASE EnsureStarted(c)
      BY <2>2, Zenon DEF EnsureStarted
    <2>3. CASE Arm(c)
      BY <2>3, Zenon DEF Arm
    <2>4. CASE Inspect(c)
      BY <2>4, Zenon DEF Inspect
    <2>5. CASE Wake(c)
      BY <2>5, Zenon DEF Wake
    <2> QED
      BY <1>1, <2>1, <2>2, <2>3, <2>4, <2>5, Zenon DEF ConnectStep
  <1>2. ASSUME NEW k \in Closers, CloseStep(k) PROVE FlagType'
    <2>1. CASE CloseMark(k)
      BY <2>1, Zenon DEF CloseMark
    <2>2. CASE CloseNotify(k)
      BY <2>2, Zenon DEF CloseNotify
    <2>3. CASE CloseEmit(k)
      BY <2>3, Zenon DEF CloseEmit, Emit
    <2>4. CASE CloseFailPending(k)
      BY <2>4, Zenon DEF CloseFailPending
    <2>5. CASE TakeWriter(k)
      BY <2>5, Zenon DEF TakeWriter
    <2>6. CASE AbortRun(k)
      BY <2>6, Zenon DEF AbortRun
    <2>7. CASE JoinRun(k)
      BY <2>7, Zenon DEF JoinRun
    <2>8. CASE DropEvents(k)
      BY <2>8, Zenon DEF DropEvents
    <2> QED
      BY <1>2, <2>1, <2>2, <2>3, <2>4, <2>5, <2>6, <2>7, <2>8, Zenon DEF CloseStep
  <1>3. ASSUME NEW t \in Tasks, RunStep(t) PROVE FlagType'
    <2>1. CASE CheckClosed(t)
      BY <2>1, Zenon DEF CheckClosed
    <2>2. CASE Dial(t)
      BY <2>2, Zenon DEF Dial
    <2>3. CASE LoginAccepted(t)
      BY <2>3, Zenon DEF LoginAccepted
    <2>4. CASE LoginUnauthorized(t)
      BY <2>4, Zenon DEF LoginUnauthorized
    <2>5. CASE LoginFails(t)
      BY <2>5, Zenon DEF LoginFails
    <2>6. CASE Install(t)
      BY <2>6, Zenon DEF Install
    <2>7. CASE MarkConnected(t)
      BY <2>7, Zenon DEF MarkConnected
    <2>8. CASE StoreLogin(t)
      BY <2>8, Zenon DEF StoreLogin
    <2>9. CASE AnnounceLogin(t)
      BY <2>9, Zenon DEF AnnounceLogin, Emit
    <2>10. CASE ReadFails(t)
      BY <2>10, Zenon DEF ReadFails
    <2>11. CASE StopPing(t)
      BY <2>11, Zenon DEF StopPing
    <2>12. CASE Unmark(t)
      BY <2>12, Zenon DEF Unmark
    <2>13. CASE ClearWriter(t)
      BY <2>13, Zenon DEF ClearWriter
    <2>14. CASE CheckOpen(t)
      BY <2>14, Zenon DEF CheckOpen
    <2>15. CASE FailDisconnected(t)
      BY <2>15, Zenon DEF FailDisconnected
    <2>16. CASE ReportDisconnect(t)
      BY <2>16, Zenon DEF ReportDisconnect, Emit
    <2>17. CASE Judge(t)
      BY <2>17, Zenon DEF Judge
    <2>18. CASE Backoff(t)
      BY <2>18, Zenon DEF Backoff
    <2>19. CASE FailFinal(t)
      BY <2>19, Zenon DEF FailFinal
    <2>20. CASE Settle(t)
      BY <2>20, Zenon DEF Settle
    <2>21. CASE Cancelled(t)
      BY <2>21, Zenon DEF Cancelled
    <2>22. ASSUME NEW r \in Rpcs, HandleResponse(t, r) PROVE FlagType'
      BY <2>22, Zenon DEF HandleResponse
    <2>23. CASE ReadPush(t)
      BY <2>23, Zenon DEF ReadPush
    <2>24. CASE AckAcquire(t)
      BY <2>24, Zenon DEF AckAcquire
    <2>25. CASE AckFlush(t)
      BY <2>25, Zenon DEF AckFlush
    <2> QED
      BY <1>3, <2>1, <2>2, <2>3, <2>4, <2>5, <2>6, <2>7, <2>8, <2>9, <2>10, <2>11,
         <2>12, <2>13, <2>14, <2>15, <2>16, <2>17, <2>18, <2>19, <2>20, <2>21,
         <2>22, <2>23, <2>24, <2>25, Zenon DEF RunStep, TeardownStep, LoginReply
  <1>4. ASSUME NEW r \in Rpcs, RpcAct(r) PROVE FlagType'
    <2>1. CASE Register(r)
      BY <2>1, Zenon DEF Register
    <2>2. CASE Admit(r)
      BY <2>2, Zenon DEF Admit
    <2>3. CASE Acquire(r)
      BY <2>3, Zenon DEF Acquire
    <2>4. CASE Flush(r)
      BY <2>4, Zenon DEF Flush
    <2>5. CASE Receive(r)
      BY <2>5, Zenon DEF Receive
    <2>6. CASE Timeout(r)
      BY <2>6, Zenon DEF Timeout
    <2>7. CASE Abandon(r)
      BY <2>7, Zenon DEF Abandon
    <2>8. CASE Finish(r)
      BY <2>8, Zenon DEF Finish
    <2> QED
      BY <1>4, <2>1, <2>2, <2>3, <2>4, <2>5, <2>6, <2>7, <2>8, Zenon DEF RpcAct
  <1> QED
    BY <1>1, <1>2, <1>3, <1>4 DEF Next

DataType == StateType /\ CallType /\ RunType /\ RpcType

\* What is emitted is an event.
LEMMA EventType ==
  /\ Farewell \in Events
  /\ \A s \in 0..MaxSessions : Login(s) \in Events /\ Lost(s) \in Events
  BY DEF Farewell, Login, Lost, Events

\* The rest of TypeOK is preserved by every step.
LEMMA DataStep == ASSUME TypeOK, Next PROVE DataType'
  <1> USE DEF TypeOK, DataType, StateType, CallType, RunType, RpcType, ConnectPcs, ClosePcs,
             RunPcs, RpcPcs, Errors, Tasks, Rpcs, stateVars, linkVars, eventVars, connectVars,
             closeVars, runVars, rpcVars, taskVars, ConnectFrame, CloseFrame, RunFrame,
             RpcFrame
  <1>1. ASSUME NEW c \in Connectors, ConnectStep(c) PROVE DataType'
    <2>1. CASE Connect(c)
      BY <2>1 DEF Connect
    <2>2. CASE EnsureStarted(c)
      <3>1. CASE \E t \in handle : runPc[t] # "done"
        BY <2>2, <3>1 DEF EnsureStarted
      <3>2. CASE \A t \in handle : runPc[t] = "done"
        <4> USE <2>2, <3>2 DEF EnsureStarted
        <4>1. StateType'
          OBVIOUS
        <4>2. CallType'
          <5>1. /\ connectPc' = [connectPc EXCEPT ![c] = "arm"] /\ NotifyWaiters
                /\ UNCHANGED <<connectResult, closePc, taken>>
            BY Zenon
          <5> QED
            BY <5>1 DEF NotifyWaiters
        <4>3. RunType' /\ RpcType'
          OBVIOUS
        <4> QED
          BY <4>1, <4>2, <4>3
      <3> QED
        BY <3>1, <3>2
    <2>3. CASE Arm(c)
      BY <2>3 DEF Arm
    <2>4. CASE Inspect(c)
      BY <2>4 DEF Inspect
    <2>5. CASE Wake(c)
      BY <2>5 DEF Wake
    <2> QED
      BY <1>1, <2>1, <2>2, <2>3, <2>4, <2>5, Zenon DEF ConnectStep
  <1>2. ASSUME NEW k \in Closers, CloseStep(k) PROVE DataType'
    <2>1. CASE CloseMark(k)
      BY <2>1 DEF CloseMark, CloseTo
    <2>2. CASE CloseNotify(k)
      BY <2>2 DEF CloseNotify, NotifyWaiters, CloseTo
    <2>3. CASE CloseEmit(k)
      BY <2>3 DEF CloseEmit, Emit, CloseTo
    <2>4. CASE CloseFailPending(k)
      BY <2>4 DEF CloseFailPending, FailAllPending, Answer, CloseTo
    <2>5. CASE TakeWriter(k)
      BY <2>5 DEF TakeWriter, CloseTo
    <2>6. CASE AbortRun(k)
      BY <2>6 DEF AbortRun, CloseTo
    <2>7. CASE JoinRun(k)
      BY <2>7 DEF JoinRun, CloseTo
    <2>8. CASE DropEvents(k)
      BY <2>8 DEF DropEvents, CloseTo
    <2> QED
      BY <1>2, <2>1, <2>2, <2>3, <2>4, <2>5, <2>6, <2>7, <2>8, Zenon DEF CloseStep
  <1>3. ASSUME NEW t \in Tasks, RunStep(t) PROVE DataType'
    <2>1. CASE CheckClosed(t)
      BY <2>1 DEF CheckClosed, FailWith, Step
    <2>2. CASE Dial(t)
      BY <2>2 DEF Dial, FailWith, Step
    <2>3. CASE LoginAccepted(t)
      BY <2>3 DEF LoginAccepted, Step
    <2>4. CASE LoginUnauthorized(t)
      BY <2>4 DEF LoginUnauthorized, FailWith, Step
    <2>5. CASE LoginFails(t)
      BY <2>5 DEF LoginFails, FailWith, ReadErrors, Step
    <2>6. CASE Install(t)
      BY <2>6 DEF Install, Step
    <2>7. CASE MarkConnected(t)
      BY <2>7 DEF MarkConnected, NotifyWaiters, Step
    <2>8. CASE StoreLogin(t)
      BY <2>8 DEF StoreLogin, Step
    <2>9. CASE AnnounceLogin(t)
      BY <2>9 DEF AnnounceLogin, Emit, Step
    <2>10. CASE ReadFails(t)
      BY <2>10 DEF ReadFails, FailWith, ReadErrors, Step
    <2>11. CASE StopPing(t)
      BY <2>11 DEF StopPing, Step
    <2>12. CASE Unmark(t)
      BY <2>12 DEF Unmark, NotifyWaiters, Step
    <2>13. CASE ClearWriter(t)
      BY <2>13 DEF ClearWriter, Step
    <2>14. CASE CheckOpen(t)
      BY <2>14 DEF CheckOpen, Step
    <2>15. CASE FailDisconnected(t)
      BY <2>15 DEF FailDisconnected, FailAllPending, Answer, Step
    <2>16. CASE ReportDisconnect(t)
      BY <2>16 DEF ReportDisconnect, Emit, Step
    <2>17. CASE Judge(t)
      BY <2>17 DEF Judge, Step
    <2>18. CASE Backoff(t)
      BY <2>18 DEF Backoff, NextDelay, Step
    <2>19. CASE FailFinal(t)
      BY <2>19 DEF FailFinal, FailAllPending, Answer, Step
    <2>20. CASE Settle(t)
      BY <2>20 DEF Settle, NotifyWaiters, DropLocals, FailWith, Step
    <2>21. CASE Cancelled(t)
      BY <2>21 DEF Cancelled, DropLocals, FailWith
    <2>22. ASSUME NEW r \in Rpcs, HandleResponse(t, r) PROVE DataType'
      BY <2>22 DEF HandleResponse, Answer
    <2>23. CASE ReadPush(t)
      BY <2>23 DEF ReadPush, Step
    <2>24. CASE AckAcquire(t)
      BY <2>24 DEF AckAcquire, Step
    <2>25. CASE AckFlush(t)
      BY <2>25 DEF AckFlush, Step
    <2> QED
      BY <1>3, <2>1, <2>2, <2>3, <2>4, <2>5, <2>6, <2>7, <2>8, <2>9, <2>10, <2>11,
         <2>12, <2>13, <2>14, <2>15, <2>16, <2>17, <2>18, <2>19, <2>20, <2>21,
         <2>22, <2>23, <2>24, <2>25, Zenon DEF RunStep, TeardownStep, LoginReply
  <1>4. ASSUME NEW r \in Rpcs, RpcAct(r) PROVE DataType'
    <2>1. CASE Register(r)
      BY <2>1 DEF Register, RpcStep
    <2>2. CASE Admit(r)
      BY <2>2 DEF Admit, ReplyWith, RpcStep
    <2>3. CASE Acquire(r)
      BY <2>3 DEF Acquire, ReplyWith, RpcStep
    <2>4. CASE Flush(r)
      BY <2>4 DEF Flush, ReplyWith, RpcStep
    <2>5. CASE Receive(r)
      BY <2>5 DEF Receive, RpcStep
    <2>6. CASE Timeout(r)
      BY <2>6 DEF Timeout, ReplyWith, RpcStep
    <2>7. CASE Abandon(r)
      BY <2>7 DEF Abandon, ReplyWith
    <2>8. CASE Finish(r)
      BY <2>8 DEF Finish, RpcStep
    <2> QED
      BY <1>4, <2>1, <2>2, <2>3, <2>4, <2>5, <2>6, <2>7, <2>8, Zenon DEF RpcAct
  <1> QED
    BY <1>1, <1>2, <1>3, <1>4 DEF Next

\* Only three steps send an event.
LEMMA Emitters ==
  ASSUME Next, events' # events
  PROVE  \/ \E k \in Closers : CloseEmit(k)
         \/ \E t \in Tasks : AnnounceLogin(t) \/ ReportDisconnect(t)
  <1> USE DEF eventVars, connectVars, closeVars, runVars, rpcVars, linkVars, stateVars,
              ConnectFrame, CloseFrame, RunFrame, RpcFrame
  <1>1. ASSUME NEW c \in Connectors, ConnectStep(c) PROVE FALSE
    BY <1>1 DEF ConnectStep, Connect, EnsureStarted, Arm, Inspect, Wake
  <1>2. ASSUME NEW k \in Closers, CloseStep(k) PROVE CloseEmit(k)
    BY <1>2 DEF CloseStep, CloseMark, CloseNotify, CloseFailPending, TakeWriter, AbortRun,
                JoinRun, DropEvents
  <1>3. ASSUME NEW t \in Tasks, RunStep(t) PROVE AnnounceLogin(t) \/ ReportDisconnect(t)
    BY <1>3 DEF RunStep, TeardownStep, LoginReply, CheckClosed, Dial, LoginAccepted,
                LoginUnauthorized, LoginFails, Install, MarkConnected, StoreLogin,
                HandleResponse, ReadPush, AckAcquire, AckFlush, ReadFails, StopPing, Unmark,
                ClearWriter, CheckOpen, FailDisconnected, Judge, Backoff, FailFinal, Settle,
                Cancelled
  <1>4. ASSUME NEW r \in Rpcs, RpcAct(r) PROVE FALSE
    BY <1>4 DEF RpcAct, Register, Admit, Acquire, Flush, Receive, Timeout, Abandon, Finish
  <1> QED
    BY <1>1, <1>2, <1>3, <1>4 DEF Next

\* What they append is an event.
LEMMA HistoryStep == ASSUME TypeOK, Next PROVE HistoryType'
  <1>0. /\ events \in Seq(Events)
        /\ \A t \in Tasks : session[t] \in 0..MaxSessions
    BY DEF TypeOK, HistoryType, RunType
  <1>1. ASSUME NEW e \in Events, Emit(e) PROVE HistoryType'
    BY <1>0, <1>1 DEF Emit, HistoryType
  <1>2. CASE events' = events
    BY <1>0, <1>2 DEF HistoryType
  <1>3. CASE events' # events
    BY <1>0, <1>1, <1>3, Emitters, EventType DEF CloseEmit, AnnounceLogin, ReportDisconnect
  <1> QED
    BY <1>2, <1>3

\* Every variable keeps its type; the reconnect delay keeps its bound
\* (run(), src/src/client.rs:1643).
THEOREM TypeCorrect == Spec => []TypeOK
  <1>1. TypeOK /\ [Next]_vars => TypeOK'
    <2>1. CASE Next
      BY <2>1, FlagStep, DataStep, HistoryStep DEF TypeOK, DataType
    <2>2. CASE UNCHANGED vars
      BY <2>2 DEF TypeOK, FlagType, StateType, HistoryType, CallType, RunType, RpcType, vars,
         stateVars,
                  linkVars, eventVars, connectVars, closeVars, runVars, rpcVars
    <2> QED
      BY <2>1, <2>2
  <1> QED
    BY TypeInit, <1>1, PTL DEF Spec

\* A task that has not finished in an open client is the only one.
LEMMA OthersStopped ==
  ASSUME SoleTask, ~closed, NEW t \in Tasks, runPc[t] \notin {"none", "done"}
  PROVE  \A u \in Tasks : u # t => runPc[u] \in {"none", "done"}
  BY DEF SoleTask

\* No step of any call or task breaks what is known of the run tasks.
LEMMA RunInvStep == ASSUME TypeOK, TypeOK', RunInv, Next PROVE RunInv'
  <1> USE DEF TypeOK, StateType, CallType, RunType, RpcType, RunPcs, ClosePcs, Tasks, Rpcs,
             stateVars, linkVars, eventVars, connectVars, closeVars, runVars, rpcVars, taskVars,
             ConnectFrame, CloseFrame, RunFrame, RpcFrame, RunInv, OneServingTask,
             ConnectedIsWritable, SoleTask, CloseMarksFirst, SessionGiven, ErrorKnown,
             WriterInstalled, WriterOwned, AbortOutstanding, Active, Serving, Holding
  <1>1. ASSUME NEW c \in Connectors, ConnectStep(c) PROVE RunInv'
    <2>1. CASE Connect(c)
      BY <2>1 DEF Connect
    <2>2. CASE EnsureStarted(c)
      BY <2>2 DEF EnsureStarted, NotifyWaiters
    <2>3. CASE Arm(c)
      BY <2>3 DEF Arm
    <2>4. CASE Inspect(c)
      BY <2>4 DEF Inspect
    <2>5. CASE Wake(c)
      BY <2>5 DEF Wake
    <2> QED
      BY <1>1, <2>1, <2>2, <2>3, <2>4, <2>5, Zenon DEF ConnectStep
  <1>2. ASSUME NEW k \in Closers, CloseStep(k) PROVE RunInv'
    <2>1. CASE CloseMark(k)
      BY <2>1 DEF CloseMark, CloseTo
    <2>2. CASE CloseNotify(k)
      BY <2>2 DEF CloseNotify, NotifyWaiters, CloseTo
    <2>3. CASE CloseEmit(k)
      BY <2>3 DEF CloseEmit, Emit, CloseTo
    <2>4. CASE CloseFailPending(k)
      BY <2>4 DEF CloseFailPending, FailAllPending, Answer, CloseTo
    <2>5. CASE TakeWriter(k)
      BY <2>5 DEF TakeWriter, CloseTo
    <2>6. CASE AbortRun(k)
      BY <2>6 DEF AbortRun, CloseTo
    <2>7. CASE JoinRun(k)
      BY <2>7 DEF JoinRun, CloseTo
    <2>8. CASE DropEvents(k)
      BY <2>8 DEF DropEvents, CloseTo
    <2> QED
      BY <1>2, <2>1, <2>2, <2>3, <2>4, <2>5, <2>6, <2>7, <2>8, Zenon DEF CloseStep
  <1>3. ASSUME NEW t \in Tasks, RunStep(t) PROVE RunInv'
    <2>1. CASE CheckClosed(t)
      <3> USE <2>1 DEF CheckClosed, FailWith, Step
      <3>1. CASE closed
        BY <3>1
      <3>2. CASE ~closed
        <4>1. \A u \in Tasks : u # t => runPc[u] \in {"none", "done"}
          BY <3>2, OthersStopped
        <4>2. OneServingTask' /\ ConnectedIsWritable'
          BY <3>2, <4>1
        <4>3. SoleTask' /\ CloseMarksFirst' /\ SessionGiven' /\ ErrorKnown'
          BY <3>2, <4>1
        <4>4. WriterInstalled' /\ WriterOwned' /\ AbortOutstanding'
          BY <3>2, <4>1
        <4> QED
          BY <4>2, <4>3, <4>4
      <3> QED
        BY <3>1, <3>2
    <2>2. CASE Dial(t)
      BY <2>2 DEF Dial, FailWith, Step
    <2>3. CASE LoginAccepted(t)
      BY <2>3 DEF LoginAccepted, Step
    <2>4. CASE LoginUnauthorized(t)
      BY <2>4 DEF LoginUnauthorized, FailWith, Step
    <2>5. CASE LoginFails(t)
      BY <2>5 DEF LoginFails, FailWith, ReadErrors, Step
    <2>6. CASE Install(t)
      BY <2>6 DEF Install, Step
    <2>7. CASE MarkConnected(t)
      BY <2>7 DEF MarkConnected, NotifyWaiters, Step
    <2>8. CASE StoreLogin(t)
      BY <2>8 DEF StoreLogin, Step
    <2>9. CASE AnnounceLogin(t)
      BY <2>9 DEF AnnounceLogin, Emit, Step
    <2>10. CASE ReadFails(t)
      BY <2>10 DEF ReadFails, FailWith, ReadErrors, Step
    <2>11. CASE StopPing(t)
      BY <2>11 DEF StopPing, Step
    <2>12. CASE Unmark(t)
      BY <2>12 DEF Unmark, NotifyWaiters, Step
    <2>13. CASE ClearWriter(t)
      BY <2>13 DEF ClearWriter, Step
    <2>14. CASE CheckOpen(t)
      BY <2>14 DEF CheckOpen, Step
    <2>15. CASE FailDisconnected(t)
      BY <2>15 DEF FailDisconnected, FailAllPending, Answer, Step
    <2>16. CASE ReportDisconnect(t)
      BY <2>16 DEF ReportDisconnect, Emit, Step
    <2>17. CASE Judge(t)
      BY <2>17 DEF Judge, Step
    <2>18. CASE Backoff(t)
      BY <2>18 DEF Backoff, NextDelay, Step
    <2>19. CASE FailFinal(t)
      BY <2>19 DEF FailFinal, FailAllPending, Answer, Step
    <2>20. CASE Settle(t)
      BY <2>20 DEF Settle, NotifyWaiters, DropLocals, FailWith, Step
    <2>21. CASE Cancelled(t)
      BY <2>21 DEF Cancelled, DropLocals, FailWith
    <2>22. ASSUME NEW r \in Rpcs, HandleResponse(t, r) PROVE RunInv'
      BY <2>22 DEF HandleResponse, Answer
    <2>23. CASE ReadPush(t)
      BY <2>23 DEF ReadPush, Step
    <2>24. CASE AckAcquire(t)
      BY <2>24 DEF AckAcquire, Step
    <2>25. CASE AckFlush(t)
      BY <2>25 DEF AckFlush, Step
    <2> QED
      BY <1>3, <2>1, <2>2, <2>3, <2>4, <2>5, <2>6, <2>7, <2>8, <2>9, <2>10, <2>11,
         <2>12, <2>13, <2>14, <2>15, <2>16, <2>17, <2>18, <2>19, <2>20, <2>21,
         <2>22, <2>23, <2>24, <2>25, Zenon DEF RunStep, TeardownStep, LoginReply
  <1>4. ASSUME NEW r \in Rpcs, RpcAct(r) PROVE RunInv'
    <2>1. CASE Register(r)
      BY <2>1 DEF Register, RpcStep
    <2>2. CASE Admit(r)
      BY <2>2 DEF Admit, ReplyWith, RpcStep
    <2>3. CASE Acquire(r)
      BY <2>3 DEF Acquire, ReplyWith, RpcStep
    <2>4. CASE Flush(r)
      BY <2>4 DEF Flush, ReplyWith, RpcStep
    <2>5. CASE Receive(r)
      BY <2>5 DEF Receive, RpcStep
    <2>6. CASE Timeout(r)
      BY <2>6 DEF Timeout, ReplyWith, RpcStep
    <2>7. CASE Abandon(r)
      BY <2>7 DEF Abandon, ReplyWith
    <2>8. CASE Finish(r)
      BY <2>8 DEF Finish, RpcStep
    <2> QED
      BY <1>4, <2>1, <2>2, <2>3, <2>4, <2>5, <2>6, <2>7, <2>8, Zenon DEF RpcAct
  <1> QED
    BY <1>1, <1>2, <1>3, <1>4 DEF Next

\* No step leaves a sleeping connect() that nothing will wake.
LEMMA WakeInvStep == ASSUME TypeOK, TypeOK', RunInv, WakeInv, Next PROVE WakeInv'
  <1> USE DEF TypeOK, StateType, CallType, RunType, RpcType, RunPcs, ClosePcs, ConnectPcs, RpcPcs,
             Errors, Tasks, Rpcs, stateVars, linkVars, eventVars, connectVars, closeVars,
             runVars, rpcVars, taskVars, ConnectFrame, CloseFrame, RunFrame, RpcFrame,
             RunInv, SoleTask, CloseMarksFirst, ErrorKnown, WakeInv, NoLostWakeup,
             HandleSpawned, StartedOrFailed, RunGoesOn
  <1>1. ASSUME NEW c \in Connectors, ConnectStep(c) PROVE WakeInv'
    <2>1. CASE Connect(c)
      BY <2>1 DEF Connect
    <2>2. CASE EnsureStarted(c)
      <3>1. CASE \E t \in handle : runPc[t] # "done"
        <4>1. UNCHANGED <<stateVars, notified, runVars, closePc>>
              /\ connectPc' = [connectPc EXCEPT ![c] = "arm"] /\ connectPc[c] = "start"
          BY <2>2, <3>1, Zenon DEF EnsureStarted
        <4>2. ~closed => RunGoesOn
          BY <3>1
        <4> QED
          BY <4>1, <4>2
      <3>2. CASE \A t \in handle : runPc[t] = "done"
        <4>1. /\ connectPc' = [connectPc EXCEPT ![c] = "arm"] /\ connectPc[c] = "start"
              /\ UNCHANGED <<closed, closePc>> /\ NotifyWaiters
              /\ handle' = {c} /\ runPc' = [runPc EXCEPT ![c] = "start"]
          BY <2>2, <3>2, Zenon DEF EnsureStarted
        <4>2. RunGoesOn'
          BY <4>1
        <4>3. \A x \in Connectors : connectPc'[x] = "wait" => connectPc[x] = "wait"
          BY <4>1
        <4>4. \A x \in Connectors : connectPc'[x] = "wait" => notified'[x]
          BY <4>1, <4>3, Zenon DEF NotifyWaiters
        <4>5. NoLostWakeup'
          BY <4>4, Zenon
        <4>6. HandleSpawned'
          BY <4>1
        <4> QED
          BY <4>2, <4>5, <4>6
      <3> QED
        BY <3>1, <3>2
    <2>3. CASE Arm(c)
      BY <2>3 DEF Arm
    <2>4. CASE Inspect(c)
      BY <2>4 DEF Inspect
    <2>5. CASE Wake(c)
      BY <2>5 DEF Wake
    <2> QED
      BY <1>1, <2>1, <2>2, <2>3, <2>4, <2>5, Zenon DEF ConnectStep
  <1>2. ASSUME NEW k \in Closers, CloseStep(k) PROVE WakeInv'
    <2>1. CASE CloseMark(k)
      BY <2>1 DEF CloseMark, CloseTo
    <2>2. CASE CloseNotify(k)
      BY <2>2 DEF CloseNotify, NotifyWaiters, CloseTo
    <2>3. CASE CloseEmit(k)
      BY <2>3 DEF CloseEmit, Emit, CloseTo
    <2>4. CASE CloseFailPending(k)
      BY <2>4 DEF CloseFailPending, FailAllPending, Answer, CloseTo
    <2>5. CASE TakeWriter(k)
      BY <2>5 DEF TakeWriter, CloseTo
    <2>6. CASE AbortRun(k)
      BY <2>6 DEF AbortRun, CloseTo
    <2>7. CASE JoinRun(k)
      BY <2>7 DEF JoinRun, CloseTo
    <2>8. CASE DropEvents(k)
      BY <2>8 DEF DropEvents, CloseTo
    <2> QED
      BY <1>2, <2>1, <2>2, <2>3, <2>4, <2>5, <2>6, <2>7, <2>8, Zenon DEF CloseStep
  <1>3. ASSUME NEW t \in Tasks, RunStep(t) PROVE WakeInv'
    <2>1. CASE CheckClosed(t)
      BY <2>1 DEF CheckClosed, FailWith, Step
    <2>2. CASE Dial(t)
      BY <2>2 DEF Dial, FailWith, Step
    <2>3. CASE LoginAccepted(t)
      BY <2>3 DEF LoginAccepted, Step
    <2>4. CASE LoginUnauthorized(t)
      BY <2>4 DEF LoginUnauthorized, FailWith, Step
    <2>5. CASE LoginFails(t)
      BY <2>5 DEF LoginFails, FailWith, ReadErrors, Step
    <2>6. CASE Install(t)
      BY <2>6 DEF Install, Step
    <2>7. CASE MarkConnected(t)
      <3>1. /\ runPc[t] = "mark" /\ runPc' = [runPc EXCEPT ![t] = "store"]
            /\ UNCHANGED <<closed, handle, connectPc>> /\ NotifyWaiters
        BY <2>7, Zenon DEF MarkConnected, Step
      <3>2. NoLostWakeup'
        BY <3>1 DEF NotifyWaiters
      <3>3. ~closed => handle = {t}
        BY <3>1
      <3>4. runPc'[t] = "store"
        BY <3>1
      <3>5. ~closed => RunGoesOn'
        BY <3>1, <3>3, <3>4
      <3>6. HandleSpawned'
        BY <3>1
      <3> QED
        BY <3>1, <3>2, <3>5, <3>6
    <2>8. CASE StoreLogin(t)
      BY <2>8 DEF StoreLogin, Step
    <2>9. CASE AnnounceLogin(t)
      BY <2>9 DEF AnnounceLogin, Emit, Step
    <2>10. CASE ReadFails(t)
      BY <2>10 DEF ReadFails, FailWith, ReadErrors, Step
    <2>11. CASE StopPing(t)
      BY <2>11 DEF StopPing, Step
    <2>12. CASE Unmark(t)
      BY <2>12 DEF Unmark, NotifyWaiters, Step
    <2>13. CASE ClearWriter(t)
      BY <2>13 DEF ClearWriter, Step
    <2>14. CASE CheckOpen(t)
      BY <2>14 DEF CheckOpen, Step
    <2>15. CASE FailDisconnected(t)
      BY <2>15 DEF FailDisconnected, FailAllPending, Answer, Step
    <2>16. CASE ReportDisconnect(t)
      BY <2>16 DEF ReportDisconnect, Emit, Step
    <2>17. CASE Judge(t)
      BY <2>17 DEF Judge, Step
    <2>18. CASE Backoff(t)
      BY <2>18 DEF Backoff, NextDelay, Step
    <2>19. CASE FailFinal(t)
      BY <2>19 DEF FailFinal, FailAllPending, Answer, Step
    <2>20. CASE Settle(t)
      BY <2>20 DEF Settle, NotifyWaiters, DropLocals, FailWith, Step
    <2>21. CASE Cancelled(t)
      BY <2>21 DEF Cancelled, DropLocals, FailWith
    <2>22. ASSUME NEW r \in Rpcs, HandleResponse(t, r) PROVE WakeInv'
      BY <2>22 DEF HandleResponse, Answer
    <2>23. CASE ReadPush(t)
      BY <2>23 DEF ReadPush, Step
    <2>24. CASE AckAcquire(t)
      BY <2>24 DEF AckAcquire, Step
    <2>25. CASE AckFlush(t)
      BY <2>25 DEF AckFlush, Step
    <2> QED
      BY <1>3, <2>1, <2>2, <2>3, <2>4, <2>5, <2>6, <2>7, <2>8, <2>9, <2>10, <2>11,
         <2>12, <2>13, <2>14, <2>15, <2>16, <2>17, <2>18, <2>19, <2>20, <2>21,
         <2>22, <2>23, <2>24, <2>25, Zenon DEF RunStep, TeardownStep, LoginReply
  <1>4. ASSUME NEW r \in Rpcs, RpcAct(r) PROVE WakeInv'
    <2>1. CASE Register(r)
      BY <2>1 DEF Register, RpcStep
    <2>2. CASE Admit(r)
      BY <2>2 DEF Admit, ReplyWith, RpcStep
    <2>3. CASE Acquire(r)
      BY <2>3 DEF Acquire, ReplyWith, RpcStep
    <2>4. CASE Flush(r)
      BY <2>4 DEF Flush, ReplyWith, RpcStep
    <2>5. CASE Receive(r)
      BY <2>5 DEF Receive, RpcStep
    <2>6. CASE Timeout(r)
      BY <2>6 DEF Timeout, ReplyWith, RpcStep
    <2>7. CASE Abandon(r)
      BY <2>7 DEF Abandon, ReplyWith
    <2>8. CASE Finish(r)
      BY <2>8 DEF Finish, RpcStep
    <2> QED
      BY <1>4, <2>1, <2>2, <2>3, <2>4, <2>5, <2>6, <2>7, <2>8, Zenon DEF RpcAct
  <1> QED
    BY <1>1, <1>2, <1>3, <1>4 DEF Next

\* No step leaves a request that nothing will answer.
LEMMA RpcInvStep == ASSUME TypeOK, TypeOK', RunInv, RpcInv, Next PROVE RpcInv'
  <1> USE DEF TypeOK, StateType, CallType, RunType, RpcType, RunPcs, ClosePcs, RpcPcs, Errors,
             Tasks, Rpcs, RunInv, stateVars, linkVars, eventVars, connectVars, closeVars,
             runVars, rpcVars, taskVars, ConnectFrame, CloseFrame, RunFrame, RpcFrame,
             RpcInv,
             UnansweredIsPending, CloseWillAnswer, SessionWillAnswer, CloseFailurePending,
             SessionPending, SoleTask, CloseMarksFirst, SessionGiven, ErrorKnown,
             WriterInstalled, WriterOwned, Serving, Holding
  <1>1. ASSUME NEW c \in Connectors, ConnectStep(c) PROVE RpcInv'
    <2>1. CASE Connect(c)
      BY <2>1 DEF Connect
    <2>2. CASE EnsureStarted(c)
      BY <2>2 DEF EnsureStarted, NotifyWaiters
    <2>3. CASE Arm(c)
      BY <2>3 DEF Arm
    <2>4. CASE Inspect(c)
      BY <2>4 DEF Inspect
    <2>5. CASE Wake(c)
      BY <2>5 DEF Wake
    <2> QED
      BY <1>1, <2>1, <2>2, <2>3, <2>4, <2>5, Zenon DEF ConnectStep
  <1>2. ASSUME NEW k \in Closers, CloseStep(k) PROVE RpcInv'
    <2>1. CASE CloseMark(k)
      BY <2>1 DEF CloseMark, CloseTo
    <2>2. CASE CloseNotify(k)
      BY <2>2 DEF CloseNotify, NotifyWaiters, CloseTo
    <2>3. CASE CloseEmit(k)
      BY <2>3 DEF CloseEmit, Emit, CloseTo
    <2>4. CASE CloseFailPending(k)
      BY <2>4 DEF CloseFailPending, FailAllPending, Answer, CloseTo
    <2>5. CASE TakeWriter(k)
      BY <2>5 DEF TakeWriter, CloseTo
    <2>6. CASE AbortRun(k)
      BY <2>6 DEF AbortRun, CloseTo
    <2>7. CASE JoinRun(k)
      BY <2>7 DEF JoinRun, CloseTo
    <2>8. CASE DropEvents(k)
      BY <2>8 DEF DropEvents, CloseTo
    <2> QED
      BY <1>2, <2>1, <2>2, <2>3, <2>4, <2>5, <2>6, <2>7, <2>8, Zenon DEF CloseStep
  <1>3. ASSUME NEW t \in Tasks, RunStep(t) PROVE RpcInv'
    <2>1. CASE CheckClosed(t)
      BY <2>1 DEF CheckClosed, FailWith, Step
    <2>2. CASE Dial(t)
      BY <2>2 DEF Dial, FailWith, Step
    <2>3. CASE LoginAccepted(t)
      BY <2>3 DEF LoginAccepted, Step
    <2>4. CASE LoginUnauthorized(t)
      BY <2>4 DEF LoginUnauthorized, FailWith, Step
    <2>5. CASE LoginFails(t)
      BY <2>5 DEF LoginFails, FailWith, ReadErrors, Step
    <2>6. CASE Install(t)
      BY <2>6 DEF Install, Step
    <2>7. CASE MarkConnected(t)
      BY <2>7 DEF MarkConnected, NotifyWaiters, Step
    <2>8. CASE StoreLogin(t)
      BY <2>8 DEF StoreLogin, Step
    <2>9. CASE AnnounceLogin(t)
      BY <2>9 DEF AnnounceLogin, Step
    <2>10. CASE ReadFails(t)
      BY <2>10 DEF ReadFails, FailWith, ReadErrors, Step
    <2>11. CASE StopPing(t)
      BY <2>11 DEF StopPing, Step
    <2>12. CASE Unmark(t)
      BY <2>12 DEF Unmark, NotifyWaiters, Step
    <2>13. CASE ClearWriter(t)
      BY <2>13 DEF ClearWriter, Step
    <2>14. CASE CheckOpen(t)
      BY <2>14 DEF CheckOpen, Step
    <2>15. CASE FailDisconnected(t)
      BY <2>15 DEF FailDisconnected, FailAllPending, Answer, Step
    <2>16. CASE ReportDisconnect(t)
      BY <2>16 DEF ReportDisconnect, Step
    <2>17. CASE Judge(t)
      BY <2>17 DEF Judge, Step
    <2>18. CASE Backoff(t)
      BY <2>18 DEF Backoff, NextDelay, Step
    <2>19. CASE FailFinal(t)
      BY <2>19 DEF FailFinal, FailAllPending, Answer, Step
    <2>20. CASE Settle(t)
      BY <2>20 DEF Settle, NotifyWaiters, DropLocals, FailWith, Step
    <2>21. CASE Cancelled(t)
      BY <2>21 DEF Cancelled, DropLocals, FailWith
    <2>22. ASSUME NEW r \in Rpcs, HandleResponse(t, r) PROVE RpcInv'
      BY <2>22 DEF HandleResponse, Answer
    <2>23. CASE ReadPush(t)
      BY <2>23 DEF ReadPush, Step
    <2>24. CASE AckAcquire(t)
      BY <2>24 DEF AckAcquire, Step
    <2>25. CASE AckFlush(t)
      BY <2>25 DEF AckFlush, Step
    <2> QED
      BY <1>3, <2>1, <2>2, <2>3, <2>4, <2>5, <2>6, <2>7, <2>8, <2>9, <2>10, <2>11,
         <2>12, <2>13, <2>14, <2>15, <2>16, <2>17, <2>18, <2>19, <2>20, <2>21,
         <2>22, <2>23, <2>24, <2>25, Zenon DEF RunStep, TeardownStep, LoginReply
  <1>4. ASSUME NEW r \in Rpcs, RpcAct(r) PROVE RpcInv'
    <2>1. CASE Register(r)
      BY <2>1 DEF Register, RpcStep
    <2>2. CASE Admit(r)
      BY <2>2 DEF Admit, ReplyWith, RpcStep
    <2>3. CASE Acquire(r)
      BY <2>3 DEF Acquire, ReplyWith, RpcStep
    <2>4. CASE Flush(r)
      BY <2>4 DEF Flush, ReplyWith, RpcStep
    <2>5. CASE Receive(r)
      BY <2>5 DEF Receive, RpcStep
    <2>6. CASE Timeout(r)
      BY <2>6 DEF Timeout, ReplyWith, RpcStep
    <2>7. CASE Abandon(r)
      BY <2>7 DEF Abandon, ReplyWith
    <2>8. CASE Finish(r)
      BY <2>8 DEF Finish, RpcStep
    <2> QED
      BY <1>4, <2>1, <2>2, <2>3, <2>4, <2>5, <2>6, <2>7, <2>8, Zenon DEF RpcAct
  <1> QED
    BY <1>1, <1>2, <1>3, <1>4 DEF Next

\* No step makes up an answer, or ends a call without an outcome.
LEMMA ReplyInvStep == ASSUME TypeOK, TypeOK', RunInv, RpcInv, TableInv, ReplyInv, Next PROVE ReplyInv'
  <1> USE DEF TypeOK, StateType, CallType, RunType, RpcType, RunPcs, ClosePcs, RpcPcs, Errors,
             Tasks, Rpcs, RunInv, stateVars, linkVars, eventVars, connectVars, closeVars,
             runVars, rpcVars, taskVars, ConnectFrame, CloseFrame, RunFrame, RpcFrame,
             ReplyInv, AnswerIsServers, EndedHasOutcome, SessionGiven,
             Serving, Holding
  <1>1. ASSUME NEW c \in Connectors, ConnectStep(c) PROVE ReplyInv'
    <2>1. CASE Connect(c)
      BY <2>1 DEF Connect
    <2>2. CASE EnsureStarted(c)
      BY <2>2 DEF EnsureStarted, NotifyWaiters
    <2>3. CASE Arm(c)
      BY <2>3 DEF Arm
    <2>4. CASE Inspect(c)
      BY <2>4 DEF Inspect
    <2>5. CASE Wake(c)
      BY <2>5 DEF Wake
    <2> QED
      BY <1>1, <2>1, <2>2, <2>3, <2>4, <2>5, Zenon DEF ConnectStep
  <1>2. ASSUME NEW k \in Closers, CloseStep(k) PROVE ReplyInv'
    <2>1. CASE CloseMark(k)
      BY <2>1 DEF CloseMark, CloseTo
    <2>2. CASE CloseNotify(k)
      BY <2>2 DEF CloseNotify, NotifyWaiters, CloseTo
    <2>3. CASE CloseEmit(k)
      BY <2>3 DEF CloseEmit, Emit, CloseTo
    <2>4. CASE CloseFailPending(k)
      BY <2>4 DEF CloseFailPending, FailAllPending, Answer, CloseTo
    <2>5. CASE TakeWriter(k)
      BY <2>5 DEF TakeWriter, CloseTo
    <2>6. CASE AbortRun(k)
      BY <2>6 DEF AbortRun, CloseTo
    <2>7. CASE JoinRun(k)
      BY <2>7 DEF JoinRun, CloseTo
    <2>8. CASE DropEvents(k)
      BY <2>8 DEF DropEvents, CloseTo
    <2> QED
      BY <1>2, <2>1, <2>2, <2>3, <2>4, <2>5, <2>6, <2>7, <2>8, Zenon DEF CloseStep
  <1>3. ASSUME NEW t \in Tasks, RunStep(t) PROVE ReplyInv'
    <2>1. CASE CheckClosed(t)
      BY <2>1 DEF CheckClosed, FailWith, Step
    <2>2. CASE Dial(t)
      BY <2>2 DEF Dial, FailWith, Step
    <2>3. CASE LoginAccepted(t)
      BY <2>3 DEF LoginAccepted, Step
    <2>4. CASE LoginUnauthorized(t)
      BY <2>4 DEF LoginUnauthorized, FailWith, Step
    <2>5. CASE LoginFails(t)
      BY <2>5 DEF LoginFails, FailWith, ReadErrors, Step
    <2>6. CASE Install(t)
      BY <2>6 DEF Install, Step
    <2>7. CASE MarkConnected(t)
      BY <2>7 DEF MarkConnected, NotifyWaiters, Step
    <2>8. CASE StoreLogin(t)
      BY <2>8 DEF StoreLogin, Step
    <2>9. CASE AnnounceLogin(t)
      BY <2>9 DEF AnnounceLogin, Emit, Step
    <2>10. CASE ReadFails(t)
      BY <2>10 DEF ReadFails, FailWith, ReadErrors, Step
    <2>11. CASE StopPing(t)
      BY <2>11 DEF StopPing, Step
    <2>12. CASE Unmark(t)
      BY <2>12 DEF Unmark, NotifyWaiters, Step
    <2>13. CASE ClearWriter(t)
      BY <2>13 DEF ClearWriter, Step
    <2>14. CASE CheckOpen(t)
      BY <2>14 DEF CheckOpen, Step
    <2>15. CASE FailDisconnected(t)
      BY <2>15 DEF FailDisconnected, FailAllPending, Answer, Step
    <2>16. CASE ReportDisconnect(t)
      BY <2>16 DEF ReportDisconnect, Emit, Step
    <2>17. CASE Judge(t)
      BY <2>17 DEF Judge, Step
    <2>18. CASE Backoff(t)
      BY <2>18 DEF Backoff, NextDelay, Step
    <2>19. CASE FailFinal(t)
      BY <2>19 DEF FailFinal, FailAllPending, Answer, Step, ErrorKnown
    <2>20. CASE Settle(t)
      BY <2>20 DEF Settle, NotifyWaiters, DropLocals, FailWith, Step
    <2>21. CASE Cancelled(t)
      BY <2>21 DEF Cancelled, DropLocals, FailWith
    <2>22. ASSUME NEW r \in Rpcs, HandleResponse(t, r) PROVE ReplyInv'
      BY <2>22 DEF HandleResponse, Answer
    <2>23. CASE ReadPush(t)
      BY <2>23 DEF ReadPush, Step
    <2>24. CASE AckAcquire(t)
      BY <2>24 DEF AckAcquire, Step
    <2>25. CASE AckFlush(t)
      BY <2>25 DEF AckFlush, Step
    <2> QED
      BY <1>3, <2>1, <2>2, <2>3, <2>4, <2>5, <2>6, <2>7, <2>8, <2>9, <2>10, <2>11,
         <2>12, <2>13, <2>14, <2>15, <2>16, <2>17, <2>18, <2>19, <2>20, <2>21,
         <2>22, <2>23, <2>24, <2>25, Zenon DEF RunStep, TeardownStep, LoginReply
  <1>4. ASSUME NEW r \in Rpcs, RpcAct(r) PROVE ReplyInv'
    <2>1. CASE Register(r)
      BY <2>1 DEF Register, RpcStep, TableInv, IdleIsFresh
    <2>2. CASE Admit(r)
      BY <2>2 DEF Admit, ReplyWith, RpcStep
    <2>3. CASE Acquire(r)
      BY <2>3 DEF Acquire, ReplyWith, RpcStep
    <2>4. CASE Flush(r)
      BY <2>4 DEF Flush, ReplyWith, RpcStep
    <2>5. CASE Receive(r)
      BY <2>5 DEF Receive, RpcStep
    <2>6. CASE Timeout(r)
      BY <2>6 DEF Timeout, ReplyWith, RpcStep
    <2>7. CASE Abandon(r)
      BY <2>7 DEF Abandon, ReplyWith
    <2>8. CASE Finish(r)
      BY <2>8 DEF Finish, RpcStep
    <2> QED
      BY <1>4, <2>1, <2>2, <2>3, <2>4, <2>5, <2>6, <2>7, <2>8, Zenon DEF RpcAct
  <1> QED
    BY <1>1, <1>2, <1>3, <1>4 DEF Next

\* What a new event makes of the last one heard of the run tasks.
LEMMA LastType == ASSUME NEW log \in Seq(Events) PROVE LastOfRun(log)[2] \in 0..MaxSessions
  <1>1. \A i \in 1..Len(log) : log[i][2] \in 0..MaxSessions
    BY DEF Events
  <1>2. Unheard[2] \in 0..MaxSessions /\ Len(log) \in Nat
    BY DEF Unheard
  <1> DEFINE m == IF Len(log) > 0 /\ log[Len(log)] = Farewell THEN Len(log) - 1 ELSE Len(log)
  <1>4. m \in 0..Len(log)
    BY <1>2
  <1>5. LastOfRun(log) = IF m = 0 THEN Unheard ELSE log[m]
    BY DEF LastOfRun
  <1> HIDE DEF m
  <1>3. LastOfRun(log) = Unheard \/ \E i \in 1..Len(log) : LastOfRun(log) = log[i]
    BY <1>2, <1>4, <1>5
  <1> QED
    BY <1>1, <1>2, <1>3

LEMMA LastIsRun ==
  ASSUME NEW log \in Seq(Events), NEW e \in Events, e # Farewell
  PROVE  LastOfRun(Append(log, e)) = e
  BY DEF LastOfRun

LEMMA LastBeforeFarewell ==
  ASSUME NEW log \in Seq(Events), \A i \in 1..Len(log) : log[i] # Farewell
  PROVE  LastOfRun(Append(log, Farewell)) = LastOfRun(log)
  <1>1. Append(log, Farewell)[Len(log) + 1] = Farewell
        /\ Len(Append(log, Farewell)) = Len(log) + 1
        /\ \A i \in 1..Len(log) : Append(log, Farewell)[i] = log[i]
    BY EventType
  <1> QED
    BY <1>1 DEF LastOfRun

LEMMA AppendIndex ==
  ASSUME NEW log \in Seq(Events), NEW e \in Events
  PROVE  /\ Len(Append(log, e)) = Len(log) + 1 /\ Append(log, e)[Len(log) + 1] = e
         /\ \A i \in 1..Len(log) : Append(log, e)[i] = log[i]
  OBVIOUS

LEMMA EventKinds ==
  \A s \in 0..MaxSessions :
    /\ Login(s) # Farewell /\ Login(s)[1] = "login" /\ Login(s)[2] = s
    /\ Lost(s) # Farewell /\ Lost(s)[1] = "lost" /\ Lost(s)[2] = s
    /\ Login(s)[1] # "lost" /\ Lost(s)[1] # "login" /\ Farewell[1] \notin {"login", "lost"}
  BY DEF Login, Lost, Farewell

\* No step announces a session twice, or one that session_ref() does not yet give.
LEMMA EventInvStep == ASSUME TypeOK, TypeOK', RunInv, EventInv, Next PROVE EventInv'
  <1>t. /\ runPc \in [Tasks -> RunPcs] /\ session \in [Tasks -> 0..MaxSessions]
        /\ closePc \in [Closers -> ClosePcs] /\ events \in Seq(Events)
        /\ connectionId \in 0..MaxSessions
        /\ LastOfRun(events)[2] \in 0..MaxSessions
    BY LastType DEF TypeOK, StateType, HistoryType, CallType, RunType
  <1>o. ASSUME OneTalker, \A u \in Tasks : runPc'[u] \in Active \cup {"report"} =>
                                        runPc[u] \in Active \cup {"report"}
        PROVE  OneTalker'
    BY <1>o DEF OneTalker
  <1>i. OneServingTask /\ SoleTask /\ CloseMarksFirst /\ EventInv
    BY DEF RunInv
  <1> USE <1>t, <1>i DEF stateVars, linkVars, eventVars, connectVars, closeVars,
             runVars, rpcVars, taskVars, ConnectFrame, CloseFrame, RunFrame, RpcFrame,
             EventInv, LoginInfoIsCurrent, EventsHeard, OneTalker, LoginIsReported,
             SessionIsNew, NothingAfter, OneServingTask, SoleTask, CloseMarksFirst, Active,
             Announced, RunPcs, ClosePcs
  <1>1. ASSUME NEW c \in Connectors, ConnectStep(c) PROVE EventInv'
    <2>1. CASE Connect(c)
      BY <2>1 DEF Connect
    <2>2. CASE EnsureStarted(c)
      <3>1. CASE \E u \in handle : runPc[u] # "done"
        BY <2>2, <3>1 DEF EnsureStarted
      <3>2. CASE \A u \in handle : runPc[u] = "done"
        <4>1. /\ runPc' = [runPc EXCEPT ![c] = "start"]
              /\ UNCHANGED <<closed, session, linkVars, eventVars, closeVars>>
          BY <2>2, <3>2, Zenon DEF EnsureStarted
        <4>2. \A u \in Tasks : ~closed => runPc[u] \in {"none", "done"}
          BY <3>2
        <4>3. LastOfRun(events)[1] = "login" => closed
          BY <4>2
        <4>4. \A u \in Tasks : runPc'[u] # runPc[u] => runPc'[u] = "start"
          BY <4>1
        <4>5. LoginInfoIsCurrent' /\ OneTalker'
          BY <4>1, <4>4
        <4>6. EventsHeard' /\ NothingAfter'
          BY <4>1, <4>4
        <4>7. LoginIsReported' /\ SessionIsNew'
          BY <4>1, <4>3, <4>4
        <4> QED
          BY <4>5, <4>6, <4>7
      <3> QED
        BY <3>1, <3>2
    <2>3. CASE Arm(c)
      BY <2>3 DEF Arm
    <2>4. CASE Inspect(c)
      BY <2>4 DEF Inspect
    <2>5. CASE Wake(c)
      BY <2>5 DEF Wake
    <2> QED
      BY <1>1, <2>1, <2>2, <2>3, <2>4, <2>5, Zenon DEF ConnectStep
  <1>2. ASSUME NEW k \in Closers, CloseStep(k) PROVE EventInv'
    <2>1. CASE CloseMark(k)
      <3> USE <2>1 DEF CloseMark, CloseTo
      <3>1. LoginInfoIsCurrent' /\ OneTalker'
        OBVIOUS
      <3>2. EventsHeard' /\ NothingAfter'
        <4>1. CASE closed
          BY <4>1
        <4>2. CASE ~closed
          <5>1. \A i \in 1..Len(events) : events[i] # Farewell
            BY <4>2
          <5>2. \A j \in Closers : closePc'[j] \in {"notify", "emit"} => j = k
            BY <4>2
          <5>3. closed' /\ events' = events /\ runPc' = runPc
            BY <4>2
          <5> QED
            BY <5>1, <5>2, <5>3
        <4> QED
          BY <4>1, <4>2
      <3>3. LoginIsReported' /\ SessionIsNew'
        OBVIOUS
      <3> QED
        BY <3>1, <3>2, <3>3
    <2>2. CASE CloseNotify(k)
      BY <2>2 DEF CloseNotify, NotifyWaiters, CloseTo
    <2>3. CASE CloseEmit(k)
      <3> USE <2>3 DEF CloseEmit, CloseTo
      <3>1. CASE ~eventsOpen
        BY <3>1 DEF Emit
      <3>2. CASE eventsOpen
        <4>1. /\ events' = Append(events, Farewell)
              /\ \A n \in 1..Len(events) : events[n] # Farewell
          BY <3>2 DEF Emit
        <4>2. LastOfRun(events') = LastOfRun(events)
          BY <4>1, LastBeforeFarewell
        <4>3. /\ Len(events') = Len(events) + 1
              /\ \A n \in 1..Len(events) : events'[n] # Farewell
          BY <4>1, AppendIndex, EventType
        <4>4. LoginInfoIsCurrent' /\ OneTalker' /\ LoginIsReported' /\ SessionIsNew'
          <5> USE <4>2 DEF CloseFrame
          <5>1. LoginInfoIsCurrent' /\ OneTalker'
            OBVIOUS
          <5>2. LoginIsReported' /\ SessionIsNew'
            BY <3>2
          <5> QED
            BY <5>1, <5>2
        <4>5. EventsHeard' /\ NothingAfter'
          BY <4>3
        <4> QED
          BY <4>4, <4>5
      <3> QED
        BY <3>1, <3>2
    <2>4. CASE CloseFailPending(k)
      BY <2>4 DEF CloseFailPending, FailAllPending, Answer, CloseTo
    <2>5. CASE TakeWriter(k)
      BY <2>5 DEF TakeWriter, CloseTo
    <2>6. CASE AbortRun(k)
      BY <2>6 DEF AbortRun, CloseTo
    <2>7. CASE JoinRun(k)
      BY <2>7 DEF JoinRun, CloseTo
    <2>8. CASE DropEvents(k)
      BY <2>8 DEF DropEvents, CloseTo
    <2> QED
      BY <1>2, <2>1, <2>2, <2>3, <2>4, <2>5, <2>6, <2>7, <2>8, Zenon DEF CloseStep
  <1>3. ASSUME NEW t \in Tasks, RunStep(t) PROVE EventInv'
    <2>1. CASE CheckClosed(t)
      <3> USE <2>1 DEF CheckClosed, FailWith, Step
      <3>1. CASE closed
        BY <3>1
      <3>2. CASE ~closed
        <4>1. \A u \in Tasks : u # t => runPc[u] \in {"none", "done"}
          BY <3>2, OthersStopped
        <4>2. LastOfRun(events)[1] # "login"
          BY <3>2, <4>1
        <4>3. LoginInfoIsCurrent' /\ EventsHeard' /\ SessionIsNew'
          BY <3>2
        <4>4. OneTalker' /\ LoginIsReported'
          <5>1. OneTalker'
            <6>1. \A u \in Tasks : u # t => runPc'[u] \in {"none", "done"}
              BY <4>1
            <6>2. \A u \in Tasks : runPc'[u] \in Active \cup {"report"} => u = t
              BY <6>1
            <6> HIDE DEF Active
            <6> QED
              BY <6>2, Zenon
          <5>2. ~closed' /\ LastOfRun(events')[1] # "login" /\ runPc'[t] = "dial"
            BY <3>2, <4>2
          <5> QED
            BY <3>2, <4>1, <5>1, <5>2
        <4>5. NothingAfter'
          BY <3>2
        <4> QED
          BY <4>3, <4>4, <4>5
      <3> QED
        BY <3>1, <3>2
    <2>2. CASE Dial(t)
      <3> USE <2>2 DEF Dial, FailWith, Step
      <3>1. LoginInfoIsCurrent' /\ OneTalker'
        <4>1. \A u \in Tasks : u # t => runPc'[u] = runPc[u]
          OBVIOUS
        <4>2. runPc[t] = "dial" /\ runPc'[t] \in {"reply", "judge"}
          OBVIOUS
        <4>3. OneTalker'
          BY <1>o, <4>1, <4>2
        <4> QED
          BY <4>1, <4>2, <4>3
      <3>2. EventsHeard' /\ NothingAfter'
        OBVIOUS
      <3>3. LoginIsReported' /\ SessionIsNew'
        OBVIOUS
      <3> QED
        BY <3>1, <3>2, <3>3
    <2>3. CASE LoginAccepted(t)
      <3> USE <2>3 DEF LoginAccepted, Step
      <3>1. LoginInfoIsCurrent' /\ OneTalker'
        OBVIOUS
      <3>2. EventsHeard' /\ NothingAfter'
        OBVIOUS
      <3>3. LoginIsReported' /\ SessionIsNew'
        OBVIOUS
      <3> QED
        BY <3>1, <3>2, <3>3
    <2>4. CASE LoginUnauthorized(t)
      <3> USE <2>4 DEF LoginUnauthorized, FailWith, Step
      <3>1. LoginInfoIsCurrent' /\ OneTalker'
        OBVIOUS
      <3>2. EventsHeard' /\ NothingAfter'
        OBVIOUS
      <3>3. LoginIsReported' /\ SessionIsNew'
        OBVIOUS
      <3> QED
        BY <3>1, <3>2, <3>3
    <2>5. CASE LoginFails(t)
      BY <2>5 DEF LoginFails, FailWith, ReadErrors, Step
    <2>6. CASE Install(t)
      BY <2>6 DEF Install, Step
    <2>7. CASE MarkConnected(t)
      BY <2>7 DEF MarkConnected, NotifyWaiters, Step
    <2>8. CASE StoreLogin(t)
      BY <2>8 DEF StoreLogin, Step
    <2>9. CASE AnnounceLogin(t)
      <3> USE <2>9 DEF AnnounceLogin, Step
      <3>1. CASE ~eventsOpen
        BY <3>1 DEF Emit
      <3>2. CASE eventsOpen
        <4>1. /\ events' = Append(events, Login(session[t])) /\ session[t] \in 0..MaxSessions
              /\ Login(session[t]) \in Events /\ Login(session[t]) # Farewell
          BY <3>2, EventType, EventKinds DEF Emit
        <4>2. LastOfRun(events') = Login(session[t])
          BY <4>1, LastIsRun
        <4>3. /\ Len(events') = Len(events) + 1 /\ events'[Len(events) + 1] = Login(session[t])
              /\ \A i \in 1..Len(events) : events'[i] = events[i]
          BY <4>1, AppendIndex
        <4>4. \A u \in Tasks : u # t => runPc[u] \notin Active \cup {"report"}
          OBVIOUS
        <4>5. LoginInfoIsCurrent' /\ OneTalker'
          BY <4>4
        <4>6. EventsHeard'
          <5>1. \A i \in 1..Len(events') : events'[i] = Farewell =>
                  i \in 1..Len(events) /\ events[i] = Farewell
            BY <4>1, <4>3
          <5>2. UNCHANGED <<closed, closePc, eventsOpen>>
            BY DEF Emit
          <5> QED
            BY <5>1, <5>2
        <4>7. LoginIsReported'
          BY <3>2, <4>1, <4>2, <4>4, EventKinds
        <4>8. SessionIsNew'
          BY <3>2, <4>1, <4>2, <4>4, EventKinds
        <4>9. NothingAfter'
          <5>1. \A i \in 1..(Len(events) - 1) : events[i] # Farewell
            <6>1. Len(events) > 1 => events[Len(events) - 1] # Farewell
              OBVIOUS
            <6> QED
              BY <6>1
          <5> QED
            BY <4>1, <4>3, <4>4, <5>1
        <4> QED
          BY <4>5, <4>6, <4>7, <4>8, <4>9
      <3> QED
        BY <3>1, <3>2
    <2>10. CASE ReadFails(t)
      BY <2>10 DEF ReadFails, FailWith, ReadErrors, Step
    <2>11. CASE StopPing(t)
      BY <2>11 DEF StopPing, Step
    <2>12. CASE Unmark(t)
      BY <2>12 DEF Unmark, NotifyWaiters, Step
    <2>13. CASE ClearWriter(t)
      BY <2>13 DEF ClearWriter, Step
    <2>14. CASE CheckOpen(t)
      BY <2>14 DEF CheckOpen, Step
    <2>15. CASE FailDisconnected(t)
      BY <2>15 DEF FailDisconnected, FailAllPending, Answer, Step
    <2>16. CASE ReportDisconnect(t)
      <3> USE <2>16 DEF ReportDisconnect, Step
      <3>1. CASE ~eventsOpen
        BY <3>1 DEF Emit
      <3>2. CASE eventsOpen
        <4>1. /\ events' = Append(events, Lost(session[t])) /\ session[t] \in 0..MaxSessions
              /\ Lost(session[t]) \in Events /\ Lost(session[t]) # Farewell
          BY <3>2, EventType, EventKinds DEF Emit
        <4>2. LastOfRun(events') = Lost(session[t])
          BY <4>1, LastIsRun
        <4>3. /\ Len(events') = Len(events) + 1 /\ events'[Len(events) + 1] = Lost(session[t])
              /\ \A i \in 1..Len(events) : events'[i] = events[i]
          BY <4>1, AppendIndex
        <4>4. \A u \in Tasks : u # t => runPc[u] \notin Active \cup {"report"}
          OBVIOUS
        <4>5. LoginInfoIsCurrent' /\ OneTalker'
          BY <4>4
        <4>6. EventsHeard'
          <5>1. \A i \in 1..Len(events') : events'[i] = Farewell =>
                  i \in 1..Len(events) /\ events[i] = Farewell
            BY <4>1, <4>3
          <5>2. UNCHANGED <<closed, closePc, eventsOpen>>
            BY DEF Emit
          <5> QED
            BY <5>1, <5>2
        <4>7. LoginIsReported'
          BY <3>2, <4>1, <4>2, <4>4, EventKinds
        <4>8. SessionIsNew'
          BY <3>2, <4>1, <4>2, <4>4, EventKinds
        <4>9. NothingAfter'
          <5>1. \A i \in 1..(Len(events) - 1) : events[i] # Farewell
            <6>1. Len(events) > 1 => events[Len(events) - 1] # Farewell
              OBVIOUS
            <6> QED
              BY <6>1
          <5> QED
            BY <4>1, <4>3, <4>4, <5>1
        <4> QED
          BY <4>5, <4>6, <4>7, <4>8, <4>9
      <3> QED
        BY <3>1, <3>2
    <2>17. CASE Judge(t)
      BY <2>17 DEF Judge, Step
    <2>18. CASE Backoff(t)
      BY <2>18 DEF Backoff, NextDelay, Step
    <2>19. CASE FailFinal(t)
      BY <2>19 DEF FailFinal, FailAllPending, Answer, Step
    <2>20. CASE Settle(t)
      BY <2>20 DEF Settle, NotifyWaiters, DropLocals, FailWith, Step
    <2>21. CASE Cancelled(t)
      BY <2>21 DEF Cancelled, DropLocals, FailWith
    <2>22. ASSUME NEW r \in Rpcs, HandleResponse(t, r) PROVE EventInv'
      BY <2>22 DEF HandleResponse, Answer
    <2>23. CASE ReadPush(t)
      BY <2>23 DEF ReadPush, Step
    <2>24. CASE AckAcquire(t)
      BY <2>24 DEF AckAcquire, Step
    <2>25. CASE AckFlush(t)
      BY <2>25 DEF AckFlush, Step
    <2> QED
      BY <1>3, <2>1, <2>2, <2>3, <2>4, <2>5, <2>6, <2>7, <2>8, <2>9, <2>10, <2>11,
         <2>12, <2>13, <2>14, <2>15, <2>16, <2>17, <2>18, <2>19, <2>20, <2>21,
         <2>22, <2>23, <2>24, <2>25, Zenon DEF RunStep, TeardownStep, LoginReply
  <1>4. ASSUME NEW r \in Rpcs, RpcAct(r) PROVE EventInv'
    <2>1. CASE Register(r)
      BY <2>1 DEF Register, RpcStep
    <2>2. CASE Admit(r)
      BY <2>2 DEF Admit, ReplyWith, RpcStep
    <2>3. CASE Acquire(r)
      BY <2>3 DEF Acquire, ReplyWith, RpcStep
    <2>4. CASE Flush(r)
      BY <2>4 DEF Flush, ReplyWith, RpcStep
    <2>5. CASE Receive(r)
      BY <2>5 DEF Receive, RpcStep
    <2>6. CASE Timeout(r)
      BY <2>6 DEF Timeout, ReplyWith, RpcStep
    <2>7. CASE Abandon(r)
      BY <2>7 DEF Abandon, ReplyWith
    <2>8. CASE Finish(r)
      BY <2>8 DEF Finish, RpcStep
    <2> QED
      BY <1>4, <2>1, <2>2, <2>3, <2>4, <2>5, <2>6, <2>7, <2>8, Zenon DEF RpcAct
  <1> QED
    BY <1>1, <1>2, <1>3, <1>4 DEF Next

\* Only three steps send an event, and each sends one that fits.
LEMMA EventFits ==
  ASSUME IInv, Next, events' # events
  PROVE  \E e \in Events : events' = Append(events, e) /\ Fits(events, e)
  <1>0. /\ events \in Seq(Events) /\ EventInv /\ CloseMarksFirst
        /\ session \in [Tasks -> 0..MaxSessions]
    BY DEF IInv, TypeOK, HistoryType, RunType, RunInv
  <1>1. \/ \E k \in Closers : CloseEmit(k)
        \/ \E t \in Tasks : AnnounceLogin(t) \/ ReportDisconnect(t)
    BY Emitters
  <1>2. ASSUME NEW k \in Closers, CloseEmit(k) PROVE Fits(events, Farewell)
    <2>1. closePc[k] = "emit"
      BY <1>2 DEF CloseEmit
    <2>2. \A i \in 1..Len(events) : events[i] # Farewell
      BY <1>0, <2>1 DEF EventInv, EventsHeard
    <2>3. Farewell[1] \notin {"login", "lost"}
      BY DEF Farewell
    <2> QED
      BY <1>0, <2>2, <2>3 DEF Fits
  <1>3. ASSUME NEW t \in Tasks, AnnounceLogin(t) PROVE Fits(events, Login(session[t]))
    <2>1. eventsOpen /\ runPc[t] = "announce"
      BY <1>3 DEF AnnounceLogin, Emit, Step
    <2>2. LastOfRun(events)[1] # "login" /\ LastOfRun(events)[2] < session[t]
      BY <1>0, <2>1 DEF EventInv, LoginIsReported, SessionIsNew, Active, Announced
    <2>3. \A i \in 1..(Len(events) - 1) : events[i] # Farewell
      BY <1>0, <2>1 DEF EventInv, NothingAfter, Active, Announced
    <2>4. session[t] \in 0..MaxSessions
      BY <1>0
    <2> QED
      BY <2>2, <2>3, <2>4, EventKinds DEF Fits
  <1>4. ASSUME NEW t \in Tasks, ReportDisconnect(t) PROVE Fits(events, Lost(session[t]))
    <2>1. eventsOpen /\ runPc[t] = "report"
      BY <1>4 DEF ReportDisconnect, Emit, Step
    <2>2. LastOfRun(events) = Login(session[t])
      BY <1>0, <2>1 DEF EventInv, LoginIsReported, Announced
    <2>3. \A i \in 1..(Len(events) - 1) : events[i] # Farewell
      BY <1>0, <2>1 DEF EventInv, NothingAfter
    <2>4. session[t] \in 0..MaxSessions
      BY <1>0
    <2> QED
      BY <2>2, <2>3, <2>4, EventKinds DEF Fits
  <1>5. \A t \in Tasks : Login(session[t]) \in Events /\ Lost(session[t]) \in Events
    BY <1>0, EventType
  <1> QED
    BY <1>1, <1>2, <1>3, <1>4, <1>5, EventType DEF CloseEmit, AnnounceLogin, ReportDisconnect,
                                                    Emit

\* No step leaves an entry of the table without an owner.
LEMMA TableInvStep == ASSUME TypeOK, TypeOK', RunInv, RpcInv, TableInv, Next PROVE TableInv'
  <1> USE DEF TypeOK, StateType, CallType, RunType, RpcType, RunPcs, ClosePcs, RpcPcs, Errors,
             Tasks, Rpcs, RunInv, stateVars, linkVars, eventVars, connectVars, closeVars,
             runVars, rpcVars, taskVars, ConnectFrame, CloseFrame, RunFrame, RpcFrame,
             RpcInv, TableInv, EntryIsOpen, IdleIsFresh, PendingHasOwner, SessionWillAnswer,
             SessionPending, SoleTask, CloseMarksFirst, Serving
  <1>1. ASSUME NEW c \in Connectors, ConnectStep(c) PROVE TableInv'
    <2>1. CASE Connect(c)
      BY <2>1 DEF Connect
    <2>2. CASE EnsureStarted(c)
      BY <2>2 DEF EnsureStarted, NotifyWaiters
    <2>3. CASE Arm(c)
      BY <2>3 DEF Arm
    <2>4. CASE Inspect(c)
      BY <2>4 DEF Inspect
    <2>5. CASE Wake(c)
      BY <2>5 DEF Wake
    <2> QED
      BY <1>1, <2>1, <2>2, <2>3, <2>4, <2>5, Zenon DEF ConnectStep
  <1>2. ASSUME NEW k \in Closers, CloseStep(k) PROVE TableInv'
    <2>1. CASE CloseMark(k)
      BY <2>1 DEF CloseMark, CloseTo
    <2>2. CASE CloseNotify(k)
      BY <2>2 DEF CloseNotify, NotifyWaiters, CloseTo
    <2>3. CASE CloseEmit(k)
      BY <2>3 DEF CloseEmit, Emit, CloseTo
    <2>4. CASE CloseFailPending(k)
      BY <2>4 DEF CloseFailPending, FailAllPending, Answer, CloseTo
    <2>5. CASE TakeWriter(k)
      BY <2>5 DEF TakeWriter, CloseTo
    <2>6. CASE AbortRun(k)
      BY <2>6 DEF AbortRun, CloseTo
    <2>7. CASE JoinRun(k)
      BY <2>7 DEF JoinRun, CloseTo
    <2>8. CASE DropEvents(k)
      BY <2>8 DEF DropEvents, CloseTo
    <2> QED
      BY <1>2, <2>1, <2>2, <2>3, <2>4, <2>5, <2>6, <2>7, <2>8, Zenon DEF CloseStep
  <1>3. ASSUME NEW t \in Tasks, RunStep(t) PROVE TableInv'
    <2>1. CASE CheckClosed(t)
      BY <2>1 DEF CheckClosed, FailWith, Step
    <2>2. CASE Dial(t)
      BY <2>2 DEF Dial, FailWith, Step
    <2>3. CASE LoginAccepted(t)
      BY <2>3 DEF LoginAccepted, Step
    <2>4. CASE LoginUnauthorized(t)
      BY <2>4 DEF LoginUnauthorized, FailWith, Step
    <2>5. CASE LoginFails(t)
      BY <2>5 DEF LoginFails, FailWith, ReadErrors, Step
    <2>6. CASE Install(t)
      BY <2>6 DEF Install, Step
    <2>7. CASE MarkConnected(t)
      BY <2>7 DEF MarkConnected, NotifyWaiters, Step
    <2>8. CASE StoreLogin(t)
      BY <2>8 DEF StoreLogin, Step
    <2>9. CASE AnnounceLogin(t)
      BY <2>9 DEF AnnounceLogin, Step
    <2>10. CASE ReadFails(t)
      BY <2>10 DEF ReadFails, FailWith, ReadErrors, Step
    <2>11. CASE StopPing(t)
      BY <2>11 DEF StopPing, Step
    <2>12. CASE Unmark(t)
      BY <2>12 DEF Unmark, NotifyWaiters, Step
    <2>13. CASE ClearWriter(t)
      BY <2>13 DEF ClearWriter, Step
    <2>14. CASE CheckOpen(t)
      BY <2>14 DEF CheckOpen, Step
    <2>15. CASE FailDisconnected(t)
      BY <2>15 DEF FailDisconnected, FailAllPending, Answer, Step
    <2>16. CASE ReportDisconnect(t)
      BY <2>16 DEF ReportDisconnect, Step
    <2>17. CASE Judge(t)
      BY <2>17 DEF Judge, Step
    <2>18. CASE Backoff(t)
      BY <2>18 DEF Backoff, NextDelay, Step
    <2>19. CASE FailFinal(t)
      BY <2>19 DEF FailFinal, FailAllPending, Answer, Step
    <2>20. CASE Settle(t)
      BY <2>20 DEF Settle, NotifyWaiters, DropLocals, FailWith, Step
    <2>21. CASE Cancelled(t)
      BY <2>21 DEF Cancelled, DropLocals, FailWith
    <2>22. ASSUME NEW r \in Rpcs, HandleResponse(t, r) PROVE TableInv'
      BY <2>22 DEF HandleResponse, Answer
    <2>23. CASE ReadPush(t)
      BY <2>23 DEF ReadPush, Step
    <2>24. CASE AckAcquire(t)
      BY <2>24 DEF AckAcquire, Step
    <2>25. CASE AckFlush(t)
      BY <2>25 DEF AckFlush, Step
    <2> QED
      BY <1>3, <2>1, <2>2, <2>3, <2>4, <2>5, <2>6, <2>7, <2>8, <2>9, <2>10, <2>11,
         <2>12, <2>13, <2>14, <2>15, <2>16, <2>17, <2>18, <2>19, <2>20, <2>21,
         <2>22, <2>23, <2>24, <2>25, Zenon DEF RunStep, TeardownStep, LoginReply
  <1>4. ASSUME NEW r \in Rpcs, RpcAct(r) PROVE TableInv'
    <2>1. CASE Register(r)
      BY <2>1 DEF Register, RpcStep
    <2>2. CASE Admit(r)
      BY <2>2 DEF Admit, ReplyWith, RpcStep
    <2>3. CASE Acquire(r)
      BY <2>3 DEF Acquire, ReplyWith, RpcStep
    <2>4. CASE Flush(r)
      BY <2>4 DEF Flush, ReplyWith, RpcStep
    <2>5. CASE Receive(r)
      BY <2>5 DEF Receive, RpcStep
    <2>6. CASE Timeout(r)
      BY <2>6 DEF Timeout, ReplyWith, RpcStep
    <2>7. CASE Abandon(r)
      BY <2>7 DEF Abandon, ReplyWith
    <2>8. CASE Finish(r)
      BY <2>8 DEF Finish, RpcStep
    <2> QED
      BY <1>4, <2>1, <2>2, <2>3, <2>4, <2>5, <2>6, <2>7, <2>8, Zenon DEF RpcAct
  <1> QED
    BY <1>1, <1>2, <1>3, <1>4 DEF Next

\* For any number of calls, sessions and delays, every state has the inductive invariant:
\* who holds the run task and the writer, and who will answer each request, through
\* close(), aborts and reconnects (src/src/client.rs:570-647, 1619-1719, 2006-2065).
THEOREM Invariance == Spec => []IInv
  <1> USE DEF RunInv, OneServingTask, ConnectedIsWritable, SoleTask, CloseMarksFirst,
              SessionGiven, ErrorKnown, WriterInstalled, WriterOwned, AbortOutstanding,
              WakeInv, NoLostWakeup, HandleSpawned, StartedOrFailed, RpcInv,
              UnansweredIsPending, CloseWillAnswer, SessionWillAnswer, ReplyInv,
              AnswerIsServers, EndedHasOutcome, EventInv,
              LoginInfoIsCurrent, EventsHeard, OneTalker, LoginIsReported, SessionIsNew,
              NothingAfter, TableInv,
              EntryIsOpen, IdleIsFresh, PendingHasOwner
  <1>1. Init => RunInv /\ WakeInv /\ RpcInv /\ ReplyInv /\ EventInv /\ TableInv
    BY DEF Init, Tasks, Rpcs, Active, Serving, Holding, Announced, LastOfRun, Unheard
  <1>2. ASSUME UNCHANGED vars, RunInv, WakeInv, RpcInv, ReplyInv, EventInv, TableInv
        PROVE  RunInv' /\ WakeInv' /\ RpcInv' /\ ReplyInv' /\ EventInv' /\ TableInv'
    BY <1>2 DEF vars, stateVars, linkVars, eventVars, connectVars, closeVars, runVars,
           rpcVars, CloseFailurePending, SessionPending, RunGoesOn
  <1> HIDE DEF RunInv, WakeInv, RpcInv, ReplyInv, EventInv, TableInv
  <1>3. /\ TypeOK /\ TypeOK' /\ RunInv /\ WakeInv /\ RpcInv /\ ReplyInv /\ EventInv /\ TableInv
        /\ [Next]_vars
        => RunInv' /\ WakeInv' /\ RpcInv' /\ ReplyInv' /\ EventInv' /\ TableInv'
    BY <1>2, RunInvStep, WakeInvStep, RpcInvStep, ReplyInvStep, EventInvStep,
        TableInvStep
  <1> QED
    BY <1>1, <1>3, TypeCorrect, PTL DEF Spec, IInv

\* Two run tasks never serve at once: ensure_started() and the joins of close()
\* (src/src/client.rs:1569, 639) keep them apart.
THEOREM OneTask == Spec => []OneServingTask
  <1>1. IInv => OneServingTask
    BY DEF IInv, RunInv
  <1> QED
    BY Invariance, <1>1, PTL

\* The connected flag of an open client implies a writer that the serving task
\* installed and has not begun to take down (src/src/client.rs:1687-1707).
THEOREM ConnectedWritable == Spec => []ConnectedIsWritable
  <1>1. IInv => ConnectedIsWritable
    BY DEF IInv, RunInv
  <1> QED
    BY Invariance, <1>1, PTL

\* When all close() calls have returned no run task is at work: each was aborted
\* and joined, or saw the closed flag (src/src/client.rs:639-643, 1648).
THEOREM CloseQuiet == Spec => []QuietAfterClose
  <1>1. IInv => QuietAfterClose
    <2> SUFFICES ASSUME IInv, CloseReturned, NEW t \in Tasks, runPc[t] \in Active
                 PROVE  FALSE
      BY DEF QuietAfterClose
    <2>1. \A k \in Closers : closePc[k] \in {"idle", "done"}
      BY DEF CloseReturned, Closing
    <2>2. closed
      BY DEF IInv, RunInv, CloseMarksFirst, CloseReturned
    <2> QED
      BY <2>1, <2>2 DEF IInv, RunInv, AbortOutstanding
  <1> QED
    BY Invariance, <1>1, PTL

\* A request with no answer is in the table, and the teardown of its session or
\* the drain of a close() is still to come (src/src/client.rs:1706-1709, 636).
THEOREM RequestsAnswered == Spec => []NoStrandedRequest
  <1>1. IInv => NoStrandedRequest
    <2> SUFFICES ASSUME IInv, NEW r \in Rpcs, rpcPc[r] = "wait", reply[r] = "none"
                 PROVE  r \in pending /\ (SessionPending(sentOn[r]) \/ CloseFailurePending)
      BY DEF NoStrandedRequest
    <2>1. r \in pending
      BY DEF IInv, RpcInv, UnansweredIsPending
    <2>2. CASE closed
      BY <2>1, <2>2 DEF IInv, RpcInv, CloseWillAnswer
    <2>3. CASE ~closed
      BY <2>1, <2>3 DEF IInv, RpcInv, SessionWillAnswer
    <2> QED
      BY <2>2, <2>3
  <1> QED
    BY Invariance, <1>1, PTL

\* The Login and the Disconnect events of the run tasks alternate, session by session,
\* and close() adds one Disconnect of its own, after which at most one event comes:
\* through close(), aborts and reconnects (src/src/client.rs:630-634, 1692-1716).
THEOREM EventsAlternating == Spec => EventsAlternate
  <1>1. IInv /\ [Next]_vars =>
          [events' # events =>
             \E e \in Events : events' = Append(events, e) /\ Fits(events, e)]_vars
    BY EventFits DEF vars, eventVars
  <1> QED
    BY Invariance, <1>1, PTL DEF Spec, EventsAlternate

\* The table of pending requests does not grow with calls that returned, and loses those
\* of dropped calls and killed pings with their connection
\* (src/src/client.rs:2033-2064, 1703-1709).
THEOREM EntriesOwned == Spec => []PendingHasOwner
  <1>1. IInv => PendingHasOwner
    BY DEF IInv, TableInv
  <1> QED
    BY Invariance, <1>1, PTL

\* No connect() sleeps through the change it waits for: between its look at the state and
\* its wait, every writer of the state notifies it (src/src/client.rs:584-597).
THEOREM ConnectsWoken == Spec => []NoLostWakeup
  <1>1. IInv => NoLostWakeup
    BY DEF IInv, WakeInv
  <1> QED
    BY Invariance, <1>1, PTL

\* A step that leaves the calls of the application where they are changes nothing that
\* RpcCalls sees.
LEMMA CallsRest ==
  ASSUME \A r \in Requests : CallPhase(r)' = CallPhase(r) /\ CallOutcome(r)' = CallOutcome(r)
  PROVE  UNCHANGED Rpc!vars
  BY DEF Rpc!vars

\* A step that moves one call of the application moves it alone.
LEMMA CallMoves ==
  ASSUME NEW r \in Requests, NEW from, NEW to,
         CallPhase(r) = from, CallPhase(r)' = to,
         \A q \in Requests \ {r} : rpcPc'[q] = rpcPc[q] /\ reply'[q] = reply[q]
  PROVE  /\ Rpc!Becomes(r, from, to)
         /\ CallOutcome(r)' = CallOutcome(r) => UNCHANGED [q \in Requests |-> CallOutcome(q)]
         /\ \A o : CallOutcome(r)' = {o} => Rpc!Returns(r, o)
  <1>1. \A q \in Requests \ {r} : CallPhase(q)' = CallPhase(q) /\ CallOutcome(q)' = CallOutcome(q)
    BY DEF CallPhase, CallOutcome
  <1>2. [q \in Requests |-> CallPhase(q)]' = [[q \in Requests |-> CallPhase(q)] EXCEPT ![r] = to]
    BY <1>1
  <1>3. ASSUME NEW o, CallOutcome(r)' = {o} PROVE Rpc!Returns(r, o)
    BY <1>1, <1>3 DEF Rpc!Returns
  <1> QED
    BY <1>1, <1>2, <1>3 DEF Rpc!Becomes

\* Draining the table with an error of the client changes no phase and no outcome.
LEMMA DrainKeepsCalls ==
  ASSUME TypeOK, ReplyInv, NEW e \in Errors, FailAllPending(e), UNCHANGED rpcPc
  PROVE  UNCHANGED Rpc!vars
  <1> SUFFICES ASSUME NEW r \in Requests
               PROVE  CallPhase(r)' = CallPhase(r) /\ CallOutcome(r)' = CallOutcome(r)
    BY CallsRest
  <1>1. reply'[r] = reply[r] \/ (reply[r] = "none" /\ reply'[r] = e)
    BY DEF FailAllPending, Answer, Rpcs
  <1>2. rpcPc[r] \in {"finish", "done"} => reply[r] # "none"
    BY DEF ReplyInv, EndedHasOutcome, Rpcs
  <1>3. rpcPc[r] \in RpcPcs /\ rpcPc'[r] = rpcPc[r]
    BY DEF TypeOK, RpcType, Rpcs
  <1>4. CASE reply'[r] = reply[r]
    BY <1>3, <1>4 DEF CallPhase, CallOutcome
  <1>5. CASE reply[r] = "none" /\ reply'[r] = e
    <2>1. reply[r] # "ok" /\ reply'[r] # "ok"
      BY <1>5 DEF Errors
    <2>2. rpcPc[r] \notin {"finish", "done"}
      BY <1>2, <1>5
    <2> QED
      BY <1>3, <2>1, <2>2 DEF CallPhase, CallOutcome, RpcPcs
  <1> QED
    BY <1>1, <1>4, <1>5

\* Every step of the client is a step of RpcCalls or changes nothing that it sees.
LEMMA CallsStep == ASSUME IInv, Next PROVE Rpc!Next \/ UNCHANGED Rpc!vars
  <1> DEFINE Goal == Rpc!Next \/ UNCHANGED Rpc!vars
  <1>0. TypeOK /\ RunInv /\ TableInv /\ ReplyInv
    BY DEF IInv
  <1>a. UNCHANGED <<rpcPc, reply>> => Goal
    BY CallsRest DEF CallPhase, CallOutcome
  <1>b. Requests \subseteq Rpcs /\ Requests \cap Tasks = {} /\ Rpcs = Requests \cup Tasks
    BY DEF Rpcs, Tasks
  <1> USE DEF stateVars, linkVars, eventVars, connectVars, closeVars, runVars, rpcVars,
          taskVars, ConnectFrame, CloseFrame, RunFrame, RpcFrame
  <1>1. ASSUME NEW c \in Connectors, ConnectStep(c) PROVE Goal
    BY <1>a, <1>1 DEF ConnectStep, Connect, EnsureStarted, Arm, Inspect, Wake
  <1>2. ASSUME NEW k \in Closers, CloseStep(k) PROVE Goal
    <2>1. CASE CloseFailPending(k)
      BY <1>0, <2>1, DrainKeepsCalls DEF CloseFailPending, Errors
    <2>2. CASE CloseMark(k) \/ CloseNotify(k) \/ CloseEmit(k) \/ TakeWriter(k)
      BY <1>a, <2>2 DEF CloseMark, CloseNotify, CloseEmit, TakeWriter
    <2>3. CASE AbortRun(k) \/ JoinRun(k) \/ DropEvents(k)
      BY <1>a, <2>3 DEF AbortRun, JoinRun, DropEvents
    <2> QED
      BY <1>2, <2>1, <2>2, <2>3 DEF CloseStep
  <1>3. ASSUME NEW t \in Tasks, RunStep(t) PROVE Goal
    <2>1. CASE CheckClosed(t) \/ Dial(t) \/ LoginReply(t) \/ Install(t)
      BY <1>a, <2>1 DEF CheckClosed, Dial, LoginReply, LoginAccepted, LoginUnauthorized,
                        LoginFails, Install
    <2>2. CASE MarkConnected(t) \/ StoreLogin(t) \/ AnnounceLogin(t) \/ ReadFails(t)
      BY <1>a, <2>2 DEF MarkConnected, StoreLogin, AnnounceLogin, ReadFails
    <2>9. CASE ReadPush(t) \/ AckAcquire(t) \/ AckFlush(t)
      BY <1>a, <2>9 DEF ReadPush, AckAcquire, AckFlush
    <2>3. ASSUME NEW r \in Rpcs, HandleResponse(t, r) PROVE Goal
      <3>1. Answer({r}, "ok")
        BY <2>3 DEF HandleResponse
      <3>2. \A q \in Rpcs \ {r} : reply'[q] = reply[q]
        BY <1>0, <3>1 DEF Answer, TypeOK, RpcType
      <3>3. CASE reply'[r] = reply[r] \/ r \notin Requests
        <4>1. \A q \in Requests : reply'[q] = reply[q] /\ rpcPc'[q] = rpcPc[q]
          BY <1>b, <2>3, <3>2, <3>3 DEF HandleResponse
        <4> QED
          BY <4>1, CallsRest DEF CallPhase, CallOutcome
      <3>4. CASE reply'[r] # reply[r] /\ r \in Requests
        <4>1. reply[r] = "none" /\ rpcPc[r] \notin {"idle", "abandoned"} /\ reply'[r] = "ok"
          BY <2>3, <3>1, <3>4 DEF Answer
        <4>2. rpcPc[r] \in {"admit", "acquire", "flush", "wait"} /\ rpcPc' = rpcPc
          BY <1>0, <2>3, <4>1 DEF HandleResponse, TypeOK, RpcType, RpcPcs, ReplyInv,
                                  EndedHasOutcome
        <4>3. CallPhase(r) = "open" /\ CallPhase(r)' = "answered"
          BY <4>1, <4>2 DEF CallPhase
        <4>4. CallOutcome(r)' = CallOutcome(r)
          BY <4>2 DEF CallOutcome
        <4>5. Rpc!Hear(r)
          BY <1>b, <3>2, <3>4, <4>2, <4>3, <4>4, CallMoves DEF Rpc!Hear
        <4> QED
          BY <3>4, <4>5 DEF Rpc!Next
      <3> QED
        BY <3>3, <3>4
    <2>4. CASE StopPing(t)
      <3>1. \A q \in Requests : reply'[q] = reply[q] /\ rpcPc'[q] = rpcPc[q]
        BY <1>0, <1>b, <2>4 DEF StopPing, TypeOK, RpcType
      <3> QED
        BY <3>1, CallsRest DEF CallPhase, CallOutcome
    <2>5. CASE FailDisconnected(t)
      BY <1>0, <2>5, DrainKeepsCalls DEF FailDisconnected, Errors
    <2>6. CASE FailFinal(t)
      <3>1. runError[t] \in Errors
        BY <1>0, <2>6 DEF FailFinal, Step, RunInv, ErrorKnown, TypeOK, RunType
      <3> QED
        BY <1>0, <2>6, <3>1, DrainKeepsCalls DEF FailFinal
    <2>7. CASE Unmark(t) \/ ClearWriter(t) \/ CheckOpen(t) \/ ReportDisconnect(t)
      BY <1>a, <2>7 DEF Unmark, ClearWriter, CheckOpen, ReportDisconnect
    <2>8. CASE Judge(t) \/ Backoff(t) \/ Settle(t) \/ Cancelled(t)
      BY <1>a, <2>8 DEF Judge, Backoff, Settle, Cancelled
    <2> QED
      BY <1>3, <2>1, <2>2, <2>3, <2>4, <2>5, <2>6, <2>7, <2>8, <2>9, Zenon DEF RunStep, TeardownStep
  <1>4. ASSUME NEW r \in Rpcs, RpcAct(r) PROVE Goal
    <2>0. \A q \in Rpcs \ {r} : rpcPc'[q] = rpcPc[q] /\ reply'[q] = reply[q]
      BY <1>0, <1>4 DEF RpcAct, Register, Admit, Acquire, Flush, Receive, Timeout, Abandon,
                        Finish, RpcStep, ReplyWith, TypeOK, RpcType
    <2>1. CASE r \notin Requests
      <3>1. \A q \in Requests : reply'[q] = reply[q] /\ rpcPc'[q] = rpcPc[q]
        BY <1>b, <2>0, <2>1
      <3> QED
        BY <3>1, CallsRest DEF CallPhase, CallOutcome
    <2>2. CASE r \in Requests
      <3> USE <2>2
      <3>1. \A q \in Requests \ {r} : rpcPc'[q] = rpcPc[q] /\ reply'[q] = reply[q]
        BY <1>b, <2>0
      <3>2. rpcPc \in [Rpcs -> RpcPcs] /\ reply \in [Rpcs -> Errors \cup {"none", "ok"}]
        BY <1>0 DEF TypeOK, RpcType
      <3>3. CallPhase(r)' = CallPhase(r) /\ CallOutcome(r)' = CallOutcome(r) => Goal
        <4>1. ASSUME CallPhase(r)' = CallPhase(r), CallOutcome(r)' = CallOutcome(r),
                     NEW q \in Requests
              PROVE  CallPhase(q)' = CallPhase(q) /\ CallOutcome(q)' = CallOutcome(q)
          BY <3>1, <4>1 DEF CallPhase, CallOutcome
        <4> QED
          BY <4>1, CallsRest
      <3>5. CASE Register(r)
        <4>1. CallPhase(r) = "new" /\ CallPhase(r)' = "open"
          BY <1>0, <3>2, <3>5 DEF Register, RpcStep, CallPhase, TableInv, IdleIsFresh
        <4>2. CallOutcome(r)' = CallOutcome(r)
          BY <3>2, <3>5 DEF Register, RpcStep, CallOutcome
        <4>3. Rpc!Begin(r)
          BY <3>1, <4>1, <4>2, CallMoves DEF Rpc!Begin
        <4> QED
          BY <4>3 DEF Rpc!Next
      <3>a. ASSUME CallPhase(r) \in {"open", "answered"}, CallPhase(r)' = "broken",
                   CallOutcome(r)' = CallOutcome(r)
            PROVE  Goal
        <4>1. Rpc!Becomes(r, CallPhase(r), "broken")
              /\ UNCHANGED [q \in Requests |-> CallOutcome(q)]
          BY <3>1, <3>a, CallMoves
        <4>2. Rpc!Break(r)
          BY <3>a, <4>1 DEF Rpc!Break
        <4> QED
          BY <4>2 DEF Rpc!Next
      <3>b. ASSUME NEW o, CallPhase(r)' = "ended", CallOutcome(r)' = {o},
                   \/ CallPhase(r) = "answered" /\ o \in {"ok", "dropped"}
                   \/ CallPhase(r) = "open" /\ o \in Rpc!OfClient
                   \/ CallPhase(r) = "broken" /\ o \in {"connection", "dropped"}
            PROVE  Goal
        <4>1. Rpc!Becomes(r, CallPhase(r), "ended") /\ Rpc!Returns(r, o)
          BY <3>1, <3>b, CallMoves
        <4>2. Rpc!GiveUp(r) \/ Rpc!Deliver(r) \/ Rpc!Report(r)
          BY <3>b, <4>1 DEF Rpc!GiveUp, Rpc!Deliver, Rpc!Report, Rpc!OfServer
        <4> QED
          BY <4>2 DEF Rpc!Next
      <3>6. CASE Admit(r)
        <4>1. rpcPc[r] = "admit" /\ reply[r] # "ok"
          BY <1>0, <3>6 DEF Admit, RpcStep, TableInv, IdleIsFresh, ReplyInv, AnswerIsServers
        <4>2. CASE rpcPc'[r] = "finish" /\ reply'[r] = "closed"
          BY <3>3, <4>1, <4>2 DEF CallPhase, CallOutcome
        <4>3. CASE rpcPc'[r] = "acquire" /\ reply' = reply
          BY <3>3, <4>1, <4>3 DEF CallPhase, CallOutcome
        <4> QED
          BY <3>2, <3>6, <4>2, <4>3 DEF Admit, RpcStep, ReplyWith
      <3>7. CASE Acquire(r)
        <4>1. rpcPc[r] = "acquire" /\ reply[r] # "ok"
          BY <1>0, <3>7 DEF Acquire, RpcStep, TableInv, IdleIsFresh, ReplyInv, AnswerIsServers
        <4>2. CASE rpcPc'[r] = "finish" /\ reply'[r] = "notconnected"
          BY <3>3, <4>1, <4>2 DEF CallPhase, CallOutcome
        <4>3. CASE rpcPc'[r] = "flush" /\ reply' = reply
          BY <3>3, <4>1, <4>3 DEF CallPhase, CallOutcome
        <4> QED
          BY <3>2, <3>7, <4>2, <4>3 DEF Acquire, RpcStep, ReplyWith
      <3>8. CASE Flush(r)
        <4>1. CASE rpcPc[r] = "flush" /\ rpcPc'[r] = "finish" /\ reply'[r] = "connection"
          BY <3>a, <4>1 DEF CallPhase, CallOutcome
        <4>2. CASE rpcPc[r] = "flush" /\ rpcPc'[r] = "wait" /\ reply' = reply
          BY <3>3, <4>2 DEF CallPhase, CallOutcome
        <4> QED
          BY <3>2, <3>8, <4>1, <4>2 DEF Flush, RpcStep, ReplyWith
      <3>9. CASE Receive(r)
        <4>1. rpcPc[r] = "wait" /\ rpcPc'[r] = "finish" /\ reply' = reply
          BY <3>2, <3>9 DEF Receive, RpcStep
        <4>2. CASE reply[r] = "connection"
          BY <3>a, <4>1, <4>2 DEF CallPhase, CallOutcome
        <4>3. CASE reply[r] # "connection"
          BY <3>3, <4>1, <4>3 DEF CallPhase, CallOutcome
        <4> QED
          BY <4>2, <4>3
      <3>10. CASE Timeout(r)
        <4>1. rpcPc[r] = "wait" /\ rpcPc'[r] = "finish" /\ reply[r] = "none"
              /\ reply'[r] = "timeout"
          BY <3>2, <3>10 DEF Timeout, RpcStep, ReplyWith
        <4> QED
          BY <3>3, <4>1 DEF CallPhase, CallOutcome
      <3>11. CASE Abandon(r)
        <4>1. /\ rpcPc[r] \in {"admit", "acquire", "flush", "wait", "finish"}
              /\ rpcPc'[r] = "abandoned"
          BY <3>2, <3>11 DEF Abandon
        <4>2. CallPhase(r) \in {"open", "answered", "broken"}
              /\ CallPhase(r)' = "ended" /\ CallOutcome(r)' = {"dropped"}
          BY <4>1 DEF CallPhase, CallOutcome
        <4> QED
          BY <3>b, <4>2 DEF Rpc!OfClient
      <3>12. CASE Finish(r)
        <4>1. /\ rpcPc[r] = "finish" /\ rpcPc'[r] = "done" /\ reply'[r] = reply[r]
              /\ reply[r] \in Errors \cup {"ok"}
          BY <1>0, <1>b, <3>2, <3>12 DEF Finish, RpcStep, ReplyInv, EndedHasOutcome
        <4>2. CallPhase(r)' = "ended" /\ CallOutcome(r)' = {reply[r]}
          BY <4>1 DEF CallPhase, CallOutcome
        <4>3. CASE reply[r] = "ok"
          BY <3>b, <4>1, <4>2, <4>3 DEF CallPhase
        <4>4. CASE reply[r] = "connection"
          BY <3>b, <4>1, <4>2, <4>4 DEF CallPhase
        <4>5. CASE reply[r] \notin {"ok", "connection"}
          <5>1. CallPhase(r) = "open" /\ reply[r] \in Rpc!OfClient
            BY <4>1, <4>5 DEF CallPhase, Errors, Rpc!OfClient
          <5> QED
            BY <3>b, <4>2, <5>1
        <4> QED
          BY <4>3, <4>4, <4>5
      <3> QED
        BY <1>4, <3>5, <3>6, <3>7, <3>8, <3>9, <3>10, <3>11, <3>12 DEF RpcAct
    <2> QED
      BY <2>1, <2>2
  <1> QED
    BY <1>1, <1>2, <1>3, <1>4 DEF Next

\* The application's calls implement RpcCalls, through every end of a connection, for any
\* number of calls and sessions (src/src/client.rs:2006-2065).
THEOREM CallsImplemented == Spec => ImplementsCalls
  <1>1. Init => Rpc!Init
    BY DEF Init, Rpc!Init, CallPhase, CallOutcome, Rpcs
  <1>2. IInv /\ [Next]_vars => [Rpc!Next]_Rpc!vars
    <2>1. UNCHANGED vars => UNCHANGED Rpc!vars
      BY CallsRest DEF vars, rpcVars, CallPhase, CallOutcome
    <2> QED
      BY <2>1, CallsStep
  <1> QED
    BY Invariance, <1>1, <1>2, PTL DEF Spec, ImplementsCalls, Rpc!Spec
=============================================================================
