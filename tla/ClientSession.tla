--------------------------- MODULE ClientSession ---------------------------
(***************************************************************************)
(* The connection manager of the WebSocket client (src/src/client.rs):     *)
(* connect(), close(), the background run task with its reconnect loop,    *)
(* the pending-request table shared by every RPC, and the ping task.       *)
(*                                                                         *)
(* The program's state is Inner: five locks that are taken and released    *)
(* one at a time.  An action is what one task does between two awaits that *)
(* touch that state, so every interleaving the locks allow is a behaviour. *)
(* Each connect() call is made once, and the run task it may spawn carries *)
(* its name; the ping task of a run task, and its only request in flight,  *)
(* carry that name too (see the note at StopPing on reusing the name).     *)
(* An error is abstracted to the kind the code branches on.                *)
(***************************************************************************)
EXTENDS Integers, FiniteSets, Sequences

CONSTANTS
  Connectors,    \* calls of connect(), each made at most once
  Closers,       \* calls of close(), each made at most once
  Requests,      \* calls of rpc() by the application, each made at most once
  MaxSessions,   \* bound: how many logins the server accepts in all
  InitialDelay,  \* Config.initial_reconnect_delay
  MaxDelay,      \* Config.max_reconnect_delay
  Reconnect,     \* Config.reconnect
  AckMessages,   \* Config.ack_messages
  Heartbeat      \* FALSE: Config.ping_interval is longer than the behaviour

Tasks == Connectors          \* run tasks, by the connect() that spawned them
Rpcs == Requests \cup Tasks  \* request ids; a run task's name is its ping's

ASSUME RequestsAssumption == Requests \cap Connectors = {}
ASSUME MaxSessionsAssumption == MaxSessions \in Nat
ASSUME DelayAssumption == /\ InitialDelay \in Nat \ {0}
                          /\ MaxDelay \in Nat \ {0}
ASSUME FlagAssumption == /\ Reconnect \in BOOLEAN /\ AckMessages \in BOOLEAN
                         /\ Heartbeat \in BOOLEAN

VARIABLES
  \* Mutex<State>
  closed, connected, stopReconnect, terminal,
  \* Mutex<Option<ActiveWriter>> as its session id (0: None), login_info as the
  \* session it describes (0: None), the connection_id counter
  writer, loginInfo, connectionId,
  \* RwLock<Option<Sender>>, and a history: the Login and Disconnect events sent
  eventsOpen, events,
  \* connect(): its position, the wakeup its Notified holds, its result
  connectPc, notified, connectResult,
  \* close(): its position, the join handle it took out of run_task
  closePc, taken,
  \* Mutex<Option<JoinHandle>> as a set of at most one task; the run task's locals
  handle, runPc, session, runError, delay,
  \* the ping task spawned by a run task
  pingAlive,
  \* rpc(): its position; the pending table; what the oneshot holds, then the
  \* result; the session whose sink got the request (0: none)
  rpcPc, pending, reply, sentOn

stateVars == <<closed, connected, stopReconnect, terminal>>
linkVars == <<writer, loginInfo, connectionId>>
eventVars == <<eventsOpen, events>>
connectVars == <<connectPc, notified, connectResult>>
closeVars == <<closePc, taken>>
runVars == <<handle, runPc, session, runError, delay>>
taskVars == <<handle, session, runError, delay>>  \* runVars but for runPc
rpcVars == <<rpcPc, pending, reply, sentOn>>
vars == <<stateVars, linkVars, eventVars, connectVars, closeVars, runVars,
          pingAlive, rpcVars>>

Errors == {"closed", "connection", "unauthorized", "disconnected",
           "notconnected", "timeout"}
ConnectPcs == {"idle", "start", "arm", "inspect", "wait", "done"}
ClosePcs == {"idle", "notify", "renotify", "emit", "fail", "take", "abort",
             "join", "drop", "done"}
RunPcs == {"none", "start", "dial", "reply", "install", "mark", "store",
           "announce", "read", "ack", "ackflush", "stop", "unmark", "clear",
           "check", "fail", "report", "judge", "sleep", "failfinal", "settle",
           "done"}
RpcPcs == {"idle", "admit", "acquire", "flush", "wait", "finish", "done",
           "abandoned"}

\* The events that say what became of a connection: a Login, and the Disconnect
\* of the run task, each with its session, and the Disconnect of close().
Login(s) == <<"login", s>>
Lost(s) == <<"lost", s>>
Farewell == <<"farewell", 0>>
Events == {"login", "lost", "farewell"} \X (0..MaxSessions)

FlagType == /\ closed \in BOOLEAN /\ connected \in BOOLEAN
            /\ stopReconnect \in BOOLEAN /\ eventsOpen \in BOOLEAN

StateType ==
  /\ terminal \in Errors \cup {"none"}
  /\ writer \in 0..MaxSessions /\ loginInfo \in 0..MaxSessions
  /\ connectionId \in 0..MaxSessions

HistoryType == events \in Seq(Events)

CallType ==
  /\ connectPc \in [Connectors -> ConnectPcs]
  /\ notified \in [Connectors -> BOOLEAN]
  /\ connectResult \in [Connectors -> Errors \cup {"none", "ok"}]
  /\ closePc \in [Closers -> ClosePcs]
  /\ taken \in [Closers -> SUBSET Tasks]

RunType ==
  /\ handle \in SUBSET Tasks
  /\ runPc \in [Tasks -> RunPcs]
  /\ session \in [Tasks -> 0..MaxSessions]
  /\ runError \in [Tasks -> Errors \cup {"none"}]
  /\ delay \in [Tasks -> {InitialDelay} \cup 0..MaxDelay]
  /\ pingAlive \in [Tasks -> BOOLEAN]

RpcType ==
  /\ rpcPc \in [Rpcs -> RpcPcs]
  /\ pending \in SUBSET Rpcs
  /\ reply \in [Rpcs -> Errors \cup {"none", "ok"}]
  /\ sentOn \in [Rpcs -> 0..MaxSessions]

\* The type invariant; an unbounded back-off delay would break it.
TypeOK == FlagType /\ StateType /\ HistoryType /\ CallType /\ RunType /\ RpcType

Init ==
  /\ closed = FALSE /\ connected = FALSE /\ stopReconnect = FALSE
  /\ terminal = "none"
  /\ writer = 0 /\ loginInfo = 0 /\ connectionId = 0
  /\ eventsOpen = TRUE /\ events = <<>>
  /\ connectPc = [c \in Connectors |-> "idle"]
  /\ notified = [c \in Connectors |-> FALSE]
  /\ connectResult = [c \in Connectors |-> "none"]
  /\ closePc = [k \in Closers |-> "idle"]
  /\ taken = [k \in Closers |-> {}]
  /\ handle = {}
  /\ runPc = [t \in Tasks |-> "none"]
  /\ session = [t \in Tasks |-> 0]
  /\ runError = [t \in Tasks |-> "none"]
  /\ delay = [t \in Tasks |-> InitialDelay]
  /\ pingAlive = [t \in Tasks |-> FALSE]
  /\ rpcPc = [r \in Rpcs |-> "idle"]
  /\ pending = {}
  /\ reply = [r \in Rpcs |-> "none"]
  /\ sentOn = [r \in Rpcs |-> 0]

-----------------------------------------------------------------------------
(* What a step of each kind of call usually leaves alone.                  *)

ConnectFrame == UNCHANGED <<stateVars, linkVars, eventVars, closeVars, runVars,
                            pingAlive, rpcVars>>
CloseFrame == UNCHANGED <<linkVars, connectVars, runVars, pingAlive, rpcVars>>
RunFrame == UNCHANGED <<handle, stateVars, linkVars, eventVars, connectVars,
                        closeVars, pingAlive, rpcVars>>
RpcFrame == UNCHANGED <<stateVars, linkVars, eventVars, connectVars, closeVars,
                        runVars, pingAlive>>

-----------------------------------------------------------------------------
(* What several tasks do in the same way.                                  *)

\* state_notify.notify_waiters(): it reaches every Notified already created.
NotifyWaiters ==
  notified' = [c \in Connectors |->
                 notified[c] \/ connectPc[c] \in {"inspect", "wait"}]

\* emit_event: dropped once close() took the sender.
Emit(e) ==
  /\ events' = IF eventsOpen THEN Append(events, e) ELSE events
  /\ UNCHANGED eventsOpen

\* The oneshots of the drained requests receive e, unless the receiver has been
\* dropped (the call timed out, was abandoned or was aborted).
Answer(rs, e) ==
  /\ pending' = pending \ rs
  /\ reply' = [r \in Rpcs |->
                 IF r \in rs /\ reply[r] = "none" /\ rpcPc[r] \notin {"idle", "abandoned"}
                   THEN e ELSE reply[r]]

\* Fault: the table is drained only for a closed client.
FailAllOnClose(e) == Answer(IF closed THEN pending ELSE {}, e)

FailAllPending(e) == Answer(pending, e)

\* No task is inside sink.send(), the only await made with the writer locked.
WriterFree == /\ \A r \in Rpcs : rpcPc[r] # "flush"
              /\ \A t \in Tasks : runPc[t] # "ackflush"

-----------------------------------------------------------------------------
(* connect().                                                              *)

Connect(c) ==
  /\ connectPc[c] = "idle"
  /\ IF closed \/ connected
       THEN /\ connectPc' = [connectPc EXCEPT ![c] = "done"]
            /\ connectResult' = [connectResult EXCEPT ![c] =
                                   IF closed THEN "closed" ELSE "ok"]
       ELSE /\ connectPc' = [connectPc EXCEPT ![c] = "start"]
            /\ UNCHANGED connectResult
  /\ ConnectFrame /\ UNCHANGED notified

\* Fault: the running task is not looked at.
EnsureStartedAlways(c) ==
  /\ connectPc[c] = "start"
  /\ connectPc' = [connectPc EXCEPT ![c] = "arm"]
  /\ connected' = FALSE /\ stopReconnect' = FALSE /\ terminal' = "none"
  /\ NotifyWaiters
  /\ handle' = {c}
  /\ runPc' = [runPc EXCEPT ![c] = "start"]
  /\ UNCHANGED <<closed, session, runError, delay, connectResult, linkVars,
                 eventVars, closeVars, pingAlive, rpcVars>>

\* ensure_started(), under the run_task lock: a finished or absent task is
\* replaced.  It does not look at closed.
EnsureStarted(c) ==
  /\ connectPc[c] = "start"
  /\ connectPc' = [connectPc EXCEPT ![c] = "arm"]
  /\ IF \E t \in handle : runPc[t] # "done"
       THEN UNCHANGED <<stateVars, notified, runVars>>
       ELSE /\ connected' = FALSE /\ stopReconnect' = FALSE /\ terminal' = "none"
            /\ NotifyWaiters
            /\ handle' = {c}
            /\ runPc' = [runPc EXCEPT ![c] = "start"]
            /\ UNCHANGED <<closed, session, runError, delay>>
  /\ UNCHANGED <<connectResult, linkVars, eventVars, closeVars, pingAlive, rpcVars>>

\* let notified = state_notify.notified()
Arm(c) ==
  /\ connectPc[c] = "arm"
  /\ connectPc' = [connectPc EXCEPT ![c] = "inspect"]
  /\ notified' = [notified EXCEPT ![c] = FALSE]
  /\ ConnectFrame /\ UNCHANGED connectResult

Inspect(c) ==
  /\ connectPc[c] = "inspect"
  /\ IF connected \/ terminal # "none" \/ closed
       THEN /\ connectPc' = [connectPc EXCEPT ![c] = "done"]
            /\ connectResult' = [connectResult EXCEPT ![c] =
                                   IF connected THEN "ok"
                                   ELSE IF terminal # "none" THEN terminal
                                   ELSE "closed"]
       ELSE /\ connectPc' = [connectPc EXCEPT ![c] = "wait"]
            /\ UNCHANGED connectResult
  /\ ConnectFrame /\ UNCHANGED notified

Wake(c) ==
  /\ connectPc[c] = "wait" /\ notified[c]
  /\ connectPc' = [connectPc EXCEPT ![c] = "arm"]
  /\ ConnectFrame /\ UNCHANGED <<notified, connectResult>>

-----------------------------------------------------------------------------
(* close().                                                                *)

CloseTo(k, pc) == closePc' = [closePc EXCEPT ![k] = pc]

CloseMark(k) ==
  /\ closePc[k] = "idle"
  /\ IF closed
       THEN CloseTo(k, "renotify") /\ UNCHANGED stateVars
       ELSE /\ CloseTo(k, "notify")
            /\ closed' = TRUE /\ connected' = FALSE /\ terminal' = "closed"
            /\ UNCHANGED stopReconnect
  /\ CloseFrame /\ UNCHANGED <<taken, eventVars>>

\* Fault: close() does not notify.
CloseNotifySilent(k) ==
  /\ closePc[k] \in {"notify", "renotify"}
  /\ CloseTo(k, IF closePc[k] = "notify" THEN "emit" ELSE "fail")
  /\ CloseFrame /\ UNCHANGED <<taken, stateVars, eventVars>>

CloseNotify(k) ==
  /\ closePc[k] \in {"notify", "renotify"}
  /\ CloseTo(k, IF closePc[k] = "notify" THEN "emit" ELSE "fail")
  /\ NotifyWaiters
  /\ UNCHANGED <<taken, connectPc, connectResult, stateVars, linkVars, eventVars,
                 runVars, pingAlive, rpcVars>>

CloseEmit(k) ==
  /\ closePc[k] = "emit"
  /\ CloseTo(k, "fail")
  /\ Emit(Farewell)
  /\ CloseFrame /\ UNCHANGED <<taken, stateVars>>

\* Fault: close() leaves the table to the run task.
CloseFailPendingSkipped(k) ==
  /\ closePc[k] = "fail"
  /\ CloseTo(k, "take")
  /\ CloseFrame /\ UNCHANGED <<taken, stateVars, eventVars>>

CloseFailPending(k) ==
  /\ closePc[k] = "fail"
  /\ CloseTo(k, "take")
  /\ FailAllPending("closed")
  /\ UNCHANGED <<taken, stateVars, linkVars, eventVars, connectVars, runVars,
                 pingAlive, rpcPc, sentOn>>

TakeWriter(k) ==
  /\ closePc[k] = "take" /\ WriterFree
  /\ CloseTo(k, "abort")
  /\ writer' = 0
  /\ UNCHANGED <<taken, loginInfo, connectionId, stateVars, eventVars, connectVars,
                 runVars, pingAlive, rpcVars>>

\* run_task.take() and handle.abort(): see Cancelled.
AbortRun(k) ==
  /\ closePc[k] = "abort"
  /\ CloseTo(k, "join")
  /\ taken' = [taken EXCEPT ![k] = handle]
  /\ handle' = {}
  /\ UNCHANGED <<stateVars, linkVars, eventVars, connectVars, runPc, session,
                 runError, delay, pingAlive, rpcVars>>

JoinRun(k) ==
  /\ closePc[k] = "join"
  /\ \A t \in taken[k] : runPc[t] = "done"
  /\ CloseTo(k, "drop")
  /\ CloseFrame /\ UNCHANGED <<taken, stateVars, eventVars>>

DropEvents(k) ==
  /\ closePc[k] = "drop"
  /\ CloseTo(k, "done")
  /\ eventsOpen' = FALSE
  /\ CloseFrame /\ UNCHANGED <<taken, events, stateVars>>

-----------------------------------------------------------------------------
(* run() and connect_and_serve().  The serving loop returns only errors, so *)
(* the Ok arm of run() is not reachable and has no action.                 *)

Step(t, from, to) == runPc[t] = from /\ runPc' = [runPc EXCEPT ![t] = to]

FailWith(t, e) == runError' = [runError EXCEPT ![t] = e]

\* The locals of a task that ends go with it.
DropLocals(t) == session' = [session EXCEPT ![t] = 0] /\ FailWith(t, "none")

\* Fault: the closed flag is not read before a dial.
CheckClosedSkipped(t) ==
  /\ Step(t, "start", "dial")
  /\ session' = [session EXCEPT ![t] = 0]
  /\ FailWith(t, "none")
  /\ RunFrame /\ UNCHANGED delay

CheckClosed(t) ==
  /\ Step(t, "start", IF closed THEN "judge" ELSE "dial")
  /\ session' = [session EXCEPT ![t] = 0]
  /\ FailWith(t, IF closed THEN "closed" ELSE "none")
  /\ RunFrame /\ UNCHANGED delay

\* load_seen_messages, websocket_url, connect_async and the write of the login:
\* any of them may fail, and all are retried alike.
Dial(t) ==
  /\ \/ Step(t, "dial", "reply") /\ UNCHANGED runError
     \/ Step(t, "dial", "judge") /\ FailWith(t, "connection")
  /\ RunFrame /\ UNCHANGED <<session, delay>>

LoginAccepted(t) ==
  /\ Step(t, "reply", "install")
  /\ connectionId < MaxSessions
  /\ connectionId' = connectionId + 1
  /\ session' = [session EXCEPT ![t] = connectionId + 1]
  /\ UNCHANGED <<handle, runError, delay, writer, loginInfo, stateVars, eventVars,
                 connectVars, closeVars, pingAlive, rpcVars>>

\* expect_login sets stop_reconnect only if its try_lock on state succeeds.
LoginUnauthorized(t) ==
  /\ Step(t, "reply", "judge")
  /\ FailWith(t, "unauthorized")
  /\ stopReconnect' \in {TRUE, stopReconnect}
  /\ UNCHANGED <<handle, session, delay, closed, connected, terminal, linkVars,
                 eventVars, connectVars, closeVars, pingAlive, rpcVars>>

\* What read_proto reports when the stream ends: the closed flag it was given
\* is a snapshot, so a client closed since then may see either error.
ReadErrors == IF closed THEN {"closed", "connection"} ELSE {"connection"}

LoginFails(t) ==
  /\ Step(t, "reply", "judge")
  /\ \E e \in ReadErrors : FailWith(t, e)
  /\ RunFrame /\ UNCHANGED <<session, delay>>

Install(t) ==
  /\ Step(t, "install", "mark") /\ WriterFree
  /\ writer' = session[t]
  /\ UNCHANGED <<taskVars, loginInfo, connectionId, stateVars, eventVars,
                 connectVars, closeVars, pingAlive, rpcVars>>

\* set_connected(true)
MarkConnected(t) ==
  /\ Step(t, "mark", "store")
  /\ connected' = TRUE /\ terminal' = "none"
  /\ NotifyWaiters
  /\ UNCHANGED <<taskVars, closed, stopReconnect, connectPc, connectResult,
                 linkVars, eventVars, closeVars, pingAlive, rpcVars>>

StoreLogin(t) ==
  /\ Step(t, "store", "announce")
  /\ loginInfo' = session[t]
  /\ UNCHANGED <<taskVars, writer, connectionId, stateVars, eventVars, connectVars,
                 closeVars, pingAlive, rpcVars>>

\* The Login event, then the ping task.
AnnounceLogin(t) ==
  /\ Step(t, "announce", "read")
  /\ Emit(Login(session[t]))
  /\ pingAlive' = [pingAlive EXCEPT ![t] = TRUE]
  /\ UNCHANGED <<taskVars, stateVars, linkVars, connectVars, closeVars, rpcVars>>

\* One turn of read_loop with a frame that answers request r: resolve_pending,
\* with the result or the refusal of the server, both "ok" here.
\* Frames that neither answer nor are acknowledged leave this state alone.
HandleResponse(t, r) ==
  /\ runPc[t] = "read"
  /\ r \in pending /\ sentOn[r] = session[t]
  /\ Answer({r}, "ok")
  /\ RpcFrame /\ UNCHANGED <<rpcPc, sentOn>>

\* A pushed message is acknowledged with send_envelope(), which the read loop
\* awaits like a call of rpc(): the closed flag, the writer lock, the write.
ReadPush(t) ==
  /\ AckMessages /\ ~closed /\ Step(t, "read", "ack")
  /\ RunFrame /\ UNCHANGED taskVars

AckAcquire(t) ==
  /\ Step(t, "ack", IF writer = 0 THEN "read" ELSE "ackflush") /\ WriterFree
  /\ RunFrame /\ UNCHANGED taskVars

\* A failed write is an Error event: the loop goes on.
AckFlush(t) ==
  /\ Step(t, "ackflush", "read")
  /\ RunFrame /\ UNCHANGED taskVars

ReadFails(t) ==
  /\ Step(t, "read", "stop")
  /\ \E e \in ReadErrors : FailWith(t, e)
  /\ RunFrame /\ UNCHANGED <<session, delay>>

\* ping_task.abort() and its await: a ping in flight is dropped wherever it is
\* and releases the writer lock, but its entry stays in the table.  The entry
\* is gone before the next ping of t, so the name t can be used for both.
StopPing(t) ==
  /\ Step(t, "stop", "unmark")
  /\ pingAlive' = [pingAlive EXCEPT ![t] = FALSE]
  /\ rpcPc' = [rpcPc EXCEPT ![t] = "idle"]
  /\ reply' = [reply EXCEPT ![t] = "none"]
  /\ sentOn' = [sentOn EXCEPT ![t] = 0]
  /\ UNCHANGED <<taskVars, pending, stateVars, linkVars, eventVars, connectVars,
                 closeVars>>

\* Fault: the connected flag survives the connection.
UnmarkForgotten(t) ==
  /\ Step(t, "unmark", "clear")
  /\ UNCHANGED stateVars
  /\ NotifyWaiters
  /\ UNCHANGED <<taskVars, connectPc, connectResult, linkVars, eventVars, closeVars,
                 pingAlive, rpcVars>>

\* set_connected(false)
Unmark(t) ==
  /\ Step(t, "unmark", "clear")
  /\ connected' = FALSE
  /\ NotifyWaiters
  /\ UNCHANGED <<taskVars, closed, stopReconnect, terminal, connectPc,
                 connectResult, linkVars, eventVars, closeVars, pingAlive, rpcVars>>

ClearWriter(t) ==
  /\ Step(t, "clear", "check") /\ WriterFree
  /\ writer' = IF writer = session[t] THEN 0 ELSE writer
  /\ UNCHANGED <<taskVars, loginInfo, connectionId, stateVars, eventVars,
                 connectVars, closeVars, pingAlive, rpcVars>>

CheckOpen(t) ==
  /\ Step(t, "check", IF closed THEN "judge" ELSE "fail")
  /\ RunFrame /\ UNCHANGED taskVars

\* Fault: the requests of the lost connection are left in the table.
FailDisconnectedSkipped(t) ==
  /\ Step(t, "fail", "report")
  /\ RunFrame /\ UNCHANGED taskVars

FailDisconnected(t) ==
  /\ Step(t, "fail", "report")
  /\ FailAllPending("disconnected")
  /\ UNCHANGED <<taskVars, rpcPc, sentOn, stateVars, linkVars, eventVars,
                 connectVars, closeVars, pingAlive>>

\* Fault: the event is sent only when the client will not reconnect.
ReportDisconnectAtLast(t) ==
  /\ Step(t, "report", "judge")
  /\ IF Reconnect THEN UNCHANGED eventVars ELSE Emit(Lost(session[t]))
  /\ UNCHANGED <<taskVars, stateVars, linkVars, connectVars, closeVars, pingAlive,
                 rpcVars>>

ReportDisconnect(t) ==
  /\ Step(t, "report", "judge")
  /\ Emit(Lost(session[t]))
  /\ UNCHANGED <<taskVars, stateVars, linkVars, connectVars, closeVars, pingAlive,
                 rpcVars>>

\* Fault: a lost connection is final.
ShouldRetryNot(e) == /\ ~closed /\ ~stopReconnect /\ Reconnect
                  /\ e \notin {"closed", "unauthorized", "connection"}

ShouldRetry(e) == /\ ~closed /\ ~stopReconnect /\ Reconnect
                  /\ e \notin {"closed", "unauthorized"}

\* A retry emits an Error event and sleeps.
Judge(t) ==
  /\ Step(t, "judge", IF ShouldRetry(runError[t]) THEN "sleep" ELSE "failfinal")
  /\ RunFrame /\ UNCHANGED taskVars

\* Fault: the delay has no upper bound.
NextDelayUncapped(d) == 2 * d

NextDelay(d) == IF 2 * d < MaxDelay THEN 2 * d ELSE MaxDelay

Backoff(t) ==
  /\ Step(t, "sleep", "start")
  /\ delay' = [delay EXCEPT ![t] = NextDelay(delay[t])]
  /\ RunFrame /\ UNCHANGED <<session, runError>>

FailFinal(t) ==
  /\ Step(t, "failfinal", "settle")
  /\ FailAllPending(runError[t])
  /\ UNCHANGED <<taskVars, rpcPc, sentOn, stateVars, linkVars, eventVars,
                 connectVars, closeVars, pingAlive>>

\* Fault: set_terminal_error() does not notify.
SettleSilent(t) ==
  /\ Step(t, "settle", "done")
  /\ connected' = FALSE /\ terminal' = runError[t]
  /\ DropLocals(t)
  /\ UNCHANGED <<handle, delay, closed, stopReconnect, connectVars, linkVars, eventVars,
                 closeVars, pingAlive, rpcVars>>

\* set_terminal_error()
Settle(t) ==
  /\ Step(t, "settle", "done")
  /\ connected' = FALSE /\ terminal' = runError[t]
  /\ NotifyWaiters /\ DropLocals(t)
  /\ UNCHANGED <<handle, delay, closed, stopReconnect, connectPc, connectResult,
                 linkVars, eventVars, closeVars, pingAlive, rpcVars>>

\* Fault: the abort is seen only between two connections.
CancelledAsleep(t) ==
  /\ \E k \in Closers : t \in taken[k]
  /\ runPc[t] = "sleep"
  /\ runPc' = [runPc EXCEPT ![t] = "done"]
  /\ DropLocals(t)
  /\ RunFrame /\ UNCHANGED delay

\* handle.abort() takes effect at an await of the task, later than the call; a
\* writer lock it holds is released.  The ping task it spawned goes on.
Cancelled(t) ==
  /\ \E k \in Closers : t \in taken[k]
  /\ runPc[t] \notin {"none", "done"}
  /\ runPc' = [runPc EXCEPT ![t] = "done"]
  /\ DropLocals(t)
  /\ RunFrame /\ UNCHANGED delay

-----------------------------------------------------------------------------
(* rpc() and send_envelope(); ping_loop() calls rpc() with the id of its   *)
(* run task.                                                               *)

RpcStep(r, from, to) == rpcPc[r] = from /\ rpcPc' = [rpcPc EXCEPT ![r] = to]

ReplyWith(r, e) == reply' = [reply EXCEPT ![r] = e]

Register(r) ==
  /\ r \in Tasks => pingAlive[r] /\ Heartbeat
  /\ RpcStep(r, "idle", "admit")
  /\ pending' = pending \cup {r}
  /\ RpcFrame /\ UNCHANGED <<reply, sentOn>>

\* is_closed(), read before the writer is locked and not again.
Admit(r) ==
  /\ \/ closed /\ RpcStep(r, "admit", "finish") /\ ReplyWith(r, "closed")
     \/ ~closed /\ RpcStep(r, "admit", "acquire") /\ UNCHANGED reply
  /\ RpcFrame /\ UNCHANGED <<pending, sentOn>>

\* The writer lock is held from here to Flush, the await of sink.send().
Acquire(r) ==
  /\ WriterFree
  /\ \/ /\ writer = 0
        /\ RpcStep(r, "acquire", "finish") /\ ReplyWith(r, "notconnected")
        /\ UNCHANGED sentOn
     \/ /\ writer # 0
        /\ RpcStep(r, "acquire", "flush")
        /\ sentOn' = [sentOn EXCEPT ![r] = writer]
        /\ UNCHANGED reply
  /\ RpcFrame /\ UNCHANGED pending

Flush(r) ==
  /\ \/ RpcStep(r, "flush", "wait") /\ UNCHANGED reply
     \/ RpcStep(r, "flush", "finish") /\ ReplyWith(r, "connection")
  /\ RpcFrame /\ UNCHANGED <<pending, sentOn>>

Receive(r) ==
  /\ RpcStep(r, "wait", "finish") /\ reply[r] # "none"
  /\ RpcFrame /\ UNCHANGED <<pending, reply, sentOn>>

\* Fault: the timer is looked at before the oneshot.
TimeoutFirst(r) ==
  /\ RpcStep(r, "wait", "finish")
  /\ ReplyWith(r, "timeout")
  /\ RpcFrame /\ UNCHANGED <<pending, sentOn>>

Timeout(r) ==
  /\ RpcStep(r, "wait", "finish") /\ reply[r] = "none"
  /\ ReplyWith(r, "timeout")
  /\ RpcFrame /\ UNCHANGED <<pending, sentOn>>

\* The application drops the future of its call, at whichever await it is: no
\* code of rpc() runs, and what the oneshot holds goes with it.
Abandon(r) ==
  /\ r \in Requests /\ rpcPc[r] \in {"admit", "acquire", "flush", "wait", "finish"}
  /\ rpcPc' = [rpcPc EXCEPT ![r] = "abandoned"]
  /\ ReplyWith(r, "none")
  /\ RpcFrame /\ UNCHANGED <<pending, sentOn>>

\* Fault: a request that timed out leaves its entry behind.
FinishKeepsEntry(r) ==
  /\ RpcStep(r, "finish", IF r \in Tasks THEN "idle" ELSE "done")
  /\ pending' = IF reply[r] = "timeout" THEN pending ELSE pending \ {r}
  /\ pingAlive' = [t \in Tasks |->
                     pingAlive[t] /\ ~ (t = r /\ reply[r] \in {"notconnected",
                                                 "closed", "disconnected"})]
  /\ reply' = [reply EXCEPT ![r] = IF r \in Tasks THEN "none" ELSE reply[r]]
  /\ sentOn' = [sentOn EXCEPT ![r] = 0]
  /\ UNCHANGED <<stateVars, linkVars, eventVars, connectVars, closeVars, runVars>>

\* Fault: ping_loop() ends only when told that the connection is lost.
FinishPingGoesOn(r) ==
  /\ RpcStep(r, "finish", IF r \in Tasks THEN "idle" ELSE "done")
  /\ pending' = pending \ {r}
  /\ pingAlive' = [t \in Tasks |->
                     pingAlive[t] /\ ~ (t = r /\ reply[r] \in {"disconnected"})]
  /\ reply' = [reply EXCEPT ![r] = IF r \in Tasks THEN "none" ELSE reply[r]]
  /\ sentOn' = [sentOn EXCEPT ![r] = 0]
  /\ UNCHANGED <<stateVars, linkVars, eventVars, connectVars, closeVars, runVars>>

\* pending.remove() and the return; ping_loop() ends on three kinds of error.
Finish(r) ==
  /\ RpcStep(r, "finish", IF r \in Tasks THEN "idle" ELSE "done")
  /\ pending' = pending \ {r}
  /\ pingAlive' = [t \in Tasks |->
                     pingAlive[t] /\ ~ (t = r /\ reply[r] \in {"notconnected",
                                                 "closed", "disconnected"})]
  /\ reply' = [reply EXCEPT ![r] = IF r \in Tasks THEN "none" ELSE reply[r]]
  /\ sentOn' = [sentOn EXCEPT ![r] = 0]
  /\ UNCHANGED <<stateVars, linkVars, eventVars, connectVars, closeVars, runVars>>

-----------------------------------------------------------------------------
(* The next-state relation.                                                *)

ConnectStep(c) == Connect(c) \/ EnsureStarted(c) \/ Arm(c) \/ Inspect(c) \/ Wake(c)

CloseStep(k) ==
  \/ CloseMark(k) \/ CloseNotify(k) \/ CloseEmit(k) \/ CloseFailPending(k)
  \/ TakeWriter(k) \/ AbortRun(k) \/ JoinRun(k) \/ DropEvents(k)

TeardownStep(t) ==
  \/ StopPing(t) \/ Unmark(t) \/ ClearWriter(t) \/ CheckOpen(t)
  \/ FailDisconnected(t) \/ ReportDisconnect(t)

LoginReply(t) == LoginAccepted(t) \/ LoginUnauthorized(t) \/ LoginFails(t)

RunStep(t) ==
  \/ CheckClosed(t) \/ Dial(t) \/ LoginReply(t) \/ Install(t)
  \/ MarkConnected(t) \/ StoreLogin(t) \/ AnnounceLogin(t)
  \/ (\E r \in Rpcs : HandleResponse(t, r)) \/ ReadPush(t) \/ AckAcquire(t)
  \/ AckFlush(t) \/ ReadFails(t)
  \/ TeardownStep(t) \/ Judge(t) \/ Backoff(t) \/ FailFinal(t) \/ Settle(t)
  \/ Cancelled(t)

RpcAct(r) == \/ Register(r) \/ Admit(r) \/ Acquire(r) \/ Flush(r) \/ Receive(r)
             \/ Timeout(r) \/ Abandon(r) \/ Finish(r)

Next == \/ \E c \in Connectors : ConnectStep(c)
        \/ \E k \in Closers : CloseStep(k)
        \/ \E t \in Tasks : RunStep(t)
        \/ \E r \in Rpcs : RpcAct(r)

Spec == Init /\ [][Next]_vars

-----------------------------------------------------------------------------
(* Fairness.  Every step of the program that is not waiting for the outside *)
(* happens: the runtime polls ready tasks, and the writer mutex is a FIFO  *)
(* queue (strong fairness where it is acquired).  Of the outside, only     *)
(* this: a write to the socket and a dial complete or fail.  The server    *)
(* need never answer a login or a request, and no read need ever fail.     *)

Fairness ==
  /\ \A c \in Connectors :
       WF_vars(EnsureStarted(c) \/ Arm(c) \/ Inspect(c) \/ Wake(c))
  /\ \A k \in Closers :
       /\ WF_vars(CloseNotify(k) \/ CloseEmit(k) \/ CloseFailPending(k)
                  \/ AbortRun(k) \/ JoinRun(k) \/ DropEvents(k))
       /\ SF_vars(TakeWriter(k))
  /\ \A t \in Tasks :
       /\ WF_vars(CheckClosed(t) \/ Dial(t) \/ MarkConnected(t) \/ StoreLogin(t)
                  \/ AnnounceLogin(t) \/ AckFlush(t) \/ TeardownStep(t)
                  \/ Judge(t) \/ Backoff(t) \/ FailFinal(t) \/ Settle(t))
       /\ SF_vars(Install(t) \/ AckAcquire(t) \/ ClearWriter(t))
       /\ WF_vars(Cancelled(t)) /\ WF_vars(Register(t))
  /\ \A r \in Rpcs :
       /\ WF_vars(Admit(r) \/ Flush(r) \/ Receive(r) \/ Finish(r))
       /\ SF_vars(Acquire(r))

FairSpec == Spec /\ Fairness

\* For connect() alone: the server answers every login or drops the socket.
ResponsiveSpec == FairSpec /\ \A t \in Tasks : WF_vars(LoginReply(t))

-----------------------------------------------------------------------------
(* Safety.                                                                 *)

\* The positions at which a run task owns a stream or is about to.
Active == {"dial", "reply", "install", "mark", "store", "announce", "read",
           "ack", "ackflush", "stop", "unmark", "clear", "check", "fail"}
Serving == {"store", "announce", "read", "ack", "ackflush", "stop", "unmark"}

\* At most one run task dials or serves at a time, whatever connect() and
\* close() calls race: ensure_started() replaces only a finished task, and the
\* one it can start beside a task close() is still joining stops at once.
OneServingTask ==
  \A t, u \in Tasks : runPc[t] \in Active /\ runPc[u] \in Active => t = u

\* While the state says connected, the writer is that of a session whose run
\* task has not begun to take the connection down: connect() never reports a
\* connection that no request can be written to.
ConnectedIsWritable ==
  connected /\ ~closed =>
    \E t \in Tasks : runPc[t] \in Serving /\ writer = session[t] /\ writer # 0

\* Once every close() has returned no run task is working: one started by a
\* connect() that had passed its closed check can only stop.
Closing == {k \in Closers : closePc[k] \notin {"idle", "done"}}
CloseReturned == Closing = {} /\ \E k \in Closers : closePc[k] = "done"
QuietAfterClose == CloseReturned => \A t \in Tasks : runPc[t] \notin Active

\* What subscribers heard last of the run tasks.
Unheard == <<"none", 0>>
LastOfRun(log) ==
  LET n == Len(log)
      m == IF n > 0 /\ log[n] = Farewell THEN n - 1 ELSE n
  IN IF m = 0 THEN Unheard ELSE log[m]

\* A Login is that of a later session and follows the Disconnect of the one
\* before it, and a Disconnect follows the Login of its own session; close()
\* says farewell once, and at most one event follows.
Fits(log, e) ==
  /\ e[1] = "login" => LastOfRun(log)[1] # "login" /\ LastOfRun(log)[2] < e[2]
  /\ e[1] = "lost" => LastOfRun(log) = Login(e[2])
  /\ e = Farewell => \A i \in 1..Len(log) : log[i] # Farewell
  /\ \A i \in 1..(Len(log) - 1) : log[i] # Farewell

\* Subscribers can pair the events of the run tasks, Login with Disconnect,
\* session by session, whatever sessions end and tasks are aborted; the
\* Disconnect of close() stands apart, and may come before, between or after.
EventsAlternate ==
  [][events' # events =>
       \E e \in Events : events' = Append(events, e) /\ Fits(events, e)]_vars

\* The session a request was written to can still produce its answer, or the
\* failing of the table that ends that session is still to come.
SessionPending(s) == \E t \in Tasks :
  session[t] = s /\ runPc[t] \in (Serving \cup {"mark", "clear", "check", "fail"})
CloseFailurePending == \E k \in Closers : closePc[k] \in {"notify", "emit", "fail"}

\* No request waits for a connection that is gone: one with no answer is in the
\* table, and its session or a close() will still answer it.
NoStrandedRequest ==
  \A r \in Rpcs : rpcPc[r] = "wait" /\ reply[r] = "none" =>
    r \in pending /\ (SessionPending(sentOn[r]) \/ CloseFailurePending)

\* The table holds no entry without an owner: a call that returned has removed
\* its own, a dropped call's goes with the connection it was written to, and a
\* ping's that its run task killed goes in the same teardown.
PendingHasOwner ==
  \A r \in pending :
    /\ r \in Requests => rpcPc[r] \notin {"idle", "done"}
    /\ r \in Requests /\ rpcPc[r] \in {"finish", "abandoned"} /\ sentOn[r] # 0 =>
         SessionPending(sentOn[r]) \/ closed
    /\ r \in Tasks /\ rpcPc[r] = "idle" =>
         closed \/ runPc[r] \in {"unmark", "clear", "check", "fail"}

\* A run task that will yet mark the client connected or settle its error.
RunGoesOn == \E t \in handle : runPc[t] \notin {"none", "done"}

\* No wakeup is lost: a connect() that sleeps with no wakeup on its way sleeps in
\* an open, unconnected client whose run task still has to notify, or a close()
\* is about to.
NoLostWakeup ==
  \A c \in Connectors : connectPc[c] = "wait" /\ ~notified[c] =>
    \/ \E k \in Closers : closePc[k] = "notify"
    \/ ~closed /\ ~connected /\ terminal = "none" /\ RunGoesOn

\* The calls of the application implement RpcCalls: whatever connections end, the
\* answer the server gave to a call is what it returns, not a timeout or a lost
\* connection, unless its own write failed.
CallPhase(r) ==
  CASE rpcPc[r] = "idle" -> "new"
    [] rpcPc[r] \in {"admit", "acquire", "flush", "wait"} ->
         IF reply[r] = "ok" THEN "answered" ELSE "open"
    [] rpcPc[r] = "finish" ->
         IF reply[r] = "ok" THEN "answered"
         ELSE IF reply[r] = "connection" THEN "broken" ELSE "open"
    [] rpcPc[r] \in {"done", "abandoned"} -> "ended"
CallOutcome(r) ==
  CASE rpcPc[r] = "done" -> {reply[r]}
    [] rpcPc[r] = "abandoned" -> {"dropped"}
    [] rpcPc[r] \in {"idle", "admit", "acquire", "flush", "wait", "finish"} -> {}
Rpc == INSTANCE RpcCalls WITH Calls <- Requests,
                              phase <- [r \in Requests |-> CallPhase(r)],
                              outcome <- [r \in Requests |-> CallOutcome(r)]
ImplementsCalls == Rpc!Spec

-----------------------------------------------------------------------------
(* The inductive invariant behind the safety properties.                   *)

\* Positions at which the writer is the one the task installed.
Holding == Serving \cup {"mark", "clear"}

\* While the client is open, run_task holds the only unfinished task.
SoleTask ==
  ~closed => \A t \in Tasks : runPc[t] \notin {"none", "done"} => handle = {t}

\* Nothing is aborted before the client is marked closed.
CloseMarksFirst ==
  ~closed => \A k \in Closers : closePc[k] = "idle" /\ taken[k] = {}

SessionGiven == \A t \in Tasks : runPc[t] \in Holding \cup {"install"} => session[t] # 0

\* A run task that takes its connection down or gives up knows why.
ErrorKnown ==
  \A t \in Tasks : runPc[t] \in {"stop", "unmark", "clear", "check", "fail", "report",
                                "judge", "failfinal", "settle"} => runError[t] # "none"

\* While the client is open, the writer is exactly that of a holding task.
WriterInstalled ==
  ~closed => \A t \in Tasks : runPc[t] \in Holding => writer = session[t]
WriterOwned ==
  ~closed /\ writer # 0 => \E t \in Tasks : runPc[t] \in Holding /\ session[t] = writer

\* A task at work in a closed client is one that some close() has still to
\* abort or is waiting for.
AbortOutstanding ==
  closed => \A t \in Tasks : runPc[t] \in Active =>
    \/ t \in handle /\ \E k \in Closers :
         closePc[k] \in {"notify", "renotify", "emit", "fail", "take", "abort"}
    \/ \E k \in Closers : closePc[k] = "join" /\ t \in taken[k]

\* A call with no answer is in the table, and something will answer it.
UnansweredIsPending ==
  \A r \in Rpcs : rpcPc[r] \in {"admit", "acquire", "flush", "wait"} /\ reply[r] = "none"
                   => r \in pending
CloseWillAnswer ==
  closed => \A r \in Rpcs :
    rpcPc[r] \in {"acquire", "flush", "wait"} /\ reply[r] = "none" => CloseFailurePending
SessionWillAnswer ==
  ~closed => \A r \in Rpcs :
    rpcPc[r] \in {"flush", "wait"} /\ reply[r] = "none" => SessionPending(sentOn[r])

\* From the Login event to the end of its session, session_ref() is that session.
Announced == {"read", "ack", "ackflush", "stop", "unmark", "clear", "check", "fail",
              "report"}
LoginInfoIsCurrent ==
  \A t \in Tasks :
    runPc[t] \in (Announced \cup {"announce"}) \ {"report"} => loginInfo = session[t]

\* The events of an open client are heard, and its close() has said nothing yet:
\* one close() says farewell, if it has not.
EventsHeard ==
  /\ ~closed => eventsOpen
  /\ \A i \in 1..Len(events) : events[i] = Farewell =>
       closed /\ \A k \in Closers : closePc[k] \notin {"notify", "emit"}
  /\ \A j, k \in Closers :
       closePc[j] \in {"notify", "emit"} /\ closePc[k] \in {"notify", "emit"} => j = k

\* One task at a time has something to say, and the last that was heard is what
\* it says: its Login, or nothing of its session; the Login of an open client
\* has a task that will report its end.
OneTalker ==
  \A t, u \in Tasks : runPc[t] \in Active \cup {"report"} /\ runPc[u] \in Active \cup {"report"}
                        => t = u
LoginIsReported ==
  /\ ~closed /\ LastOfRun(events)[1] = "login" => \E t \in Tasks : runPc[t] \in Announced
  /\ eventsOpen => \A t \in Tasks :
       /\ runPc[t] \in Announced => LastOfRun(events) = Login(session[t])
       /\ runPc[t] \in Active \ Announced => LastOfRun(events)[1] # "login"

\* Sessions are announced in the order of their numbers.
SessionIsNew ==
  /\ LastOfRun(events)[2] <= connectionId
  /\ \A t \in Tasks : runPc[t] \in {"install", "mark", "store", "announce"} =>
       session[t] = connectionId /\ LastOfRun(events)[2] < connectionId

\* The event after the farewell is the last.
NothingAfter ==
  /\ \A i \in 1..(Len(events) - 2) : events[i] # Farewell
  /\ Len(events) > 1 /\ events[Len(events) - 1] = Farewell =>
       /\ events[Len(events)] # Farewell
       /\ \A t \in Tasks : runPc[t] \notin (Active \ Announced) \cup {"fail", "report"}

\* The entry of a waiting call has had no answer, and a call begins with none and
\* unwritten.
EntryIsOpen ==
  \A r \in pending : rpcPc[r] \in {"admit", "acquire", "flush", "wait"} => reply[r] = "none"
IdleIsFresh ==
  \A r \in Rpcs :
    /\ rpcPc[r] = "idle" => reply[r] = "none"
    /\ rpcPc[r] \in {"idle", "admit", "acquire"} => sentOn[r] = 0

\* run_task holds tasks that were spawned.
HandleSpawned == \A t \in handle : runPc[t] # "none"

\* After ensure_started() an open client has a run task or the error of the last one.
StartedOrFailed ==
  ~closed => \A c \in Connectors :
    connectPc[c] \in {"arm", "inspect", "wait"} => RunGoesOn \/ terminal # "none"

\* The server answers only what was written, and a call that ends has an outcome.
AnswerIsServers ==
  /\ \A r \in Rpcs : reply[r] = "ok" => sentOn[r] # 0 \/ rpcPc[r] = "done"
EndedHasOutcome ==
  \A r \in Rpcs : rpcPc[r] \in {"finish", "done"} => reply[r] # "none"

RunInv == /\ OneServingTask /\ ConnectedIsWritable /\ SoleTask /\ CloseMarksFirst
          /\ SessionGiven /\ ErrorKnown /\ WriterInstalled /\ WriterOwned
          /\ AbortOutstanding
RpcInv == UnansweredIsPending /\ CloseWillAnswer /\ SessionWillAnswer
EventInv == /\ LoginInfoIsCurrent /\ EventsHeard /\ OneTalker /\ LoginIsReported
            /\ SessionIsNew /\ NothingAfter
WakeInv == NoLostWakeup /\ HandleSpawned /\ StartedOrFailed
ReplyInv == AnswerIsServers /\ EndedHasOutcome
TableInv == EntryIsOpen /\ IdleIsFresh /\ PendingHasOwner

\* The invariant the proofs use: each part holds in every reachable state.
IInv == TypeOK /\ RunInv /\ WakeInv /\ RpcInv /\ ReplyInv /\ EventInv /\ TableInv

-----------------------------------------------------------------------------
(* Liveness.                                                               *)

\* Every close() returns, two at once included.
CloseReturns == \A k \in Closers : closePc[k] # "idle" ~> closePc[k] = "done"

\* Closing the client wakes and ends every connect() that is waiting.
WaitersSeeClose ==
  \A c \in Connectors : closed /\ connectPc[c] # "idle" ~> connectPc[c] = "done"

\* Closing the client ends every request without help of its timeout.
RequestsEndOnClose ==
  \A r \in Requests : closed /\ rpcPc[r] # "idle"
                         ~> rpcPc[r] \in {"done", "abandoned"}

\* The ping tasks of a closed client end, those detached by an abort included.
PingsEnd == closed ~> \A t \in Tasks : ~pingAlive[t]

\* A request written to a connection that fails returns without its timeout.
LostConnectionAnswers ==
  \A r \in Requests, t \in Tasks :
    rpcPc[r] = "wait" /\ sentOn[r] = session[t] /\ runPc[t] = "stop"
      ~> rpcPc[r] \in {"done", "abandoned"}

\* After a lost connection the run task dials again, unless it must not.
RedialsAfterLoss ==
  \A t \in Tasks : runPc[t] = "stop"
                     ~> runPc[t] = "dial" \/ closed \/ stopReconnect \/ ~Reconnect

\* Without reconnection every connect() returns: no wakeup is lost between its
\* check and its wait.
ConnectReturns ==
  \A c \in Connectors : connectPc[c] # "idle" ~> connectPc[c] = "done"

-----------------------------------------------------------------------------
(* What the documentation says and the code does not do.                   *)

\* Every connect() waiting when the client is closed gets ClosedError
\* (src/docs/client-flow.md:267).
ClosedConnectFails ==
  [][\A c \in Connectors :
       connectResult[c] = "none" /\ connectResult'[c] = "ok" => ~closed]_vars
=============================================================================
