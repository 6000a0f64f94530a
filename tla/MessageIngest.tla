---------------------------- MODULE MessageIngest ----------------------------
(***************************************************************************)
(* How the client takes in stored messages (src/src/client.rs:1733-1786,   *)
(* 1992-2004, with src/src/store.rs): the read loop saves a message, then  *)
(* its cursor, then acknowledges it, then tells the subscribers; a login   *)
(* reports the saved cursors.  The server is modelled from how the client  *)
(* uses it: it pushes what is neither reported nor acknowledged.  The store *)
(* outlives the client, and a client may stop at any await.                *)
(***************************************************************************)
EXTENDS Naturals, Sequences, FiniteSets

CONSTANTS
  Messages,     \* messages the server may have for this client
  Sends,        \* those among them that this client sends itself
  AckMessages,  \* Config.ack_messages
  MaxLogins,    \* bound: logins, and so connections
  MaxFailures,  \* bound: operations of the store that fail
  MaxWire       \* bound: frames in flight to the client

ASSUME MessagesAssumption == Messages # {} /\ Sends \subseteq Messages
ASSUME SwitchAssumption == AckMessages \in BOOLEAN
ASSUME BoundsAssumption ==
  MaxLogins \in Nat /\ MaxFailures \in Nat /\ MaxWire \in Nat \ {0}

VARIABLES
  \* the server
  published,  \* messages it has
  online,     \* the connection is up
  seen,       \* LoginRequest.seen_messages of this connection
  acked,      \* cursors acknowledged on this connection
  pushed,     \* messages pushed on this connection
  wire,       \* frames on their way to the client
  \* the client: position of its run task, seen_messages it loaded, the frame
  \* it handles, and the state of each send_message() call
  pc, loaded, frame, sendState,
  \* the cursor store: message bodies and cursors
  bodies, cursors,
  \* bounds and histories: logins made, store failures left, events sent per message
  \* (up to MaxEvents), messages dropped on the way to an event, and messages pushed
  \* again on the same connection
  logins, failures, events, dropped, repeated

serverVars == <<published, online, seen, acked, pushed, wire>>
clientVars == <<pc, loaded, frame, sendState>>
storeVars == <<bodies, cursors>>
history == <<events, dropped, repeated>>
vars == <<serverVars, clientVars, storeVars, logins, failures, history>>

MaxEvents == 2  \* bound: the count of events per message stops there

Kinds == {"push", "response", "error"}
Frames == [kind : Kinds, msg : Messages]
ErrorFrame == [kind |-> "error", msg |-> CHOOSE m \in Messages : TRUE]
Pcs == {"offline", "login", "read", "save", "cursor", "ack", "emit", "resolve", "fail"}
SendStates == {"idle", "sent", "gone", "ok", "store"}

FlagType == online \in BOOLEAN

ServerType ==
  /\ published \subseteq Messages /\ seen \subseteq Messages
  /\ acked \subseteq Messages /\ pushed \subseteq Messages
  /\ wire \in Seq(Frames) /\ Len(wire) <= MaxWire

ClientType ==
  /\ pc \in Pcs /\ loaded \subseteq Messages /\ frame \in Frames
  /\ sendState \in [Sends -> SendStates]
  /\ bodies \subseteq Messages /\ cursors \subseteq Messages

HistoryType ==
  /\ logins \in 0..MaxLogins /\ (pc = "login" => logins < MaxLogins)
  /\ failures \in 0..MaxFailures
  /\ events \in [Messages -> 0..MaxEvents]
  /\ dropped \subseteq Messages /\ repeated \subseteq Messages

\* What is acknowledged or announced is a pushed message, what resolves a call is
\* the answer to a send_message().
FrameFits ==
  /\ pc \in {"save", "cursor"} => frame.kind # "error"
  /\ pc \in {"ack", "emit"} => frame.kind = "push"
  /\ pc \in {"resolve", "fail"} => frame.kind = "response"

\* The type invariant.
TypeOK == FlagType /\ ServerType /\ ClientType /\ HistoryType /\ FrameFits

Init ==
  /\ published = {} /\ online = FALSE /\ seen = {} /\ acked = {} /\ pushed = {}
  /\ wire = <<>>
  /\ pc = "offline" /\ loaded = {} /\ frame = ErrorFrame
  /\ sendState = [m \in Sends |-> "idle"]
  /\ bodies = {} /\ cursors = {}
  /\ logins = 0 /\ failures = MaxFailures
  /\ events = [m \in Messages |-> 0]
  /\ dropped = {} /\ repeated = {}

-----------------------------------------------------------------------------
(* The server and the network.                                             *)

Publish(m) ==
  /\ m \notin published \cup Sends
  /\ published' = published \cup {m}
  /\ UNCHANGED <<online, seen, acked, pushed, wire, clientVars, storeVars, logins,
                 failures, history>>

Deliver(f) == online /\ Len(wire) < MaxWire /\ wire' = Append(wire, f)

\* An unacknowledged message may come again on the same connection.
Push(m) ==
  /\ m \in published \ (seen \cup acked)
  /\ Deliver([kind |-> "push", msg |-> m])
  /\ pushed' = pushed \cup {m}
  /\ repeated' = IF m \in pushed THEN repeated \cup {m} ELSE repeated
  /\ UNCHANGED <<published, online, seen, acked, clientVars, storeVars, logins,
                 failures, events, dropped>>

\* The answer to a send_message() of this connection, once.
AnswerSend(m) ==
  /\ sendState[m] \in {"sent", "gone"} /\ m \notin published
  /\ published' = published \cup {m}
  /\ Deliver([kind |-> "response", msg |-> m])
  /\ UNCHANGED <<online, seen, acked, pushed, clientVars, storeVars, logins,
                 failures, history>>

\* An Error frame with request_id 0; one in flight is enough here.
SendError ==
  /\ \A i \in DOMAIN wire : wire[i] # ErrorFrame
  /\ Deliver(ErrorFrame)
  /\ UNCHANGED <<published, online, seen, acked, pushed, clientVars, storeVars,
                 logins, failures, history>>

\* Frames the client has not read may be lost with the connection.
ConnectionLost ==
  /\ online /\ online' = FALSE
  /\ wire' \in {wire, <<>>}
  /\ UNCHANGED <<published, seen, acked, pushed, clientVars, storeVars, logins,
                 failures, history>>

-----------------------------------------------------------------------------
(* The client.                                                             *)

Goto(from, to) == pc = from /\ pc' = to

\* Fault: the login reports nothing.
LoadSeenNothing ==
  /\ Goto("offline", "login") /\ logins < MaxLogins
  /\ loaded' = {}
  /\ UNCHANGED <<frame, sendState, serverVars, storeVars, logins, failures, history>>

\* load_seen_messages(), at the start of connect_and_serve().
LoadSeen ==
  /\ Goto("offline", "login") /\ logins < MaxLogins
  /\ loaded' = cursors
  /\ UNCHANGED <<frame, sendState, serverVars, storeVars, logins, failures, history>>

Login ==
  /\ Goto("login", "read")
  /\ online' = TRUE /\ seen' = loaded
  /\ acked' = {} /\ pushed' = {} /\ wire' = <<>>
  /\ logins' = logins + 1
  /\ UNCHANGED <<published, loaded, frame, sendState, storeVars, failures, events, dropped,
                 repeated>>

LoginFails ==
  /\ Goto("login", "offline")
  /\ UNCHANGED <<loaded, frame, sendState, serverVars, storeVars, logins, failures,
                 history>>

\* handle_server_envelope() of the next frame.  A connection-level Error is
\* reported to the subscribers and reading goes on.
ReadFrame ==
  /\ wire # <<>>
  /\ Goto("read", IF Head(wire).kind = "error" THEN "read" ELSE "save")
  /\ frame' = Head(wire) /\ wire' = Tail(wire)
  /\ UNCHANGED <<published, online, seen, acked, pushed, loaded, sendState, storeVars,
                 logins, failures, events, dropped, repeated>>

\* The stream ended: back to run(), which dials again.
ReadFails ==
  /\ Goto("read", "offline") /\ ~online /\ wire = <<>>
  /\ UNCHANGED <<loaded, frame, sendState, serverVars, storeVars, logins, failures,
                 history>>

\* After persist_message(): a pushed message is acknowledged, the response of a
\* send_message() resolves its call.
AfterPersist == IF frame.kind = "response" THEN "resolve"
                ELSE IF AckMessages THEN "ack" ELSE "emit"

SaveMessage ==
  /\ Goto("save", "cursor")
  /\ bodies' = bodies \cup {frame.msg}
  /\ UNCHANGED <<loaded, frame, sendState, cursors, serverVars, logins, failures,
                 history>>

SaveCursor ==
  /\ Goto("cursor", AfterPersist)
  /\ cursors' = cursors \cup {frame.msg}
  /\ UNCHANGED <<loaded, frame, sendState, bodies, serverVars, logins, failures,
                 history>>

\* Fault: a failed save_message() is followed by save_cursor() all the same.
StoreFailsGoesOn ==
  /\ failures > 0 /\ failures' = failures - 1
  /\ \/ pc = "save" /\ bodies' \in {bodies, bodies \cup {frame.msg}}
        /\ UNCHANGED <<cursors, dropped>>
     \/ pc = "cursor" /\ UNCHANGED bodies
        /\ \/ UNCHANGED <<cursors, dropped>>
           \/ cursors' = cursors \cup {frame.msg} /\ dropped' = dropped \cup {frame.msg}
  /\ pc' = IF pc = "save" THEN "cursor" ELSE IF frame.kind = "response" THEN "fail" ELSE "read"
  /\ UNCHANGED <<loaded, frame, sendState, serverVars, logins, events, repeated>>

\* Fault: the failure is not propagated.
StoreFailsIgnored ==
  /\ failures > 0 /\ failures' = failures - 1
  /\ \/ pc = "save" /\ bodies' \in {bodies, bodies \cup {frame.msg}}
        /\ UNCHANGED <<cursors, dropped>>
     \/ pc = "cursor" /\ UNCHANGED bodies
        /\ \/ UNCHANGED <<cursors, dropped>>
           \/ cursors' = cursors \cup {frame.msg} /\ dropped' = dropped \cup {frame.msg}
  /\ pc' = AfterPersist
  /\ UNCHANGED <<loaded, frame, sendState, serverVars, logins, events, repeated>>

\* A failed operation of the store may have taken effect.  A push goes no
\* further: no acknowledgement and no event; a response fails its call.
StoreFails ==
  /\ failures > 0 /\ failures' = failures - 1
  /\ \/ pc = "save" /\ bodies' \in {bodies, bodies \cup {frame.msg}}
        /\ UNCHANGED <<cursors, dropped>>
     \/ pc = "cursor" /\ UNCHANGED bodies
        /\ \/ UNCHANGED <<cursors, dropped>>
           \/ cursors' = cursors \cup {frame.msg} /\ dropped' = dropped \cup {frame.msg}
  /\ pc' = IF frame.kind = "response" THEN "fail" ELSE "read"
  /\ UNCHANGED <<loaded, frame, sendState, serverVars, logins, events, repeated>>

\* Fault: an acknowledgement that is not written ends the handler.
AckOrReturn ==
  /\ pc = "ack"
  /\ \/ online /\ acked' = acked \cup {frame.msg} /\ pc' = "emit"
     \/ UNCHANGED acked /\ pc' = "read"
  /\ UNCHANGED <<published, online, seen, pushed, wire, loaded, frame, sendState,
                 storeVars, logins, failures, events, dropped, repeated>>

\* send_envelope(ack): whatever it returns, the event follows.
Ack ==
  /\ Goto("ack", "emit")
  /\ \/ online /\ acked' = acked \cup {frame.msg}
     \/ UNCHANGED acked
  /\ UNCHANGED <<published, online, seen, pushed, wire, loaded, frame, sendState,
                 storeVars, logins, failures, events, dropped, repeated>>

EmitMessage ==
  /\ Goto("emit", "read")
  /\ events' = [events EXCEPT ![frame.msg] = IF @ < MaxEvents THEN @ + 1 ELSE @]
  /\ UNCHANGED <<loaded, frame, sendState, serverVars, storeVars, logins, failures,
                 dropped, repeated>>

\* Fault: the call gets its message whether or not it was stored.
ResolveAlways ==
  /\ pc \in {"resolve", "fail"} /\ pc' = "read"
  /\ sendState' = [m \in Sends |->
       IF m = frame.msg /\ sendState[m] = "sent" THEN "ok" ELSE sendState[m]]
  /\ UNCHANGED <<loaded, frame, serverVars, storeVars, logins, failures, history>>

\* resolve_pending(): a call that is gone has no receiver any more.
Resolve ==
  /\ pc \in {"resolve", "fail"} /\ pc' = "read"
  /\ sendState' = [m \in Sends |->
       IF m = frame.msg /\ sendState[m] = "sent"
         THEN IF pc = "resolve" THEN "ok" ELSE "store"
         ELSE sendState[m]]
  /\ UNCHANGED <<loaded, frame, serverVars, storeVars, logins, failures, history>>

SendMessage(m) ==
  /\ online /\ sendState[m] = "idle"
  /\ sendState' = [sendState EXCEPT ![m] = "sent"]
  /\ UNCHANGED <<pc, loaded, frame, serverVars, storeVars, logins, failures, history>>

\* Its timeout, the loss of its connection or its caller ends a call.
SendGone(m) ==
  /\ sendState[m] = "sent"
  /\ sendState' = [sendState EXCEPT ![m] = "gone"]
  /\ UNCHANGED <<pc, loaded, frame, serverVars, storeVars, logins, failures, history>>

\* The process dies, or close() aborts the run task and a new Client takes over
\* the store.
Crash ==
  /\ pc # "offline" /\ pc' = "offline"
  /\ online' = FALSE /\ wire' = <<>>
  /\ sendState' = [m \in Sends |-> IF sendState[m] = "sent" THEN "gone" ELSE sendState[m]]
  /\ dropped' = IF pc \in {"ack", "emit"} THEN dropped \cup {frame.msg} ELSE dropped
  /\ UNCHANGED <<published, seen, acked, pushed, loaded, frame, storeVars, logins,
                 failures, events, repeated>>

-----------------------------------------------------------------------------
(* The next-state relation.                                                *)

ServerStep == \/ \E m \in Messages : Publish(m) \/ Push(m)
              \/ \E m \in Sends : AnswerSend(m)
              \/ SendError \/ ConnectionLost
ReadLoop == ReadFrame \/ ReadFails \/ SaveMessage \/ SaveCursor \/ StoreFails
            \/ Ack \/ EmitMessage \/ Resolve
Next == \/ ServerStep \/ LoadSeen \/ Login \/ LoginFails \/ ReadLoop \/ Crash
        \/ \E m \in Sends : SendMessage(m) \/ SendGone(m)

Spec == Init /\ [][Next]_vars

\* The client reconnects and reads; the server keeps pushing what it was not told
\* of.  A login is not refused for ever.
Fairness ==
  /\ WF_vars(LoadSeen) /\ SF_vars(Login)
  /\ WF_vars(ReadFrame \/ ReadFails \/ Ack \/ EmitMessage \/ Resolve)
  /\ WF_vars(SaveMessage) /\ WF_vars(SaveCursor)
  /\ \A m \in Messages : SF_vars(Push(m))
FairSpec == Spec /\ Fairness

-----------------------------------------------------------------------------
(* Safety.                                                                 *)

\* The server holds a message back, on a report of the login or an
\* acknowledgement, only when its body and its cursor are in the store, through
\* failures of the store and crashes between its two operations.
HeldBackIsStored == seen \cup acked \subseteq bodies \cap cursors

\* A cursor never stands for a body that was not saved.
CursorHasBody == cursors \subseteq bodies

\* A subscriber is told of a message only after it is stored, and a
\* send_message() that returned it found it stored.
ToldIsStored ==
  /\ \A m \in Messages : events[m] > 0 => m \in bodies \cap cursors
  /\ \A m \in Sends : sendState[m] = "ok" => m \in bodies \cap cursors

\* Subscribers get a message at most once, reconnects and crashes included, unless
\* the server pushed it twice on one connection: the client itself drops no
\* duplicates.
AtMostOneEvent == \A m \in Messages \ repeated : events[m] <= 1

\* A message whose cursor is saved, so that it will not come again, has been
\* announced, unless the client stopped, or the store failed, in between.
StoredIsAnnounced ==
  \A m \in cursors \ Sends :
    events[m] > 0 \/ m \in dropped \/ (frame.msg = m /\ pc \in {"ack", "emit"})

\* The message path implements DurableInbox: stored is what has its body and its
\* cursor, and the application is told by an event or by the result of its call.
Told == {m \in Messages : events[m] > 0} \cup {m \in Sends : sendState[m] = "ok"}
Inbox == INSTANCE DurableInbox WITH stored <- bodies \cap cursors,
                                    suppressed <- seen \cup acked,
                                    told <- Told
ImplementsInbox == Inbox!Spec

-----------------------------------------------------------------------------
(* The inductive invariant behind the safety properties.                   *)

\* A handler past save_message() has its body stored, past save_cursor() its
\* cursor too.
HandledIsStored ==
  /\ pc = "cursor" => frame.msg \in bodies
  /\ pc \in {"ack", "emit", "resolve"} => frame.msg \in bodies \cap cursors
LoadedIsStored == loaded \subseteq bodies \cap cursors
StoreInv == CursorHasBody /\ HandledIsStored /\ LoadedIsStored
            /\ HeldBackIsStored /\ ToldIsStored

\* Frames carry published messages, and responses only those sent.
Genuine(f) == /\ f.kind # "error" => f.msg \in published
              /\ f.kind = "response" => f.msg \in Sends
FramesGenuine == /\ \A i \in DOMAIN wire : Genuine(wire[i])
                 /\ pc \in {"save", "cursor"} => Genuine(frame)

\* Without a connection nothing is in flight, and nothing is stored between the
\* loading of the cursors and the login.
OfflineIsIdle == pc \in {"offline", "login"} => ~online /\ wire = <<>>
LoadedIsAll == pc = "login" => loaded = cursors

\* What was announced was reported or pushed on this connection, and so were
\* the pushes in flight.  One of a message not repeated is the only one, and was not
\* announced.
IsPush(f, m) == f.kind = "push" /\ f.msg = m
Handling(m) == pc \in {"save", "cursor", "ack", "emit"} /\ IsPush(frame, m)
Fresh(m) == events[m] = 0
ToldIsKnown == \A m \in Messages :
  events[m] > 0 /\ pc \notin {"offline", "login"} => m \in seen \cup pushed
PushIsKnown == \A m \in Messages :
  Handling(m) \/ (\E i \in DOMAIN wire : IsPush(wire[i], m)) => m \in pushed
InFlightIsFresh == \A m \in Messages \ repeated :
  /\ Handling(m) => Fresh(m)
  /\ \A i \in DOMAIN wire : IsPush(wire[i], m) => Fresh(m) /\ ~Handling(m)
InFlightOnce == \A i, j \in DOMAIN wire :
  wire[i].kind = "push" /\ wire[i].msg \notin repeated /\ wire[j] = wire[i] => i = j
OnceInv == ToldIsKnown /\ PushIsKnown /\ InFlightIsFresh /\ InFlightOnce
           /\ AtMostOneEvent

\* The invariant the proofs use: each part holds in every reachable state.
IInv == TypeOK /\ StoreInv /\ FramesGenuine /\ OfflineIsIdle /\ LoadedIsAll
        /\ StoredIsAnnounced /\ OnceInv

-----------------------------------------------------------------------------
(* Liveness.                                                               *)

\* Every published message is stored in the end, if the server repeats what was
\* not acknowledged and the connections do not run out.
EventuallyStored ==
  \A m \in Messages : m \in published
     ~> m \in bodies \cap cursors \/ (logins = MaxLogins /\ ~online)
=============================================================================
