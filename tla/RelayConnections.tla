-------------------------- MODULE RelayConnections --------------------------
(***************************************************************************)
(* The relay manager of one client (src/src/relay.rs:705-1090): connect(),  *)
(* the handling of OPEN, OPEN_ACK, CLOSE and ERROR frames, handle_close()   *)
(* with its callbacks, and the table `conns` that finds a connection by its *)
(* relay_id.  The peers are external: they answer the OPENs that reach      *)
(* them and send OPENs of their own, perhaps more than once.  What an open  *)
(* connection carries is RelayTransfer.                                     *)
(***************************************************************************)
EXTENDS Naturals, FiniteSets

CONSTANTS
  Calls,        \* connect() calls: each names its connection and its relay_id
  OpenIds,      \* relay_ids that peers open
  MaxOpens,     \* bound: OPEN frames that come
  MaxHandlers,  \* bound: frames in handling at a time
  None          \* no connection

Opens == 1..MaxOpens
Conns == Calls \cup Opens
Ids == Calls \cup OpenIds

ASSUME BoundsAssumption == MaxOpens \in Nat /\ MaxHandlers \in Nat \ {0}
ASSUME NamesAssumption ==
  Calls \cap (Opens \cup OpenIds) = {} /\ None \notin Conns \cup Ids

VARIABLES
  \* RelayConnectionInner: relay_id, state, its close callback, the position of the
  \* handle_close() that closed it, and whether that is a call of the application
  id, state, hook, closer, byCall,
  conns,      \* RelayInner.conns
  connectPc,  \* position of each connect()
  woken,      \* calls that open_notify found waiting
  reached,    \* calls whose OPEN reached the peer
  opens,      \* OPEN frames that came; the n-th made the connection n
  handlers,   \* frames in handling, with the connection found for them
  loops,      \* connections whose send loop was spawned
  given,      \* connections the application was given
  abandoned   \* connections whose close() was dropped before handle_close()

connVars == <<id, state, hook, closer, byCall>>
callVars == <<connectPc, woken, reached>>
appVars == <<given, abandoned>>
vars == <<connVars, conns, callVars, opens, handlers, loops, appVars>>

States == {"none", "opening", "open", "closing", "closed"}
Closers == {"none", "callbacks", "remove", "done", "dropped"}
ConnectPcs == {"idle", "send", "arm", "wait", "timeout", "ok", "failed", "dropped"}
Handlers == [kind : {"ack", "close", "accept", "call", "reject"}, conn : Conns]

\* The type invariant.
TypeOK ==
  /\ id \in [Conns -> Ids \cup {None}] /\ state \in [Conns -> States]
  /\ hook \in [Conns -> {"none", "kept", "called"}]
  /\ closer \in [Conns -> Closers] /\ byCall \subseteq Conns
  /\ conns \in [Ids -> Conns \cup {None}]
  /\ connectPc \in [Calls -> ConnectPcs] /\ woken \subseteq Calls
  /\ reached \subseteq Calls /\ opens \in 0..MaxOpens
  /\ handlers \subseteq Handlers
  /\ loops \subseteq Conns /\ given \subseteq Conns /\ abandoned \subseteq Conns

Init ==
  /\ id = [c \in Conns |-> IF c \in Calls THEN c ELSE None]
  /\ state = [c \in Conns |-> "none"] /\ hook = [c \in Conns |-> "none"]
  /\ closer = [c \in Conns |-> "none"] /\ byCall = {}
  /\ conns = [i \in Ids |-> None]
  /\ connectPc = [c \in Calls |-> "idle"] /\ woken = {} /\ reached = {}
  /\ opens = 0 /\ handlers = {} /\ loops = {} /\ given = {} /\ abandoned = {}

-----------------------------------------------------------------------------
(* handle_close().                                                         *)

\* Only the first handle_close() of a connection gets past its check.
BeginClose(c) ==
  IF state[c] = "closed"
    THEN UNCHANGED <<state, closer>>
    ELSE /\ state' = [state EXCEPT ![c] = "closed"]
         /\ closer' = [closer EXCEPT ![c] = "callbacks"]

\* Fault: the callbacks are kept for errors.
RunCallbacksOnError(c) ==
  /\ closer[c] = "callbacks" /\ closer' = [closer EXCEPT ![c] = "remove"]
  /\ hook' = [hook EXCEPT ![c] = IF @ = "kept" /\ c \notin byCall THEN "called" ELSE @]
  /\ UNCHANGED <<id, state, byCall, conns, callVars, opens, handlers, loops, appVars>>

RunCallbacks(c) ==
  /\ closer[c] = "callbacks" /\ closer' = [closer EXCEPT ![c] = "remove"]
  /\ hook' = [hook EXCEPT ![c] = IF @ = "kept" THEN "called" ELSE @]
  /\ UNCHANGED <<id, state, byCall, conns, callVars, opens, handlers, loops, appVars>>

Forget(i) == conns' = [conns EXCEPT ![i] = None]

\* Fault: the entry is left to the peer's CLOSE.
RemoveUnlessLocal(c) ==
  /\ closer[c] = "remove" /\ closer' = [closer EXCEPT ![c] = "done"]
  /\ IF c \in byCall THEN UNCHANGED conns ELSE Forget(id[c])
  /\ UNCHANGED <<id, state, hook, byCall, callVars, opens, handlers, loops, appVars>>

\* remove_connection() goes by the relay_id, whichever connection it finds.
Remove(c) ==
  /\ closer[c] = "remove" /\ closer' = [closer EXCEPT ![c] = "done"]
  /\ Forget(id[c])
  /\ UNCHANGED <<id, state, hook, byCall, callVars, opens, handlers, loops, appVars>>

\* A close(), abort() or connect() whose caller drops it stops at its next await.
CloserDropped(c) ==
  /\ c \in byCall /\ closer[c] \in {"callbacks", "remove"}
  /\ closer' = [closer EXCEPT ![c] = "dropped"]
  /\ connectPc' = [d \in Calls |->
       IF d = c /\ connectPc[d] = "timeout" THEN "dropped" ELSE connectPc[d]]
  /\ UNCHANGED <<id, state, hook, byCall, conns, woken, reached, opens, handlers, loops,
                 appVars>>

-----------------------------------------------------------------------------
(* connect().                                                              *)

At(c, from, to) == connectPc[c] = from /\ connectPc' = [connectPc EXCEPT ![c] = to]

\* No session of the target takes packets, or the client has none of its own.
ConnectRefused(c) ==
  /\ At(c, "idle", "failed")
  /\ UNCHANGED <<connVars, conns, woken, reached, opens, handlers, loops, appVars>>

\* The connection is listed before its OPEN is sent.
Connect(c) ==
  /\ At(c, "idle", "send")
  /\ state' = [state EXCEPT ![c] = "opening"]
  /\ conns' = [conns EXCEPT ![c] = c]
  /\ UNCHANGED <<id, hook, closer, byCall, woken, reached, opens, handlers, loops, appVars>>

\* The peer gets the OPEN, before or after the server's answer to connect().
OpenReaches(c) ==
  /\ state[c] # "none" /\ reached' = reached \cup {c}
  /\ UNCHANGED <<connVars, conns, connectPc, woken, opens, handlers, loops, appVars>>

OpenSent(c) ==
  /\ At(c, "send", "arm")
  /\ UNCHANGED <<connVars, conns, woken, reached, opens, handlers, loops, appVars>>

\* Fault: the connection stays listed.
OpenFailsListed(c) ==
  /\ At(c, "send", "failed")
  /\ UNCHANGED <<connVars, conns, woken, reached, opens, handlers, loops, appVars>>

OpenFails(c) ==
  /\ At(c, "send", "failed") /\ Forget(c)
  /\ UNCHANGED <<connVars, woken, reached, opens, handlers, loops, appVars>>

\* The send loop is spawned; only now does connect() listen to open_notify.
Arm(c) ==
  /\ At(c, "arm", "wait") /\ loops' = loops \cup {c}
  /\ UNCHANGED <<connVars, conns, woken, reached, opens, handlers, appVars>>

ConnectOk(c) ==
  /\ At(c, "wait", "ok") /\ c \in woken
  /\ given' = given \cup {c}
  /\ UNCHANGED <<connVars, conns, woken, reached, opens, handlers, loops, abandoned>>

\* Fault: the timeout is for connections that are still opening.
OpenTimeoutOfOpening(c) ==
  /\ state[c] = "opening"
  /\ At(c, "wait", "timeout")
  /\ BeginClose(c) /\ byCall' = byCall \cup {c}
  /\ UNCHANGED <<id, hook, conns, woken, reached, opens, handlers, loops, appVars>>

\* open_timeout_ms passed, perhaps together with the OPEN_ACK.
OpenTimeout(c) ==
  /\ At(c, "wait", IF state[c] = "closed" THEN "failed" ELSE "timeout")
  /\ BeginClose(c)
  /\ byCall' = IF state[c] = "closed" THEN byCall ELSE byCall \cup {c}
  /\ UNCHANGED <<id, hook, conns, woken, reached, opens, handlers, loops, appVars>>

ConnectFails(c) ==
  /\ At(c, "timeout", "failed") /\ closer[c] = "done"
  /\ UNCHANGED <<connVars, conns, woken, reached, opens, handlers, loops, appVars>>

\* The caller drops connect().
ConnectDropped(c) ==
  /\ connectPc[c] \in {"send", "arm", "wait"}
  /\ connectPc' = [connectPc EXCEPT ![c] = "dropped"]
  /\ UNCHANGED <<connVars, conns, woken, reached, opens, handlers, loops, appVars>>

-----------------------------------------------------------------------------
(* Frames, handled by the task of start() and by those of handle_packet().  *)

Handle(h) == handlers' = handlers \cup {h} /\ Cardinality(handlers) < MaxHandlers
Handled(h) == h \in handlers /\ handlers' = handlers \ {h}

\* OPEN_ACK, CLOSE or ERROR: the connection is looked up first; without one the
\* frame is dropped.
Find(kind, i) ==
  /\ i \in reached \cup {id[n] : n \in 1..opens}
  /\ conns[i] # None
  /\ Handle([kind |-> kind, conn |-> conns[i]])
  /\ UNCHANGED <<connVars, conns, callVars, opens, loops, appVars>>

\* Fault: the state is not looked at.
HandleOpenAckAlways(h) ==
  /\ h.kind = "ack" /\ Handled(h)
  /\ state' = [state EXCEPT ![h.conn] = "open"]
  /\ woken' = woken \cup {c \in Calls : c = h.conn /\ connectPc[c] = "wait"}
  /\ UNCHANGED <<id, hook, closer, byCall, conns, connectPc, reached, opens, loops, appVars>>

\* notify_waiters() leaves no trace for a connect() that does not wait yet.
HandleOpenAck(h) ==
  /\ h.kind = "ack" /\ Handled(h)
  /\ IF state[h.conn] = "opening"
       THEN /\ state' = [state EXCEPT ![h.conn] = "open"]
            /\ woken' = woken \cup {c \in Calls : c = h.conn /\ connectPc[c] = "wait"}
       ELSE UNCHANGED <<state, woken>>
  /\ UNCHANGED <<id, hook, closer, byCall, conns, connectPc, reached, opens, loops, appVars>>

HandleClose(h) ==
  /\ h.kind = "close" /\ Handled(h)
  /\ BeginClose(h.conn)
  /\ UNCHANGED <<id, hook, byCall, conns, callVars, opens, loops, appVars>>

\* Fault: the new connection takes the place of the listed one.
AcceptReplaces(i) ==
  /\ opens < MaxOpens /\ opens' = opens + 1
  /\ id' = [id EXCEPT ![opens'] = i] /\ state' = [state EXCEPT ![opens'] = "open"]
  /\ conns' = [conns EXCEPT ![i] = opens']
  /\ Handle([kind |-> "accept", conn |-> opens'])
  /\ UNCHANGED <<hook, closer, byCall, callVars, loops, appVars>>

\* An OPEN makes a connection, open at once.  If its relay_id is listed the new one
\* is rejected: the comparison of the two relay_ids compares equals.
AcceptIncoming(i) ==
  /\ opens < MaxOpens /\ opens' = opens + 1
  /\ id' = [id EXCEPT ![opens'] = i] /\ state' = [state EXCEPT ![opens'] = "open"]
  /\ \/ /\ conns[i] = None /\ conns' = [conns EXCEPT ![i] = opens']
        /\ Handle([kind |-> "accept", conn |-> opens'])
     \/ /\ conns[i] # None /\ UNCHANGED conns
        /\ Handle([kind |-> "reject", conn |-> opens'])
  /\ UNCHANGED <<hook, closer, byCall, callVars, loops, appVars>>

\* The send loop runs before the application knows the connection.
SpawnLoop(h) ==
  /\ h.kind = "accept" /\ h \in handlers
  /\ handlers' = (handlers \ {h}) \cup {[kind |-> "call", conn |-> h.conn]}
  /\ loops' = loops \cup {h.conn}
  /\ UNCHANGED <<connVars, conns, callVars, opens, appVars>>

\* The OPEN_ACK fails (remote_peer is no valid user), which nobody minds; then the
\* application's handler, if it set one, is called, closed meanwhile or not.
CallHandler(h) ==
  /\ h.kind = "call" /\ Handled(h)
  /\ given' \in {given, given \cup {h.conn}}
  /\ UNCHANGED <<connVars, conns, callVars, opens, loops, abandoned>>

Reject(h) ==
  /\ h.kind = "reject" /\ Handled(h)
  /\ BeginClose(h.conn)
  /\ UNCHANGED <<id, hook, byCall, conns, callVars, opens, loops, appVars>>

-----------------------------------------------------------------------------
(* The application and the send loop.                                      *)

OnClose(c) ==
  /\ c \in given /\ hook[c] = "none"
  /\ hook' = [hook EXCEPT ![c] = "kept"]
  /\ UNCHANGED <<id, state, closer, byCall, conns, callVars, opens, handlers, loops,
                 appVars>>

\* close(): the state first, then the CLOSE frame, then handle_close().
Close(c) ==
  /\ c \in given /\ state[c] = "open"
  /\ state' = [state EXCEPT ![c] = "closing"]
  /\ UNCHANGED <<id, hook, closer, byCall, conns, callVars, opens, handlers, loops, appVars>>

FinishClose(c) ==
  /\ state[c] = "closing" /\ c \notin abandoned
  /\ BeginClose(c) /\ byCall' = byCall \cup {c}
  /\ UNCHANGED <<id, hook, conns, callVars, opens, handlers, loops, appVars>>

CloseDropped(c) ==
  /\ state[c] = "closing" /\ abandoned' = abandoned \cup {c}
  /\ UNCHANGED <<connVars, conns, callVars, opens, handlers, loops, given>>

Abort(c) ==
  /\ c \in given /\ state[c] # "closed"
  /\ BeginClose(c) /\ byCall' = byCall \cup {c}
  /\ UNCHANGED <<id, hook, conns, callVars, opens, handlers, loops, appVars>>

\* A write that fails, or too many retransmissions.
LoopCloses(c) ==
  /\ c \in loops /\ state[c] # "closed"
  /\ BeginClose(c)
  /\ UNCHANGED <<id, hook, byCall, conns, callVars, opens, handlers, loops, appVars>>

-----------------------------------------------------------------------------
(* The next-state relation.                                                *)

CloserStep(c) == RunCallbacks(c) \/ Remove(c)
ConnectStep(c) == \/ ConnectRefused(c) \/ Connect(c) \/ OpenReaches(c)
                  \/ OpenSent(c) \/ OpenFails(c) \/ Arm(c) \/ ConnectOk(c)
                  \/ OpenTimeout(c) \/ ConnectFails(c) \/ ConnectDropped(c)
FrameStep(h) == \/ HandleOpenAck(h) \/ HandleClose(h) \/ SpawnLoop(h)
                \/ CallHandler(h) \/ Reject(h)
AppStep(c) == OnClose(c) \/ Close(c) \/ FinishClose(c) \/ CloseDropped(c) \/ Abort(c)

Next == \/ \E c \in Calls : ConnectStep(c)
        \/ \E i \in Ids, kind \in {"ack", "close"} : Find(kind, i)
        \/ \E i \in OpenIds \cup reached : AcceptIncoming(i)
        \/ \E h \in handlers : FrameStep(h)
        \/ \E c \in Conns : CloserStep(c) \/ CloserDropped(c) \/ AppStep(c) \/ LoopCloses(c)

Spec == Init /\ [][Next]_vars

\* Tasks run, the request that carries the OPEN ends (at the latest with the request
\* timeout), and so does the wait for the OPEN_ACK.
Fairness ==
  /\ \A c \in Conns : WF_vars(CloserStep(c)) /\ WF_vars(FinishClose(c))
  /\ \A c \in Calls : WF_vars(OpenSent(c) \/ OpenFails(c) \/ Arm(c) \/ ConnectOk(c)
                              \/ OpenTimeout(c) \/ ConnectFails(c))
FairSpec == Spec /\ Fairness

-----------------------------------------------------------------------------
(* Safety.                                                                 *)

\* A connect() that returned an error leaves nothing behind: its connection is not
\* listed, or the close that another frame began is about to remove it.
FailedLeavesNothing ==
  \A c \in Calls : connectPc[c] = "failed" =>
    conns[c] # c \/ closer[c] \in {"callbacks", "remove"}

\* An OPEN never takes the place of a listed connection, whoever comes first.
ListedIsNotReplaced ==
  [][\A i \in Ids : conns[i] # None => conns'[i] \in {conns[i], None}]_vars

-----------------------------------------------------------------------------
(* The inductive invariant behind the safety properties.                   *)

\* What has not begun has left no trace.
Fresh ==
  /\ \A c \in Calls : connectPc[c] = "idle" => state[c] = "none"
  /\ \A n \in Opens : n > opens => state[n] = "none"
Begun ==
  /\ \A i \in Ids : conns[i] # None => state[conns[i]] # "none"
  /\ \A h \in handlers : state[h.conn] # "none"
  /\ \A c \in Calls : connectPc[c] \notin {"idle", "failed"} => state[c] # "none"
  /\ \A c \in loops \cup given \cup reached : state[c] # "none"

\* A connection is closed exactly when a handle_close() got past its check.
ClosedByOne == \A c \in Conns : state[c] = "closed" <=> closer[c] # "none"

\* An entry is under the relay_id of its connection, which is that of its own
\* connect() or one that a peer opened.
OwnEntries ==
  /\ \A c \in Calls : id[c] = c
  /\ \A n \in Opens : id[n] \in OpenIds \cup reached \cup {None}
  /\ \A i \in Ids : conns[i] # None => id[conns[i]] = i

\* Once removed a connection is not listed again.
DoneIsGone == \A c \in Conns : closer[c] = "done" => \A i \in Ids : conns[i] # c

\* The application closes only what it was given; connect() alone closes before.
ClosingIsGiven ==
  /\ \A h \in handlers : h.kind \in {"accept", "call"} => h.conn \in Opens
  /\ \A c \in Conns : state[c] = "closing" => c \in given
  /\ \A c \in given \cap Calls : connectPc[c] = "ok"
  /\ \A c \in Calls : connectPc[c] = "timeout" => state[c] = "closed"
  /\ \A c \in byCall \cap Calls :
       connectPc[c] \in {"timeout", "ok", "dropped"}
         \/ (connectPc[c] = "failed" /\ closer[c] = "done")
  /\ \A c \in Conns : closer[c] = "dropped" => c \in byCall

\* The invariant the proofs use: each part holds in every reachable state.
IInv == TypeOK /\ Fresh /\ Begun /\ ClosedByOne /\ OwnEntries /\ DoneIsGone
        /\ ClosingIsGiven /\ FailedLeavesNothing

-----------------------------------------------------------------------------
(* What the table promises.                                                *)

\* A connection begins with its state and ends with its closing, or with the OPEN
\* that its connect() could not send.
BegunConns == {c \in Conns : state[c] # "none"}
Ended(c) == \/ state[c] = "closed"
            \/ c \in Calls /\ state[c] # "none" /\ connectPc[c] = "failed"

Registry == INSTANCE RelayRegistry
  WITH name <- id, table <- conns, begun <- BegunConns, ended <- {c \in Conns : Ended(c)}

\* No OPEN replaces a listed connection, no connection is listed twice, and an entry
\* goes only once a connection of its relay_id has ended.
ImplementsRegistry == Registry!Spec

-----------------------------------------------------------------------------
(* Liveness.                                                               *)

\* A closed connection is no longer found, unless the caller dropped the call that
\* closed it.
ClosedIsForgotten ==
  \A c \in Conns : state[c] = "closed"
                     ~> closer[c] = "dropped" \/ \A i \in Ids : conns[i] # c

\* A callback registered before the closing takes the callbacks is called.
CallbackRuns ==
  \A c \in Conns : hook[c] = "kept" /\ state[c] = "closed" /\ closer[c] = "callbacks"
                     ~> hook[c] = "called" \/ closer[c] = "dropped"

\* Every connect() ends, whatever the peer does.
ConnectEnds ==
  \A c \in Calls : connectPc[c] # "idle" ~> connectPc[c] \in {"ok", "failed", "dropped"}

-----------------------------------------------------------------------------
(* What a comment of the code says and the code does not do.               *)

\* When the relay_id of an OPEN is in use, the new connection is given up and the
\* existing one kept (src/src/relay.rs:1037, 1054): an entry goes only with the
\* closing, or the failed OPEN, of its own connection.
ExistingIsKept ==
  [][\A i \in Ids : LET c == conns[i] IN
       c # None /\ conns'[i] # c =>
         state[c] = "closed" \/ (c \in Calls /\ connectPc'[c] = "failed")]_vars
=============================================================================
