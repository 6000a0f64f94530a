------------------------------ MODULE ClientApi ------------------------------
(***************************************************************************)
(* The RPC methods of a connected client (src/src/client.rs:645-1566): each *)
(* checks its arguments, registers a request in `pending`, sends it and     *)
(* waits; the read loop decodes the answers one after the other             *)
(* (handle_server_envelope()) and hands each to the call of its request_id.  *)
(* The server is external: it answers what it was asked, in any order,      *)
(* perhaps twice, with an error, with what the client cannot decode, or not *)
(* at all.  What close() and the loss of a connection do to the table is    *)
(* ClientSession; what becomes of messages is MessageIngest.               *)
(***************************************************************************)
EXTENDS Requests, Sequences

CONSTANTS
  Calls,       \* calls of methods
  ArgsOf,      \* the requests each call may make
  MaxAnswers   \* bound: answers of the server

ASSUME ArgsAssumption == ArgsOf \in [Calls -> SUBSET Requests]
ASSUME BoundAssumption == MaxAnswers \in Nat

VARIABLES
  args,       \* the request of each call that was not refused
  pc,         \* position of each call
  id,         \* its request_id
  nextId,     \* Inner.request_id
  pending,    \* Inner.pending: calls under their request_id
  box,        \* the oneshot of each call, with the outcome in it
  result,     \* what each call returned
  asked,      \* requests that reached the server
  inbox,      \* frames on their way to the client
  answers,    \* how many answers the server gave
  heard       \* history: calls for which an answer was decoded before they gave up

vars == <<args, pc, id, nextId, pending, box, result, asked, inbox, answers, heard>>

\* What a call is given: the answer to the request of the call `of`, or an error.
Failures == {"invalid", "connection", "timeout", "server", "protocol", "store"}
Outcomes == [is : {"ok"}, of : Calls, value : {ValueOf(b) : b \in Bodies}]
              \cup [is : Failures]
Frames == [id : Nat, of : Calls, body : Bodies, whole : BOOLEAN]

\* The type invariant.
TypeOK ==
  /\ DOMAIN args = Calls
  /\ box \in [Calls -> SUBSET Outcomes] /\ result \in [Calls -> SUBSET Outcomes]
  /\ pc \in [Calls -> {"idle", "send", "wait", "leave", "done"}]
  /\ id \in [Calls -> Nat] /\ nextId \in Nat
  /\ pending \subseteq [id : Nat, call : Calls]
  /\ \A q \in asked : q.id \in Nat /\ q.of \in Calls
  /\ inbox \in Seq(Frames)
  /\ answers \in 0..MaxAnswers /\ heard \subseteq Calls

Init ==
  /\ args = [c \in Calls |-> {}] /\ pc = [c \in Calls |-> "idle"]
  /\ id = [c \in Calls |-> 0] /\ nextId = 0 /\ pending = {}
  /\ box = [c \in Calls |-> {}] /\ result = [c \in Calls |-> {}]
  /\ asked = {} /\ inbox = <<>> /\ answers = 0 /\ heard = {}

-----------------------------------------------------------------------------
(* A call: its checks, and rpc().                                          *)

Unregistered(c) == pending' = pending \ {[id |-> id[c], call |-> c]}
GivesUp(c, error) == /\ pc' = [pc EXCEPT ![c] = "leave"]
                     /\ result' = [result EXCEPT ![c] = {[is |-> error]}]

Refuse(c, r) ==
  /\ ~Accepts(r)
  /\ pc' = [pc EXCEPT ![c] = "done"]
  /\ result' = [result EXCEPT ![c] = {[is |-> "invalid"]}]
  /\ UNCHANGED <<args, id, nextId, pending, box, asked, inbox, answers, heard>>

\* Fault: the number of a request is that of its place in the table.
RegisterByPlace(c, r) ==
  /\ Accepts(r)
  /\ args' = [args EXCEPT ![c] = {r}]
  /\ nextId' = Cardinality(pending) + 1 /\ id' = [id EXCEPT ![c] = nextId']
  /\ pending' = pending \cup {[id |-> nextId', call |-> c]}
  /\ pc' = [pc EXCEPT ![c] = "send"]
  /\ UNCHANGED <<box, result, asked, inbox, answers, heard>>

Register(c, r) ==
  /\ Accepts(r)
  /\ args' = [args EXCEPT ![c] = {r}]
  /\ nextId' = nextId + 1 /\ id' = [id EXCEPT ![c] = nextId']
  /\ pending' = pending \cup {[id |-> nextId', call |-> c]}
  /\ pc' = [pc EXCEPT ![c] = "send"]
  /\ UNCHANGED <<box, result, asked, inbox, answers, heard>>

\* The request reaches the server before send_envelope() returns.
Reach(c) ==
  /\ pc[c] = "send"
  /\ asked' = asked \cup {[id |-> id[c], of |-> c, args |-> Normal(r)] : r \in args[c]}
  /\ UNCHANGED <<args, pc, id, nextId, pending, box, result, inbox, answers, heard>>

Sent(c) ==
  /\ pc[c] = "send" /\ \E q \in asked : q.of = c
  /\ pc' = [pc EXCEPT ![c] = "wait"]
  /\ UNCHANGED <<args, id, nextId, pending, box, result, asked, inbox, answers, heard>>

\* A write that failed may have reached the server all the same.
SendFails(c) ==
  /\ pc[c] = "send" /\ GivesUp(c, "connection")
  /\ UNCHANGED <<args, id, nextId, pending, box, asked, inbox, answers, heard>>

\* Fault: an answer of another kind is not the one waited for.
ReturnOfKind(c) ==
  /\ pc[c] = "wait" /\ pc' = [pc EXCEPT ![c] = "leave"]
  /\ \E o \in box[c], r \in args[c] :
       /\ o.is = "ok" => o.value = Takes(r.method)
       /\ result' = [result EXCEPT ![c] = {o}]
  /\ UNCHANGED <<args, id, nextId, pending, box, asked, inbox, answers, heard>>

\* The method takes the kind of answer it asked for.
Return(c) ==
  /\ pc[c] = "wait" /\ pc' = [pc EXCEPT ![c] = "leave"]
  /\ \E o \in box[c], r \in args[c] :
       result' = [result EXCEPT ![c] =
         {IF o.is = "ok" /\ o.value # Takes(r.method) THEN [is |-> "protocol"] ELSE o}]
  /\ UNCHANGED <<args, id, nextId, pending, box, asked, inbox, answers, heard>>

\* request_timeout passed; an answer that is there goes first.
Timeout(c) ==
  /\ pc[c] = "wait" /\ box[c] = {} /\ GivesUp(c, "timeout")
  /\ UNCHANGED <<args, id, nextId, pending, box, asked, inbox, answers, heard>>

\* Fault: the entry is left to the answer.
LeaveEntry(c) ==
  /\ pc[c] = "leave" /\ pc' = [pc EXCEPT ![c] = "done"]
  /\ UNCHANGED <<args, id, nextId, pending, box, result, asked, inbox, answers, heard>>

\* rpc() removes its entry, if it is still there, and returns.
Leave(c) ==
  /\ pc[c] = "leave" /\ pc' = [pc EXCEPT ![c] = "done"] /\ Unregistered(c)
  /\ UNCHANGED <<args, id, nextId, box, result, asked, inbox, answers, heard>>

-----------------------------------------------------------------------------
(* The server and the read loop.                                           *)

\* The server answers what it was asked, or with an error.
Answer(q, body, whole) ==
  /\ answers < MaxAnswers /\ answers' = answers + 1
  /\ body \in Answers(Kind(q.args.method)) \cup {"error"}
  /\ whole \/ body \in Fallible
  /\ inbox' = Append(inbox, [id |-> q.id, of |-> q.of, body |-> body, whole |-> whole])
  /\ UNCHANGED <<args, pc, id, nextId, pending, box, result, asked, heard>>

\* What the handler makes of a frame: a message that cannot be stored is an error to
\* the call, too.
OutcomesOf(f) ==
  CASE f.body = "error" -> {[is |-> "server"]}
    [] f.body = "empty" -> {[is |-> "protocol"]}
    [] f.body = "message" -> {[is |-> "ok", of |-> f.of, value |-> ValueOf(f.body)],
                              [is |-> "store"]}
    [] OTHER -> {[is |-> "ok", of |-> f.of, value |-> ValueOf(f.body)]}

\* Fault: only a call that waits already is handed its answer.
HandleIfAwaited ==
  /\ inbox # <<>> /\ inbox' = Tail(inbox)
  /\ LET f == Head(inbox)
         entry == {e \in pending : e.id = f.id}
     IN  IF f.whole
           THEN /\ pending' = pending \ entry
                /\ \E o \in OutcomesOf(f) :
                     box' = [c \in Calls |-> IF pc[c] = "wait" /\ \E e \in entry : e.call = c
                                               THEN {o} ELSE box[c]]
                /\ heard' = heard \cup {c \in Calls : c = f.of /\ pc[c] \in {"send", "wait"}}
           ELSE UNCHANGED <<pending, box, heard>>
  /\ UNCHANGED <<args, pc, id, nextId, result, asked, answers>>

\* handle_server_envelope() and resolve_pending().  A frame that does not decode ends
\* the handler before it resolves the call; the error is only reported as an event.
Handle ==
  /\ inbox # <<>> /\ inbox' = Tail(inbox)
  /\ LET f == Head(inbox)
         entry == {e \in pending : e.id = f.id}
     IN  IF f.whole
           THEN /\ pending' = pending \ entry
                /\ \E o \in OutcomesOf(f) :
                     box' = [c \in Calls |-> IF \E e \in entry : e.call = c
                                               THEN {o} ELSE box[c]]
                /\ heard' = heard \cup {c \in Calls : c = f.of /\ pc[c] \in {"send", "wait"}}
           ELSE UNCHANGED <<pending, box, heard>>
  /\ UNCHANGED <<args, pc, id, nextId, result, asked, answers>>

-----------------------------------------------------------------------------
(* The next-state relation.                                                *)

CallStep(c) == Reach(c) \/ Sent(c) \/ SendFails(c) \/ Return(c) \/ Timeout(c) \/ Leave(c)

Begin(c) == pc[c] = "idle" /\ \E r \in ArgsOf[c] : Refuse(c, r) \/ Register(c, r)

Next == \/ \E c \in Calls : Begin(c)
        \/ \E c \in Calls : CallStep(c)
        \/ \E q \in asked, body \in Bodies, whole \in BOOLEAN : Answer(q, body, whole)
        \/ Handle

Spec == Init /\ [][Next]_vars

\* A write ends, well or badly, and the timer of a request runs.
Fairness == \A c \in Calls :
  /\ WF_vars(Sent(c) \/ SendFails(c)) /\ WF_vars(Return(c) \/ Timeout(c)) /\ WF_vars(Leave(c))
FairSpec == Spec /\ Fairness

-----------------------------------------------------------------------------
(* Safety.                                                                 *)

\* A call that returns Ok returns what the server answered to its own request, late and
\* repeated answers to other requests notwithstanding.
OkIsOwnAnswer ==
  \A c \in Calls : \A o \in result[c], r \in args[c] :
    o.is = "ok" => o.of = c /\ o.value = Takes(r.method)

\* A timeout is reported only when no answer was decoded in time.
TimeoutIsFounded == \A c \in heard : [is |-> "timeout"] \notin result[c]

\* Whatever arguments the methods are given, what reaches the server keeps to what the
\* documents ask of a request (Requests!Sound), whatever became of the call since.
SentIsSound == \A q \in asked : Sound(q.args)

\* The calls implement RpcCalls: an answer that was decoded in time is what the call
\* returns, unless its write failed.
Phase(c) ==
  CASE pc[c] = "idle" -> "new"
    [] pc[c] \in {"send", "wait"} /\ c \notin heard -> "open"
    [] pc[c] \in {"send", "wait"} /\ c \in heard -> "answered"
    [] pc[c] \in {"leave", "done"} -> "ended"
Rpc == INSTANCE RpcCalls WITH phase <- [c \in Calls |-> Phase(c)],
                              outcome <- [c \in Calls |-> {o.is : o \in result[c]}]
ImplementsCalls == Rpc!Spec

-----------------------------------------------------------------------------
(* The inductive invariant behind the safety properties.                   *)

\* The request_ids in use are those given out, each to one call.
OwnIds == \A c \in Calls :
  /\ id[c] <= nextId
  /\ pc[c] = "idle" => id[c] = 0
  /\ pc[c] \in {"send", "wait", "leave"} => id[c] # 0
  /\ \A d \in Calls : id[c] = id[d] /\ id[c] # 0 => c = d

\* The table holds calls that have not returned, each under its own request_id.
OwnEntries == \A e \in pending :
  e.id = id[e.call] /\ e.id # 0 /\ pc[e.call] \in {"send", "wait", "leave"}

\* Requests and answers carry the request_id of their call.
OwnFrames ==
  /\ \A q \in asked : q.id = id[q.of] /\ q.id # 0
  /\ \A i \in 1..Len(inbox) : inbox[i].id = id[inbox[i].of] /\ inbox[i].id # 0

\* A call that may still wait is in the table or has its answer.
Reachable ==
  /\ \A c \in Calls : pc[c] \in {"send", "wait"} /\ box[c] = {} =>
       [id |-> id[c], call |-> c] \in pending
  /\ \A c \in Calls : pc[c] \in {"send", "wait"} => (c \in heard <=> box[c] # {})

\* A call makes one request, and has returned nothing before it gives up.
Unfinished == \A c \in Calls :
  /\ pc[c] \in {"idle", "send", "wait"} => result[c] = {}
  /\ pc[c] = "idle" => c \notin heard /\ box[c] = {}
  /\ \A r, s \in args[c] : r = s

\* The request of a call is one that it may make, past the checks.
Accepted == \A c \in Calls : \A r \in args[c] : r \in ArgsOf[c] /\ Accepts(r)

\* What a call finds in its oneshot answers its request.
FromServer == {"ok", "server", "protocol", "store"}
OwnBoxes == \A c \in Calls : \A o \in box[c] :
  o.is \in FromServer /\ (o.is = "ok" => o.of = c)

\* The invariant the proofs use: each part holds in every reachable state.
IInv == TypeOK /\ OwnIds /\ OwnEntries /\ OwnFrames /\ Reachable /\ Unfinished
        /\ Accepted /\ OwnBoxes /\ OkIsOwnAnswer /\ TimeoutIsFounded

-----------------------------------------------------------------------------
(* Liveness.                                                               *)

\* Every call returns, whatever the server answers.
CallsEnd == \A c \in Calls : pc[c] # "idle" ~> pc[c] = "done"
=============================================================================
