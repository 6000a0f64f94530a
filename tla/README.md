# Verification of turntf-rs

TLA+ models of the turntf Rust client (`src/src/`), checked by TLC on small
instances and proved by TLAPS for all values of their constants.

Paths below are relative to the directory that holds `src/` and `tla/`.

## 1. The system

turntf-rs is the client library of a messaging service. A `Client` keeps one
WebSocket connection to a server alive, runs requests over it, stores the messages
pushed to it and acknowledges them, and tells subscribers what happens. `Relay`
builds point-to-point byte connections on top of the client's transient packets.
`HttpClient` is a stateless wrapper of the server's REST interface.

| Component | Source | State | Operations |
| --- | --- | --- | --- |
| Connection manager | `client.rs` 570-647, 1569-1731, 2073-2114 | flags `closed`, `connected`, `stop_reconnect`, `terminal_error`; the writer; `login_info`; `run_task`; the events sender | `connect()`, `close()`, the run task, backoff |
| Request table, ping | `client.rs` 2006-2065, 2116-2142 | `pending`: request id to oneshot; the ping task | `rpc()`, answers, timeouts, `fail_all_pending()`, `ping_loop()` |
| Message ingestion | `client.rs` 1733-1786, 1992-2004; `store.rs` | the cursor store (bodies, cursors), which outlives the client | `persist_message()`, acknowledgement, event, report of cursors at login |
| RPC methods | `client.rs` 657-1566, 1787-1970; `validation.rs` | none but `pending` | validate, build, `rpc()`, decode, match the answer |
| Event broadcast | `client.rs` 444-460, 2067-2071 | a broadcast channel | `subscribe()`, `emit_event()` |
| Relay transfer | `relay.rs` 158-294, 340-705 | window counters, unacknowledged frames, reorder buffer, state | `send()`, the send loops, `retransmit()`, `handle_data()`, `handle_ack()`, `close()` |
| Relay connections | `relay.rs` 735-1100 | the map of connections by `relay_id` | `connect()`, `accept_incoming()`, dispatch, OPEN/OPEN_ACK |
| HTTP client | `http.rs` | none between calls | validate, write path, query and body, judge status and payload |
| Validation, mapping, passwords, types, errors | the other files | none | pure functions |

How they interact. The application calls the client from any number of tasks. The
run task owns the reading half of the socket; the writing half sits in a mutex that
requests, pings, acknowledgements and `close()` share. Answers travel from the run
task to callers through the `pending` table; flags travel to waiting `connect()`
calls through a `Notify`; events travel to subscribers through a broadcast channel.
The run task calls the cursor store before a login and for each stored message. The
relay sends with `send_packet_to_session()` (an RPC) and receives the packets that
the run task forwards to it. `HttpClient` shares nothing with the others but the checks
of `validation.rs` and the data types; it asks the same server for the same things over
a request of its own each time.

What is hard in it:

- five locks taken and released one at a time, so that `connect()`, `close()`, the
  run task, the ping task and requests interleave between any two awaits;
- tasks that are aborted at an await, and calls that are dropped at one;
- reconnection: what belongs to a session, and what outlives it;
- persistence, acknowledgement and event in order, through failures of the store and
  stops of the process;
- a sliding window over a network that loses, delays and reorders.

What makes each component correct: one run task at a time, and none after close; a
connected client can be written to; every request ends; the Login and the Disconnect of
the run tasks alternate, session by session; a lost connection is dialled again
(connection manager, request table).
What the server was told of is stored, subscribers are told once and of stored
messages only, every message is stored in the end (ingestion). The receiver gets a
prefix of what was sent; the window holds; what is acknowledged was received, or will
be delivered yet (relay transfer). An Ok is the answer to the own request, a timeout means that none came, and
nothing is sent that the checks are there to keep back (RPC methods). A connection is
found as long as it is open and no longer, every `connect()` ends, and one that fails
leaves nothing behind (relay connections). A request over HTTP means what the same call
means over the WebSocket, and its result tells whether the server did it (HTTP client).
`PROJECT.json` lists the hazards at their lines with the properties that cover them.

## 2. Modules

| Module | What it is |
| --- | --- |
| `ClientSession` | connection manager, request table, ping task |
| `ClientSession_proofs` | its safety and the refinement, proved |
| `RpcCalls` | abstract: a call has one outcome, and no answer is mistaken for a timeout or a lost connection; implemented by `ClientSession` and `ClientApi` |
| `DurableInbox` | abstract: a message is held back, and the application told of it, only when it is stored |
| `MessageIngest` | message ingestion with the server and the store; implements `DurableInbox` |
| `MessageIngest_proofs` | its safety and the refinement, proved |
| `RelayChannel` | abstract: nothing is delivered that was not sent, and on an ordered connection a prefix of it |
| `RelayTransfer` | one direction of a relay connection; implements `RelayChannel` in each of its modes |
| `RelayTransfer_proofs` | its safety and the refinement, proved |
| `RelayRegistry` | abstract: a connection is listed once, as it begins, under a free relay_id, and an entry goes only when a connection of its relay_id has ended |
| `RelayConnections` | the relay manager: the table of connections, their opening and closing; implements `RelayRegistry` |
| `RelayConnections_proofs` | its safety and the refinement, proved |
| `Requests` | operators: the requests of the client, their validation, and the answers they take |
| `Requests_proofs` | lemmas: what a method sends for arguments that passed its checks is sound |
| `ClientApi` | the RPC methods: validation, request_ids, answers and their decoding; implements `RpcCalls` |
| `ClientApi_proofs` | that answers reach the calls they answer and that what is sent is sound, proved, and the refinement |
| `HttpApi` | the REST client: what each method writes, and what it makes of an answer |
| `HttpMeaning_proofs` | that a request over HTTP means what the same call over the WebSocket means, proved method by method |
| `HttpApi_proofs` | the invariant of a REST call: its request means what it should and its result tells what the server did, proved |
| `MCClientSession`, `MCClientSafety`, `MCMessageIngest`, `MCRelayTransfer`, `MCRelayConnections`, `MCClientApi`, `MCHttpApi` | instances for TLC |

### ClientSession

An action is what a task does between two awaits at which it takes or releases one
of the locks; the position of each call or task is a program counter. `connectPc`
follows `Client::connect` (start, `ensure_started()`, arm the `Notified`, inspect the
flags, wait), `closePc` follows `Client::close`, `runPc` follows `Inner::run`
and `connect_and_serve` together, `rpcPc` follows `Inner::rpc` with `send_envelope`
inlined (register, closed check, acquire the writer, flush, wait, remove).

- A run task is named by the `connect()` call that spawned it: a call spawns one at
  most. The ping of a session uses the same name, since a ping task has one request
  in flight.
- `NotifyWaiters` sets `notified` of every armed call. The `Notified` is created
  before the flags are read, and `notify_waiters()` reaches it though it was not
  polled; this is what makes `connect()` safe, and the mutant that forgets a
  notification breaks it.
- An abort (`AbortRun`) takes effect at the next await of the task (`Cancelled`);
  the ping task detached by it goes on until a request of its own fails.
- `CallPhase` and `CallOutcome` read a call of `RpcCalls` off the state: it is answered
  once its oneshot holds the server's answer, whatever it does at that moment. The
  properties of an answer are thus stated against the promise, not against the steps of
  `rpc()`; a `rpc()` that looked at its timer before the oneshot would break it.
- The writer is a number: the session that installed it, 0 for none. A write is held
  from `Acquire` to `Flush`, and everything else that needs the writer waits.
- Errors are the kinds on which the code branches.
- `events` is the history of what subscribers were told: `Login(s)` and `Lost(s)` by run
  tasks, each with its session, and `Farewell`, the Disconnect that `close()` adds.
  `EventsAlternate` says that a Login follows nothing or the `Lost` of an earlier session,
  that a `Lost` follows the Login of its own, that there is one `Farewell`, and at most one
  event after it. The events as a whole do not alternate: a client that is closed before
  it was connected says `Farewell` alone, `Lost` and `Farewell` are two Disconnects in a
  row in either order, and a Login on its way is announced after `Farewell`.
- `Abandon` drops a call of the application at any of its awaits.
- The read loop writes its acknowledgements itself: it waits for the writer lock
  (`AckAcquire`), holds it while it writes (`AckFlush`), and reads nothing meanwhile. What it
  acknowledges is the matter of `MessageIngest`; `AckMessages` switches these steps off in runs
  that ask about something else.
- A result and a refusal by the server are one answer, "ok": `rpc()` treats them alike.
  `RpcCalls` keeps apart the call whose own write failed ("broken"), the one case in which
  an answer may be lost to it.
- `loginInfo` is what `session_ref()` returns. `LoginInfoIsCurrent` says from when on it
  is right: from the Login event on, not from `set_connected(true)`, which comes before it.

### MessageIngest

The actions of the client follow `handle_server_envelope()` for the three kinds of
frame that matter: save the body, save the cursor, acknowledge, announce; or resolve
the call of a `send_message()`. A failed operation of the store may have taken effect
or not. `Crash` stands for the end of the process, and for a `close()` followed by a
new `Client` on the same store: the handler stops at any await. `LoadSeen` and
`Login` are separate, as in the code: a store could change in between, and
`LoadedIsAll` shows that it does not. `DurableInbox` sees of all this what is stored,
what the server holds back, and whom somebody was told of: by an event, or by an Ok of
`send_message()`.

The server is external and is modelled from what the client relies on: on a
connection it pushes what was neither reported at login nor acknowledged, in any
order. It may push a message again on the connection on which it did before; the code
relies on no answer to that. `repeated` remembers such messages: `AtMostOneEvent`
speaks of the others, everything else of all.

### RelayTransfer

The sender's send loop is followed step by step: the two places where it waits (for
the window, for data), the retransmission frame by frame, the closed flag it reads
only at the top and after taking data, and the wakeup of `close_notify`, which is
lost unless the loop waits when it comes. `send()` is two steps: the checks, and the
entry into the channel, which may follow the closing. The receiver's
`handle_data()` follows the mode. ReliableOrdered delivers and then acknowledges, in one step
(`HandleOrdered`), since it holds `expected_seq` throughout. AtLeastOnce acknowledges first:
`AcknowledgeFirst` sends the ACK and puts the frame into `handling`, several at a time, and
`DeliverHandled` delivers it when the RPC of the ACK has ended, whatever became of the
connection by then. BestEffort only delivers (`HandleDirect`). Packets are
sets: any order, any loss, any delay; a retransmission puts a frame there again. Without an order the
receiver may deliver a frame twice; `delivered` then keeps the first of them.

`CheckWindow` reads `next_seq` and `send_base` at once, where the code reads one after the
other (`relay.rs` 589-591). Nothing is lost by it: only the loop itself moves `next_seq`, so
that the two reads are worth one at the time of the second.

`close_notify` wakes the loop only where it waits, and in each of the modes the loop may
be past its check of `closed` and not yet waiting when the close comes. A tick takes the
loops of the reliable modes back to the check; the best-effort loop has no tick and waits
on. `Settled` and `LoopEnds` say what follows for payloads and for the task.

Both ends run with the same configuration. That is an assumption: an end made by
`accept_incoming()` takes the default configuration, and its `remote_peer` is no valid
user, so that none of its frames leaves the client (`relay.rs` 1009 with
`validation.rs` 57). The receiver of the model stands for an end made by `connect()`
or a peer of another make.

### RelayConnections

A connection is named by the `connect()` call, or numbered by the OPEN frame, that
made it, and `conns` maps relay_ids to connections as the code's table does. `connect()`
is followed from the listing of its connection over the OPEN and the arming of
`open_notify` to its three ways out; `handle_close()`, whoever calls it, is the position
`closer` of the connection: Closed is set, the callbacks are taken, the entry is
removed, each after an await. Frames of peers are found and handled in two steps,
since the table is unlocked in between, several at a time (`handle_packet()` spawns a
task for each). An OPEN that is listed goes on in two steps of its handler: `SpawnLoop`
starts the send loop, and `CallHandler` attempts the OPEN_ACK and then calls the application's
handler. `byCall` marks the closings that a caller can drop. A relay_id is
fresh for each `connect()`; `RelayRegistry` sees the table, the connections that have
begun, and those that were closed or whose OPEN could not be sent (`Ended`). Peers open relay_ids of their own and may repeat those
that reached them. Data and ACK frames are left to `RelayTransfer`.

### Requests and ClientApi

`Requests` holds the checks of `validation.rs` and of the methods as predicates on
requests, `Normal` for what a method then sends (login names and filters trimmed, a
typed metadata value as its bytes, the role `create_channel()` fills in), `Kind` for
the request on the wire (`subscribe_channel()` is an upsert of an attachment),
`Answers`, `Fallible` and `ValueOf` for the responses and what
`handle_server_envelope()` makes of them, and `Takes` for the answer a method takes.
`Sound` says of a request, in terms of its own, what the checks are there for; it is
compared with what is sent, after `Normal`. Ids and limits (`Numbers`, `Limits`) are any
integers, and texts of which a check asks only whether they are empty (`Texts`) are any
values; names, keys, roles and metadata values come from small sets with the values on
which a check turns: empty, blank and padded names, keys that are too long or have a wrong
character. Numbers and contents no check looks at are left out, and aliases
(`post_message()` and the like) are the method they call.

`ClientApi` runs these requests through `rpc()` one step at a time against a server
that answers each of them any number of times, in any order, with any response of its
kind, with an error, or with a response that misses what the mapping needs (`whole`).
Such a response ends the handler before `resolve_pending()`: `Handle` drops it, and
its caller is left to the timeout. `heard` remembers the calls for which an answer was
decoded while they could take it, and `RpcCalls` calls them answered. How requests meet `close()`, the loss of a connection
and a dropped call is in `ClientSession`, which in turn does not know what they ask for.

### HttpApi

One call of any method, since `HttpClient` keeps nothing between calls. `HttpRequests`
are the arguments of `Requests`, with what the HTTP methods take besides (profiles and
configurations as JSON text, types of attachments, the node of a packet); `HttpAccepts`
adds their checks. `Wire` is the request as `http.rs` writes it: a verb, a path of
segments, the fields of the query and of the body, each with at most one value. Numbers in
path and query are their decimals (`Decimal`, any one-to-one way of writing them that
yields neither an empty nor a dot segment), bodies their base64, passwords their hash, and
text that goes into a query unescaped keeps only the characters that a query lets through
(`Unescaped`).

The server is external. `Route` reads a request as the routes in the tests of `http.rs`
do, and `Meaning` is what the WebSocket client asks for with the same arguments, as
`client.rs` sends them: limits and configurations as they are given, types, roles and modes
as the enumerations of the protocol, where `Wire` writes them by name (`TypeName`,
`ModeName`, `WrittenTypes`, `WrittenConfig`, `WrittenRole`). Nothing is shared between the two
but `Normal`, `Kind` and the hash of a password, so that `SameMeaning` compares two
translations written apart in the code. They do differ: `Differs` lists the calls, and
`SameMeaning` says that a request means the same exactly if its call is not among them
(see section 6). The peers of `list_messages()` exist over HTTP only and mean what they say.
`Serve` does what it reads and answers with any status and
any payload: blank, no JSON, a bare value, an object, a list alone or under its name.
`Outcome` is what `request_text()`, `request_json()` and the `*_from_http` functions of
`mapping.rs` make of that, missing fields that become defaults included. The code of a
server error is the one the answer names, which may be any ("given"), or that of its status
(`StatusCode`, `CodeOf`). `Fail` may come
before or after the server acted. The token, the texts of errors, redirects and
the reuse of connections are left out.

## 3. Runs

| Run | Configuration | Question |
| --- | --- | --- |
| `client_safety` | two shapes: 2 connect, 1 close; and 1 connect, 1 close, 1 request with pings; 2 sessions | do the flags, the tasks and the events fit together? does a request ever wait for a connection that is gone, or a `connect()` for a wakeup that went by? does the table leak? is `RpcCalls` implemented? |
| `client_requests_live` | 1 connect, 1 close, 1 request, no reconnection | does every request, and every `connect()`, end? |
| `client_pings_live` | 1 connect, 1 close, pings | does `close()` return, do waiters and pings end, is a loss followed by a dial? |
| `ingest` | 2 messages (one sent by the client), 2 connections, 1 store failure | is `DurableInbox` implemented? is everything told once, and stored in the end? |
| `relay_transfer` | 3 payloads, window 2, 1 retransmission, all three modes | is `RelayChannel` implemented? is what was accepted acknowledged or the connection closed, is what AtLeastOnce acknowledged delivered, and does the loop end? |
| `relay_connections` | 1 `connect()`, 1 OPEN of a peer, 2 frames in handling | is `RelayRegistry` implemented? do failed and closed connections go, and every `connect()` end? |
| `client_api` | two shapes: one call of any method with any arguments; and an accepted call of any method beside a `get_user()`; 2 answers | is anything unsound sent, does every answer reach its call, is `RpcCalls` implemented, does every call end? |
| `http_api` | one call of any REST method with any arguments, any answer | does the request mean what it should, but for the calls listed? does the result tell what the server did? |
| `find_connect` | 1 connect, 1 close | refutes `client-flow.md` 267 |
| `find_relay_ack` | 2 payloads, window 2 | refutes `types.rs` 865 |
| `find_relay_idle` | 1 payload | refutes `types.rs` 924 |
| `find_relay_duplicate` | 2 OPENs with one relay_id | refutes `relay.rs` 1054 |

Bounds, and why they are enough. `MaxSessions` is 2: everything that concerns
sessions relates one to its successor, and a third would repeat the second. Two calls
of a kind are the least that race; properties of requests need one request beside the
pings, because requests touch each other only through the table as a whole. The run
`client_safety` has two shapes, chosen in the first state and kept: "connects" has the
calls of `connect()` race and nothing in the table or written, "requests" has one
`connect()` and everything else, acknowledgements included. `AckMessages` is TRUE in
`client_safety` and `client_pings_live`, where acknowledgements compete for the writer with
requests, pings and `close()`, and FALSE in `client_requests_live` and `find_connect`. Requests meet `connect()` only through `close()` and the run tasks, which
both shapes have; the theorems need no such division. In
`MessageIngest` two connections allow a stop, a report of what was stored and what
the server makes of it; `MaxFailures` counts failed store operations and `MaxWire` the frames in flight;
`MaxEvents` stops the count of events at 2, where "at most once" is already broken.
In `RelayTransfer` three payloads over a window of two give a lost frame, one
buffered beyond it and one outside of the window; one retransmission gives a tick
that repeats and a tick that closes. The count of retransmissions stops one past its
limit, where the connection is closed. Its payloads are interchangeable, so `MCSpec`
takes them in one order: a symmetry set would be unsound for its liveness. AtLeastOnce sends
two of the three (`ThirdIsReliable`): its handlers run side by side there, two are the least
that race, and the sender is the same in both reliable modes. In
`RelayConnections` one call and one OPEN are
enough for the two to meet at one relay_id, since a peer may open the relay_id of a
call that reached it; two frames in handling are the least that race. In `ClientApi` the
methods share only the table, so one ordinary call beside one of each method is enough
for their answers to be confused, and one call alone is enough for its arguments: again
two shapes, kept in the first state. `MaxAnswers` is 2, for an answer that
is repeated and for two in either order. Ids of -1, 0 and 1, limits of -1, 0, 1000 and
1001, and an empty and another text are those on which the checks of `Requests` and the
queries of `HttpApi` turn. In `HttpApi` the lists of an answer have up to
two elements, which is enough for one that decodes beside one that does not, and the
statuses are those the methods expect, one more success (204), one error with a code of
its own (404) and one without (504), since the code tells nothing else apart. The theorems of section 5 have none of these
bounds.

Deadlock is not checked (`CHECK_DEADLOCK FALSE`): each system really stops, when every
call has returned and the client is closed, when logins are used up, or when the
connection is closed and its payloads are sent.

The mutants in `PROJECT.json` replace one definition by the variant above it marked
"Fault". Each is a change one could make to the code by mistake.

## 4. Fairness

`ClientSession`: weak fairness of every step of the program that does not wait for
the outside, because the runtime polls ready tasks; strong fairness where the writer
is acquired, because tokio's mutex queues its waiters in order (one condition for the three
places where a run task waits for it, since it is at one of them at a time); weak fairness of
`Dial`, `Flush` and `AckFlush`, that is, a dial and a write end, well or badly. There is no
fairness for the answer to a login, for pushed messages, for answers to requests, for the failure of a
read, for the timeout of a request, or for new calls. `ResponsiveSpec`, used for
`ConnectReturns` alone, adds that a login is answered or fails: nothing in the code
bounds that wait.

`MessageIngest`: weak fairness of the read loop and of the store, strong fairness of
`Login` (a server does not refuse for ever) and of `Push` (it keeps pushing what it
was not told of). Connections that run out, the bound of the model, are excepted in
the property.

`RelayConnections`: weak fairness of `handle_close()` and of the steps of `connect()`,
the end of the request that carries its OPEN (at the latest with the request timeout)
and the timeout of its wait among them; none for frames of peers, for the application
or for the loops. `ClosedIsForgotten` and `CallbackRuns` except a closing whose caller
dropped it: the rest of it is then never done.

`ClientApi`: weak fairness of the end of a write, well or badly, of the return or the
timeout of a request, which the timer bounds, and of the step that removes the entry;
none for the server or the read loop. The end of a write is an assumption:
`request_timeout` begins after it (`client.rs` 2035-2040).

`RelayTransfer`: weak fairness of the steps of the send loop, taken together. The loop is
a task of its own, its interval ticks while it waits (`relay.rs` 565-705), and the request
that carries a frame ends, well or badly, at the latest with its timeout. The same is asked
of the handlers of the other end that wait for the request of an ACK (`DeliverHandled`). There is none
for the application, the network, the peer or acknowledgements: `Settled` holds when all
frames are lost, because then the retransmissions run out and close the connection.
`LoopEnds` excepts what the code leaves waiting for ever: a window that is full when the
connection closes, which no acknowledgement opens again, and a best-effort loop that
misses `close_notify`. Note what `Settled` does not say: acknowledged is not received
(`AckedIsReceived`).

`HttpApi` states no liveness: the reqwest client is built without a timeout (`http.rs`
62-67), so nothing ends a call that is never answered.

## 5. Proofs

All theorems are for every value of the constants under the assumptions named in the
modules (bounds are naturals, windows and delays are positive, names are disjoint).
Each component has an inductive invariant `IInv`, whose parts are named; a run checks
it and the theorem `Invariance` of the proof module shows that the first state has it and
that every action keeps it. The other theorems follow from it.

`ClientSession_proofs`: `TypeCorrect`, `OneTask`, `ConnectedWritable`, `CloseQuiet`,
`RequestsAnswered`, `EventsAlternating`, `EntriesOwned`, `ConnectsWoken`,
`CallsImplemented`. That only one task serves is not inductive by itself: it needs
that `run_task` holds the only unfinished task while the client is open (`SoleTask`)
and that a task still at work in a closed client is one that a `close()` will abort
or waits for (`AbortOutstanding`). That a connected client can be written to needs
that the writer is that of the task that holds it (`WriterInstalled`, `WriterOwned`).
That no request is stranded needs a witness for every unanswered call: its session
while the client is open (`SessionWillAnswer`), a `close()` that has still to fail the
table when it is closed (`CloseWillAnswer`). The events of run tasks alternate because
one task at a time has something to say (`OneTalker`), what was heard last is its own Login
or nothing of its session, and a Login that was not followed by its Disconnect has a task
on its way to report it (`LoginIsReported`); sessions are announced in the order of their
numbers (`SessionIsNew`). One `close()` says farewell (`EventsHeard`), and it is aborting the
only task that could still speak, which has one event at most to say (`NothingAfter`). An entry has an owner because a call
that still waits in the table has had no answer (`EntryIsOpen`), so that what removes its
entry is what answers it, and because a call begins without an answer and unwritten
(`IdleIsFresh`). A `connect()` that waits unnotified has a run task or a `close()` that will still notify
it, because past `ensure_started()` an open client has a run task at work or the error of
the last one (`StartedOrFailed`), and the flags it looked at after arming say that there is
no error yet. `ConnectsWoken` is the safety half of `ConnectReturns`, and unlike that needs
no fairness and no server that answers. `CallsImplemented` needs that only the server's
answer to what was written says "ok" or "server", so that no drain of the table looks like
one (`AnswerIsServers`), and that a call which ends has an outcome (`EndedHasOutcome`).

`MessageIngest_proofs`: `TypeCorrect`, `HeldBackStored`, `CursorsHaveBodies`,
`ToldStored`, `StoredAnnounced`, `AnnouncedOnce`, `InboxImplemented`. `HeldBackStored` and
`ToldStored` are invariants that `DurableInbox` has in one step, and are no longer
properties of the run. The store's part (`StoreInv`)
says for each position of the handler what is already stored. `AnnouncedOnce` holds
for messages the server does not repeat on one connection; it needs that a push in flight is the only
one of its message and that its message was not announced (`InFlightIsFresh`,
`InFlightOnce`), and that what was announced is known to the server at the next login
(`ToldIsKnown`), because nothing is stored between `LoadSeen` and `Login`.

`RelayTransfer_proofs`: `TypeCorrect`, `UnackedKept`, `WindowHolds`, `ChannelImplemented`,
`StopAndWait`, `StopAndWaitDelivers`. Every copy of a frame carries the payload of its number
(`FramesGenuine`), because the loop numbers payloads in the order of the channel
(`Numbered`); what was delivered are the payloads before the number expected
(`DeliveredInOrder`), and a run of buffered frames continues them (`RunInOrder`). In the
modes without order what is delivered was accepted because every frame under way was
(`OnlyAccepted`). The
window holds because it is checked between the last payload and the next
(`WindowKept`), and the cardinality follows from the injection of frames to their
numbers. `StopAndWait` says when the documented promise that `find_relay_ack` refutes does
hold: with a window of 1 what is acknowledged was received. The frame that comes next is
then the only one under way, so that an acknowledgement is always of a frame before the
one expected (`AckedIsBehind`). `StopAndWaitDelivers` goes on to the subscribers of the other
end, in both reliable modes: what is acknowledged was delivered, or, since AtLeastOnce
acknowledges first, is in the hands of a handler that is about to deliver it
(`AcksAreHandled`, a part of `IInv`). That the handler does is liveness: `AckedIsDelivered` of
the run. `WindowHolds` proves `WithinWindow`, which the proof module defines: a run would
only repeat `WindowKept`.

`RelayConnections_proofs`: `TypeCorrect`, `FailuresLeaveNothing`, `RemovedIsGone`,
`RegistryImplemented`, `NeverReplaced`. An entry is under the relay_id of its own connection (`OwnEntries`) and
belongs to one that has begun (`Begun`), so that the fresh relay_id of a `connect()`
is not listed; one `handle_close()` closes a connection (`ClosedByOne`), so that what it
removed stays removed; and before a `connect()` has returned, only frames and itself
close its connection (`ClosingIsGiven`), so that the closing it leaves behind is never
one that a caller dropped. The refinement of `RelayRegistry` goes action by action: `OneBegins`
for the two ways in, `OneEnds` and `ClosingEnds` for whoever begins a `handle_close()`, and
`RegistryRest` for everything that touches neither the table nor the connections.
`NeverReplaced` is a consequence of one step of `RelayRegistry`.

`ClientApi_proofs`: `AnswersMatch`, `RequestsSound`, `TimeoutsAreFounded`,
`EntriesHaveOwners`, `CallsImplemented`. An answer reaches its call because a request_id is
given to one call only (`OwnIds`), and entries, requests and frames carry that of their
call (`OwnEntries`, `OwnFrames`), so that what is found in a oneshot answers its request
(`OwnBoxes`), however late or often it came. A timeout is founded because a call that still
waits is in the table or has its answer (`Reachable`). What is sent is `Normal` of arguments
that were accepted (`Accepted`), and `NormalIsSound` of `Requests_proofs` says that this is
sound: one lemma per kind of request, since checks and normalisation differ with the kind.
It holds for any numbers, limits and texts, and for the names, keys, roles and values that
`Requests` lists; the induction over steps is for any number of calls.

`HttpApi_proofs`: `FateTold`, `MeaningSame`. One request is on its way or answered, never
both (`OneRequest`), the server did something exactly if it answered with a success, the
statuses a method expects are successes, and every status with a code of its own is an error
(`CodesAreErrors`). What is on its way is what the method wrote (`FlightIsWire`), so that
`MeaningSame` follows from the two theorems of `HttpMeaning_proofs`, for any numbers, limits
and texts: `Route(Wire(r)) = Meaning(r)` for every accepted call `r` that `Differs` does not
list (`MeaningKept`), and not for any that it lists (`MeaningLost`).
The first has one lemma per kind of request. Each follows the path through the URL parser and
the routes (`UserPathKept`, `UserPathRouted` and those of the longer paths), where it
matters that no written number ends a path as an empty or a dot segment, and the checks keep
a key from doing so but for "." and ".."; reads numbers and names back (`NumberOfDecimal`,
`NamesAreKnown`: no two are written alike); and compares field by field, where a field that
is left out comes back as the default it was left out for (`OrElseValue`, `LimitIsRead`). The
checks are needed elsewhere too: a wrong character in a scan's prefix would not survive an
unescaped query (`ScanMeaning`), and bytes beside a typed value would be dropped
(`UpsertMeaning`). The second names for each call listed the field that comes back different,
and for the dot segments the request that is read instead (`DotKeyIsLost`).

Only model-checked: the liveness properties, which are out of the prover's reach. Every
invariant, every action property and every refinement of a run is proved.

## 6. Where documents and code disagree

Refuted by runs:

- `connect()` may return Ok on a closed client (`client.rs` 1691; `client-flow.md`
  267). `set_connected(true)` does not look at `closed`, and overwrites
  `terminal_error`.
- A relay frame that was lost is given up once a later one is acknowledged
  (`relay.rs` 453 and 468; `types.rs` 865).
- An idle relay connection is closed for exceeding its retransmissions (`relay.rs`
  665; `types.rs` 924).
- A repeated OPEN removes the connection it was to leave alone from the table
  (`relay.rs` 1055 and 515; the comment at `relay.rs` 1054).

Seen while modelling, with no run of their own:

- The backoff is not put back after a served session (`client.rs` 1625;
  `client-flow.md` 232). `read_loop()` returns only errors, so `connect_and_serve()`
  never returns Ok.
- An Error frame with `request_id` 0 does not end the connection: `read_loop()`
  reports it and reads on (`client.rs` 1727; `client-flow.md` 143,
  `websocket-protocol.md` 277). `ReadFrame` of `MessageIngest` models what the code does.
- The message of a `SendMessageResponse` is stored but not acknowledged (`client.rs`
  1771; `client-flow.md` 148 says it is).
- AtLeastOnce acknowledges a frame before it delivers it (`relay.rs` 418-419), and waits for
  the request in between: the sender forgets a frame that the application has not seen. It
  is delivered if the process goes on (`AckedIsDelivered`), and lost if it ends there.
- `close()` and the run task may each report a Disconnect, so that two come in a row, and a
  Login may come after the Disconnect of `close()` (`client.rs` 1709, 1693, 632;
  `EventsAlternate` says what holds).
- `close()` fails the requests, takes the writer and only then aborts the run task
  (`client.rs` 636-644). A task that is past its login may install a writer in between,
  which stays installed, its socket open, after `close()` has returned; and a request that
  was let in before `close()` can still be written to it (`client.rs` 1687, 2007-2012). Its
  caller is told that the client is closed all the same. The comment of `close()` (`client.rs` 601) says that
  resources are released.
- A connection made by `accept_incoming()` cannot send (`relay.rs` 1009).
- The retransmit loop of a connection closed while its window is full goes on ticking
  (`relay.rs` 588-605): the closed flag is read only after a wakeup that is gone. A
  best-effort loop that is not waiting when the close comes waits for ever afterwards.
- The metadata keys "." and ".." pass `validate_user_metadata_key()` but are resolved by
  the URL parser: over HTTP the path of the entry ".." is that of the user, and that of "."
  ends in an empty segment (`http.rs` 461), where the WebSocket client names the entry.
- `list_messages()` and `list_events()` leave out a negative limit over HTTP (`http.rs` 724,
  1116); the WebSocket client sends it as it is (`client.rs` 1432, 1455).
- An empty attachment configuration becomes `{}` over HTTP (`http.rs` 1002); the WebSocket
  client sends no bytes (`client.rs` 1340).
- One half of a peer given to `list_messages()` is dropped silently (`http.rs` 727), and all
  messages are asked for. These four are what `Differs` lists.
- The HTTP methods fill missing fields of a response with defaults (`mapping.rs` 428-561)
  where `guide.md` 388 speaks of a Protocol error.
- A success that a method does not expect, 204 for example, is reported as a Server error
  though the server did what it was asked (`http.rs` 1213-1232). Its code is "http_error", or
  whatever the answer names; `FateIsTold` promises nothing of these two, and that nothing was
  done for the codes of the error statuses. That the server does nothing when it answers
  with such a status is an assumption on it.
- `list_messages()` takes a target of 0 over HTTP and refuses it over the WebSocket
  (`http.rs` 717).
- A response that lacks a field leaves its caller to the timeout, a Connection error;
  the Protocol error that `guide.md` 388 speaks of is only reported as an event
  (`client.rs` 1794, 1727).
- Once a `Relay` is started, every packet goes to it and none becomes a Packet event,
  those that are no relay frames included (`client.rs` 1758-1769, `relay.rs` 925-933;
  `client-flow.md` 122). A second `Relay` on the same client takes them all.

## 7. Not modelled, and the plan

Done: the connection manager with requests and pings, the RPC methods with their
validation, the REST client, ingestion, relay transfer with the end of its loop, and relay
connections, with the theorems above.

Left, in the order of what it would add:

1. The hand-over of packets from the client to the relay, and which session of a
   target `connect()` chooses.
2. `websocket_url()` and the checks of the configuration.
3. A broadcast channel of bounded capacity between the client and a slow subscriber, and
   `receive_timeout()`, which subscribes anew at each call.
4. Proofs: that an entry of the relay's table goes in the end is liveness and stays with
   TLC, but that `handle_close()` misses no callback it took can be stated as a refinement of
   its own, and so can what a session is to the events (Login, messages, Disconnect).

Left out for good: field-by-field mapping, texts of errors, bcrypt, the protobuf
schema and its generated code, and the broadcast channel of tokio, none of which has
state that the client reads. Liveness and `ENABLED` are out of the prover's reach and
stay with TLC.
