------------------------------ MODULE HttpApi -------------------------------
(***************************************************************************)
(* The REST client (src/src/http.rs): a method checks its arguments, writes *)
(* one HTTP request, and makes a value or an error of what comes back.      *)
(* HttpClient keeps no state between calls, so one call is all there is to  *)
(* it.  The methods of Requests are shared with the WebSocket client, and   *)
(* what both offer should ask the same of the server (SameMeaning).  The    *)
(* server's routes are external, taken from the requests the tests expect.  *)
(***************************************************************************)
EXTENDS Requests, Sequences

CONSTANT Decimal   \* numbers as they are written in a path or a query

ASSUME DecimalAssumption ==
  /\ Numbers \cup Limits \subseteq DOMAIN Decimal
  /\ \A m, n \in DOMAIN Decimal : Decimal[m] = Decimal[n] => m = n
  /\ \A n \in DOMAIN Decimal : Decimal[n] \notin {"", ".", ".."}

-----------------------------------------------------------------------------
(* Arguments: those of Requests, and what HTTP adds to them.                *)

Types == {"ChannelManager", "ChannelWriter", "ChannelSubscription", "UserBlacklist"}
Json == {"", "{}", "j", "not json"}

LoginArgs ==
  [method : {"login"}, user : UserRefs, password : Texts]
    \cup [method : {"login_by_login_name"}, login : {" ", "l"}, password : Texts]
HttpCreateArgs ==
  [method : {"create_user", "create_channel"}, username : Texts, role : Roles,
   login : Optional({" ", "l"}), password : Optional(Texts), profile : Json]
HttpUpdateArgs ==
  [method : {"update_user"}, target : UserRefs, username : Optional(Texts),
   role : Optional(Roles), login : Optional({" ", "l"}), password : Optional(Texts),
   profile : Optional(Json)]
HttpPacketArgs ==
  [method : {"send_packet"}, target : UserRefs, body : Texts, mode : Modes,
   session : {{}}, node : Numbers]
HttpAttachmentArgs ==
  [method : {"upsert_attachment"}, owner : UserRefs, subject : UserRefs, type : Types,
   config : Json]
    \cup [method : {"delete_attachment"}, owner : UserRefs, subject : UserRefs, type : Types]
HttpAttachmentListArgs ==
  [method : {"list_attachments"}, owner : UserRefs, types : Optional(Types)]
HttpListMessagesArgs ==
  [method : {"list_messages"}, target : UserRefs, limit : Limits,
   peer_node : Optional(Numbers), peer_user : Optional(Numbers)]
HttpListEventsArgs == [method : {"list_events"}, after : Numbers, limit : Limits]

Of(S, methods) == {r \in S : r.method \in methods}
\* Methods with the same arguments on both clients.
CommonArgs ==
  UNION {MessageArgs, Of(UserArgs, {"get_user", "delete_user"}), ListUsersArgs, MetadataArgs,
         UpsertArgs, ScanArgs, NodeArgs,
         Of(AttachmentArgs, {"subscribe_channel", "unsubscribe_channel", "block_user",
                             "unblock_user"}),
         Of(AttachmentListArgs, {"list_subscriptions", "list_blocked_users"}),
         Of(PlainArgs, {"list_cluster_nodes", "operations_status", "metrics"})}

HttpRequests ==
  UNION {CommonArgs, LoginArgs, HttpCreateArgs, HttpUpdateArgs, HttpPacketArgs,
         HttpAttachmentArgs, HttpAttachmentListArgs, HttpListMessagesArgs, HttpListEventsArgs}

\* The checks, as far as they are not those of Requests.
HttpAccepts(r) ==
  CASE r.method = "login" -> ValidUser(r.user) /\ r.password # ""
    [] r.method = "login_by_login_name" -> Trimmed(r.login) # "" /\ r.password # ""
    [] r.method = "list_messages" -> r.target.node_id >= 0 /\ r.target.user_id >= 0
    [] r.method = "send_packet" -> Accepts(r) /\ Positive(r.node) /\ r.node = r.target.node_id
    [] r.method \in {"create_user", "create_channel"} -> Accepts(r) /\ r.profile # "not json"
    [] r.method = "update_user" -> Accepts(r) /\ r.profile \cap {"", "not json"} = {}
    [] r.method = "upsert_attachment" -> Accepts(r) /\ r.config # "not json"
    [] OTHER -> Accepts(r)

-----------------------------------------------------------------------------
(* What is written: a path of segments, and the fields of query and body,   *)
(* each with the value it has, if any.                                     *)

NonEmpty(s) == {s} \ {""}
OrElse(S, default) == IF S = {} THEN default ELSE CHOOSE x \in S : TRUE
IfPositive(n) == {Decimal[k] : k \in {j \in {n} : j > 0}}
Base64(v) == <<"base64", v>>
Bcrypt(v) == <<"bcrypt", v>>

\* Text that goes into a query as it is: only the characters of a key come through.
Unescaped(s) == NonEmpty(IF s = "k!" THEN "k" ELSE s)

\* The URL parser resolves dot segments (external); only a key can be one.
Resolved(path) ==
  CASE path[Len(path)] = "." -> Append(SubSeq(path, 1, Len(path) - 1), "")
    [] path[Len(path)] = ".." -> Append(SubSeq(path, 1, Len(path) - 2), "")
    [] OTHER -> path

Http(verb, path, query, body) ==
  [verb |-> verb, path |-> Resolved(path), query |-> query, body |-> body]
Nothing == [f \in {} |-> {}]
Get(path, query) == Http("GET", path, query, Nothing)

UserPath(u) == <<"nodes", Decimal[u.node_id], "users", Decimal[u.user_id]>>
PartPath(u, part) == <<"nodes", Decimal[u.node_id], "users", Decimal[u.user_id], part>>
MetadataPath(r) ==
  <<"nodes", Decimal[r.owner.node_id], "users", Decimal[r.owner.user_id], "metadata", r.key>>

\* The names of as_str(); an unspecified mode does not pass the checks.
TypeName == [ChannelManager |-> "channel_manager", ChannelWriter |-> "channel_writer",
             ChannelSubscription |-> "channel_subscription",
             UserBlacklist |-> "user_blacklist"]
ModeName == [BestEffort |-> "best_effort", RouteRetry |-> "route_retry"]

\* The type in the path or query of an attachment method: that of its argument, or of the
\* relation the method stands for.
WrittenTypes(r) ==
  CASE r.method \in {"subscribe_channel", "unsubscribe_channel", "list_subscriptions"} ->
         {"channel_subscription"}
    [] r.method \in {"block_user", "unblock_user", "list_blocked_users"} -> {"user_blacklist"}
    [] r.method = "list_attachments" -> {TypeName[t] : t \in r.types}
    [] OTHER -> {TypeName[r.type]}
WrittenConfig(r) == IF r.method = "upsert_attachment" /\ r.config # "" THEN r.config ELSE "{}"
AttachmentPath(r) ==
  <<"nodes", Decimal[r.owner.node_id], "users", Decimal[r.owner.user_id], "attachments",
    CHOOSE t \in WrittenTypes(r) : TRUE, Decimal[r.subject.node_id], Decimal[r.subject.user_id]>>

LoginBody(r) ==
  IF r.method = "login"
    THEN [node_id |-> {r.user.node_id}, user_id |-> {r.user.user_id},
          password |-> {Bcrypt(r.password)}]
    ELSE [login_name |-> {Trimmed(r.login)}, password |-> {Bcrypt(r.password)}]
WrittenRole(r) ==
  IF r.method = "create_channel" THEN OrElse(NonEmpty(r.role), "channel") ELSE r.role
CreateBody(r) ==
  [username |-> {r.username}, role |-> {WrittenRole(r)}, login_name |-> Named(r.login),
   password |-> r.password, profile |-> NonEmpty(r.profile)]
\* Fault: a blank login name is left out.
UpdateBodyNamed(r) ==
  [username |-> r.username, role |-> r.role, login_name |-> Named(r.login),
   password |-> r.password, profile |-> r.profile]
UpdateBody(r) ==
  [username |-> r.username, role |-> r.role, login_name |-> {Trimmed(l) : l \in r.login},
   password |-> r.password, profile |-> r.profile]

ListUsersQuery(r) ==
  [name |-> NonEmpty(Trimmed(r.name)),
   uid |-> {<<Decimal[u.node_id], Decimal[u.user_id]>> : u \in {v \in {r.uid} : ~Unset(v)}}]
UpsertBody(r) ==
  [typed_value |-> r.typed, value |-> {Base64(v) : v \in {u \in {r.value} : r.typed = {}}},
   expires_at |-> r.expires]
ScanQuery(r) ==
  [prefix |-> Unescaped(r.prefix), after |-> Unescaped(r.after), limit |-> IfPositive(r.limit)]
ListMessagesQuery(r) ==
  IF r.peer_node # {} /\ r.peer_user # {}
    THEN [limit |-> IfPositive(r.limit), peer_node_id |-> {Decimal[n] : n \in r.peer_node},
          peer_user_id |-> {Decimal[n] : n \in r.peer_user}]
    ELSE [limit |-> IfPositive(r.limit)]
ListEventsQuery(r) ==
  [after |-> {Decimal[n] : n \in {r.after} \ {0}}, limit |-> IfPositive(r.limit)]
SendBody(r) ==
  IF r.method = "send_packet"
    THEN [body |-> {Base64(r.body)}, delivery_kind |-> {"transient"},
          delivery_mode |-> {ModeName[r.mode]}]
    ELSE [body |-> {Base64(r.body)}]

\* The requests of the methods.
LoginWire(r) == Http("POST", <<"auth", "login">>, Nothing, LoginBody(r))
UserWire(r) ==
  CASE r.method \in {"create_user", "create_channel"} ->
         Http("POST", <<"users">>, Nothing, CreateBody(r))
    [] r.method = "get_user" -> Get(UserPath(r.target), Nothing)
    [] r.method = "update_user" -> Http("PATCH", UserPath(r.target), Nothing, UpdateBody(r))
    [] r.method = "delete_user" -> Http("DELETE", UserPath(r.target), Nothing, Nothing)
    [] r.method = "list_users" -> Get(<<"users">>, ListUsersQuery(r))
MetadataWire(r) ==
  CASE r.method = "get_user_metadata" -> Get(MetadataPath(r), Nothing)
    [] r.method = "upsert_user_metadata" -> Http("PUT", MetadataPath(r), Nothing, UpsertBody(r))
    [] r.method = "delete_user_metadata" -> Http("DELETE", MetadataPath(r), Nothing, Nothing)
    [] r.method = "scan_user_metadata" ->
         Get(PartPath(r.owner, "metadata"), ScanQuery(r))
AttachmentWire(r) ==
  CASE Kind(r.method) = "upsert_attachment" ->
         Http("PUT", AttachmentPath(r), Nothing, [config_json |-> {WrittenConfig(r)}])
    [] Kind(r.method) = "delete_attachment" ->
         Http("DELETE", AttachmentPath(r), Nothing, Nothing)
    [] Kind(r.method) = "list_attachments" ->
         Get(PartPath(r.owner, "attachments"), [attachment_type |-> WrittenTypes(r)])
MessageWire(r) ==
  IF r.method = "list_messages"
    THEN Get(PartPath(r.target, "messages"), ListMessagesQuery(r))
    ELSE Http("POST", PartPath(r.target, "messages"), Nothing, SendBody(r))
NodeWire(r) ==
  CASE r.method = "list_events" -> Get(<<"events">>, ListEventsQuery(r))
    [] r.method = "list_cluster_nodes" -> Get(<<"cluster", "nodes">>, Nothing)
    [] r.method = "list_node_logged_in_users" ->
         Get(<<"cluster", "nodes", Decimal[r.node_id], "logged-in-users">>, Nothing)
    [] r.method = "operations_status" -> Get(<<"ops", "status">>, Nothing)
    [] r.method = "metrics" -> Get(<<"metrics">>, Nothing)

Wire(r) ==
  CASE r.method \in {"login", "login_by_login_name"} -> LoginWire(r)
    [] Kind(r.method) \in {"create_user", "get_user", "update_user", "delete_user",
                            "list_users"} -> UserWire(r)
    [] Takes(r.method) \in {"UserMetadata", "scan_user_metadata"} -> MetadataWire(r)
    [] Takes(r.method) \in {"Attachment", "list_attachments"} -> AttachmentWire(r)
    [] Kind(r.method) \in {"send", "list_messages"} -> MessageWire(r)
    [] OTHER -> NodeWire(r)

-----------------------------------------------------------------------------
(* What is meant: the request the WebSocket client makes with the same        *)
(* arguments (src/src/client.rs:851-1566 and 1664-1680), its checks aside;   *)
(* and what the routes of the server read in an HTTP request (external).    *)

\* The type in the request of an attachment method, and the configuration.
TypesOf(r) ==
  CASE r.method \in {"subscribe_channel", "unsubscribe_channel", "list_subscriptions"} ->
         {"ChannelSubscription"}
    [] r.method \in {"block_user", "unblock_user", "list_blocked_users"} -> {"UserBlacklist"}
    [] r.method = "list_attachments" -> r.types
    [] OTHER -> {r.type}
ConfigOf(r) == IF r.method = "upsert_attachment" THEN r.config ELSE "{}"

\* Arguments are sent as they are given, but for what Normal() does to them.  Only HTTP has
\* peers for list_messages(): they mean what they say, each for itself.
Meaning(r) ==
  LET n == [Normal(r) EXCEPT !.method = Kind(r.method)]
  IN  CASE r.method = "login" ->
             [method |-> n.method, user |-> r.user, password |-> Bcrypt(r.password)]
        [] r.method = "login_by_login_name" ->
             [method |-> n.method, login |-> Trimmed(r.login), password |-> Bcrypt(r.password)]
        [] r.method = "send_packet" ->
             [method |-> n.method, target |-> n.target, body |-> n.body, mode |-> n.mode]
        [] Kind(r.method) = "upsert_attachment" ->
             [method |-> n.method, owner |-> n.owner, subject |-> n.subject,
              types |-> TypesOf(r), config |-> ConfigOf(r)]
        [] Kind(r.method) = "delete_attachment" ->
             [method |-> n.method, owner |-> n.owner, subject |-> n.subject,
              types |-> TypesOf(r)]
        [] Kind(r.method) = "list_attachments" ->
             [method |-> n.method, owner |-> n.owner, types |-> TypesOf(r)]
        [] OTHER -> n

Number(s) == CHOOSE n \in DOMAIN Decimal : Decimal[n] = s
NumbersIn(S) == {Number(s) : s \in S}
UserAt(p, i, j) == [node_id |-> Number(p[i]), user_id |-> Number(p[j])]
Given(fields, name) == IF name \in DOMAIN fields THEN fields[name] ELSE {}
LimitIn(w) == OrElse(NumbersIn(Given(w.query, "limit")), 0)
Known(names, s) == CHOOSE v \in DOMAIN names : names[v] = s
Nowhere == [method |-> "none"]

LoginRoute(w) ==
  IF Given(w.body, "login_name") = {}
    THEN [method |-> "login", password |-> OrElse(Given(w.body, "password"), ""),
          user |-> [node_id |-> OrElse(Given(w.body, "node_id"), 0),
                    user_id |-> OrElse(Given(w.body, "user_id"), 0)]]
    ELSE [method |-> "login_by_login_name", login |-> OrElse(Given(w.body, "login_name"), ""),
          password |-> OrElse(Given(w.body, "password"), "")]

UsersRoute(w) ==
  IF w.verb = "POST"
    THEN [method |-> "create_user", username |-> OrElse(Given(w.body, "username"), ""),
          role |-> OrElse(Given(w.body, "role"), ""), login |-> Given(w.body, "login_name"),
          password |-> Given(w.body, "password"),
          profile |-> OrElse(Given(w.body, "profile"), "")]
    ELSE [method |-> "list_users", name |-> OrElse(Given(w.query, "name"), ""),
          uid |-> OrElse({UserAt(u, 1, 2) : u \in Given(w.query, "uid")},
                         [node_id |-> 0, user_id |-> 0])]

UserRoute(w, u) ==
  CASE w.verb = "GET" -> [method |-> "get_user", target |-> u]
    [] w.verb = "DELETE" -> [method |-> "delete_user", target |-> u]
    [] OTHER -> [method |-> "update_user", target |-> u,
                 username |-> Given(w.body, "username"), role |-> Given(w.body, "role"),
                 login |-> Given(w.body, "login_name"), password |-> Given(w.body, "password"),
                 profile |-> Given(w.body, "profile")]

MetadataRoute(w, u) ==
  IF Len(w.path) = 5
    THEN [method |-> "scan_user_metadata", owner |-> u, limit |-> LimitIn(w),
          prefix |-> OrElse(Given(w.query, "prefix"), ""),
          after |-> OrElse(Given(w.query, "after"), "")]
    ELSE CASE w.verb = "GET" ->
                [method |-> "get_user_metadata", owner |-> u, key |-> w.path[6]]
           [] w.verb = "DELETE" ->
                [method |-> "delete_user_metadata", owner |-> u, key |-> w.path[6]]
           [] OTHER ->
                [method |-> "upsert_user_metadata", owner |-> u, key |-> w.path[6],
                 typed |-> {}, expires |-> Given(w.body, "expires_at"),
                 value |-> Raw([typed |-> Given(w.body, "typed_value"),
                                value |-> OrElse(Given(w.body, "value"), <<"", "">>)[2]])]

AttachmentRoute(w, u) ==
  IF Len(w.path) = 5
    THEN [method |-> "list_attachments", owner |-> u,
          types |-> {Known(TypeName, s) : s \in Given(w.query, "attachment_type")}]
    ELSE IF w.verb = "DELETE"
      THEN [method |-> "delete_attachment", owner |-> u, subject |-> UserAt(w.path, 7, 8),
            types |-> {Known(TypeName, w.path[6])}]
      ELSE [method |-> "upsert_attachment", owner |-> u, subject |-> UserAt(w.path, 7, 8),
            types |-> {Known(TypeName, w.path[6])},
            config |-> OrElse(Given(w.body, "config_json"), "")]

SendRoute(w, u) ==
  LET text == OrElse(Given(w.body, "body"), <<"", "">>)[2]
  IN  IF Given(w.body, "delivery_kind") = {}
        THEN [method |-> "send", target |-> u, body |-> text]
        ELSE [method |-> "send", target |-> u, body |-> text,
              mode |-> Known(ModeName, OrElse(Given(w.body, "delivery_mode"), ""))]

MessageRoute(w, u) ==
  IF w.verb = "GET"
    THEN [method |-> "list_messages", target |-> u, limit |-> LimitIn(w),
          peer_node |-> NumbersIn(Given(w.query, "peer_node_id")),
          peer_user |-> NumbersIn(Given(w.query, "peer_user_id"))]
    ELSE SendRoute(w, u)

NodeRoute(w, u) ==
  IF Len(w.path) = 4 THEN UserRoute(w, u)
  ELSE CASE w.path[5] = "metadata" -> MetadataRoute(w, u)
         [] w.path[5] = "attachments" -> AttachmentRoute(w, u)
         [] OTHER -> MessageRoute(w, u)

Route(w) ==
  LET p == w.path
  IN  IF p[Len(p)] = "" THEN Nowhere
      ELSE CASE p[1] = "auth" -> LoginRoute(w)
             [] p[1] = "users" -> UsersRoute(w)
             [] p[1] = "events" ->
                  [method |-> "list_events", limit |-> LimitIn(w),
                   after |-> OrElse(NumbersIn(Given(w.query, "after")), 0)]
             [] p[1] = "ops" -> [method |-> "operations_status"]
             [] p[1] = "metrics" -> [method |-> "metrics"]
             [] p[1] = "cluster" /\ Len(p) = 2 -> [method |-> "list_cluster_nodes"]
             [] p[1] = "cluster" /\ Len(p) = 4 ->
                  [method |-> "list_node_logged_in_users", node_id |-> Number(p[3])]
             [] OTHER -> NodeRoute(w, UserAt(p, 2, 4))

-----------------------------------------------------------------------------
(* What comes back: a status, and a text that is nothing, no JSON, a JSON    *)
(* value, an object, or a list, alone or under its name in an object.  An    *)
(* object has all its fields, none of them, or one that does not decode.    *)

Objects == {"whole", "bare", "broken"}
Lists == UNION {[1..n -> Objects \cup {"number"}] : n \in 0..2}
Payloads == [form : {"blank", "not json", "number"}]
              \cup [form : {"object"}, object : Objects]
              \cup [form : {"array", "items", "nodes"}, items : Lists]
Statuses == {200, 201, 202, 204, 404, 504}
Replies == [status : Statuses, payload : Payloads]

\* The statuses a method takes for success.
Expected(m) ==
  CASE m = "send_packet" -> {202}
    [] Kind(m) \in {"create_user", "upsert_user_metadata", "upsert_attachment"} -> {200, 201}
    [] m = "send_message" -> {200, 201}
    [] OTHER -> {200}

\* What is made of an object: a missing field is a default, whatever the answer, except
\* the type of an attachment and the token of a login.  Text in base64, typed values, types
\* and nested lists may be wrong where there are any.
Demanding == {"Attachment", "list_attachments", "login", "login_by_login_name"}
Tolerant == {"User", "accepted", "delete_user", "list_users", "list_events",
             "list_cluster_nodes", "list_node_logged_in_users"}
Decodes(m, x) == \/ x = "whole"
                 \/ x = "bare" /\ Takes(m) \notin Demanding
                 \/ x = "broken" /\ Takes(m) \in Tolerant

\* items_from_payload(); a scan takes an object only.
ItemsOf(m, p) ==
  CASE p.form = "items" -> {p.items}
    [] p.form = "array" /\ m # "scan_user_metadata" -> {p.items}
    [] p.form = "nodes" /\ m = "list_cluster_nodes" -> {p.items}
    [] OTHER -> {}
ListMethods == {"list_users", "scan_user_metadata", "list_attachments", "list_subscriptions",
                "list_blocked_users", "list_messages", "list_events", "list_cluster_nodes",
                "list_node_logged_in_users"}
ObjectOf(p) == CASE p.form = "object" -> {p.object}
                 [] p.form \in {"items", "nodes"} -> {"bare"}
                 [] OTHER -> {}

\* The value a method makes of a payload, if it can.
Decoded(m, p) ==
  CASE m = "metrics" -> {<<>>}
    [] m \in ListMethods -> {i \in ItemsOf(m, p) : \A k \in DOMAIN i : Decodes(m, i[k])}
    [] OTHER -> {<<o>> : o \in {x \in ObjectOf(p) : Decodes(m, x)}}

\* The code of a server error: the one in the answer, which may be any, or that of its status.
StatusCode(s) ==
  CASE s = 400 -> "bad_request" [] s = 401 -> "unauthorized" [] s = 403 -> "forbidden"
    [] s = 404 -> "not_found" [] s = 409 -> "conflict" [] s = 422 -> "unprocessable_entity"
    [] s = 429 -> "too_many_requests" [] s = 500 -> "internal_error"
    [] s = 503 -> "service_unavailable" [] OTHER -> "http_error"
CodeOf(answer) ==
  IF answer.payload = [form |-> "object", object |-> "whole"] THEN "given"
  ELSE StatusCode(answer.status)

Outcome(m, answer) ==
  IF answer.status \notin Expected(m) THEN [is |-> "server", code |-> CodeOf(answer)]
  ELSE IF Decoded(m, answer.payload) = {} THEN [is |-> "protocol"]
  ELSE [is |-> "ok", value |-> CHOOSE v \in Decoded(m, answer.payload) : TRUE]

-----------------------------------------------------------------------------
(* A call, and the server.                                                 *)

VARIABLES
  pc,       \* position of the call
  call,     \* the method and its arguments, once they passed the checks
  flight,   \* the request on its way to the server
  done,     \* history: how often the server did what it read in a request
  reply,    \* what the server answered
  result    \* what the method returned

vars == <<pc, call, flight, done, reply, result>>

Init == pc = "idle" /\ call = {} /\ flight = {} /\ done = 0 /\ reply = {} /\ result = {}

Returns(outcome) == pc' = "done" /\ result' = {outcome}

Refuse(r) ==
  /\ ~HttpAccepts(r) /\ Returns([is |-> "invalid"])
  /\ UNCHANGED <<call, flight, done, reply>>

Send(r) ==
  /\ HttpAccepts(r) /\ pc' = "sent"
  /\ call' = {r} /\ flight' = {Wire(r)}
  /\ UNCHANGED <<done, reply, result>>

\* The server does what it reads, or refuses it.
Serve(w, r) ==
  /\ w \in flight /\ flight' = flight \ {w}
  /\ IF r.status < 400 THEN Route(w) # Nowhere /\ done' = done + 1 ELSE UNCHANGED done
  /\ reply' = {r}
  /\ UNCHANGED <<pc, call, result>>

\* Fault: a request that failed is sent once more.
FailRetrying ==
  /\ pc = "sent"
  /\ IF flight = {} /\ done = 1
       THEN flight' = {Wire(r) : r \in call} /\ UNCHANGED <<pc, result>>
       ELSE Returns([is |-> "connection"]) /\ UNCHANGED flight
  /\ UNCHANGED <<call, done, reply>>

\* send() or text() fails; the request may have arrived, or arrive yet.
Fail ==
  /\ pc = "sent" /\ Returns([is |-> "connection"])
  /\ UNCHANGED <<call, flight, done, reply>>

Receive ==
  /\ pc = "sent" /\ \E r \in call, a \in reply : Returns(Outcome(r.method, a))
  /\ UNCHANGED <<call, flight, done, reply>>

Next == \/ pc = "idle" /\ \E r \in HttpRequests : Refuse(r) \/ Send(r)
        \/ \E w \in flight, r \in Replies : Serve(w, r)
        \/ Fail \/ Receive

Spec == Init /\ [][Next]_vars

-----------------------------------------------------------------------------
(* Safety.                                                                 *)

\* The calls that ask something else over HTTP: a key that is a dot segment passes the
\* checks of validation.rs, but names no entry in a URL; a negative limit is left out; an
\* empty configuration becomes an empty object; one half of a peer is dropped.
Differs(r) ==
  \/ Takes(r.method) = "UserMetadata" /\ r.key \in {".", ".."}
  \/ r.method \in {"list_messages", "list_events"} /\ r.limit < 0
  \/ r.method = "list_messages" /\ (r.peer_node = {}) # (r.peer_user = {})
  \/ r.method = "upsert_attachment" /\ r.config = ""

\* What the server reads in a request is what the same call of the WebSocket client asks
\* for: no argument is lost, moved to another field or garbled by path, query or JSON.
\* The calls of Differs() are the exceptions, and each of them is one.
SameMeaning ==
  \A w \in flight, r \in call : (Route(w) = Meaning(r)) <=> ~Differs(r)

\* A result tells whether the server did what it was asked: not at all after Validation or
\* the code of an error status, once after Ok or Protocol, and never twice.
FateIsTold ==
  /\ done <= 1
  /\ \A o \in result :
       /\ o.is = "invalid" => flight = {} /\ done = 0
       /\ o.is \in {"ok", "protocol"} => done = 1
       /\ o.is = "server" /\ o.code \notin {"given", "http_error"} => done = 0

-----------------------------------------------------------------------------
(* The inductive invariant behind both, with the type invariant.            *)

TypeOK ==
  /\ pc \in {"idle", "sent", "done"} /\ done \in Nat
  /\ reply \subseteq Replies
  /\ \A r \in call : r \in HttpRequests /\ HttpAccepts(r)

\* A request is on its way, or answered, but not both, and there is but one.
OneRequest ==
  /\ pc = "idle" => call = {} /\ flight = {} /\ reply = {} /\ result = {}
  /\ call = {} => flight = {} /\ reply = {}
  /\ \A v, w \in flight : v = w
  /\ flight # {} => done = 0 /\ reply = {}
  /\ \A a, b \in reply : a = b
  /\ \A o \in result : o.is \notin {"invalid", "connection"} => reply # {}
  /\ done = (IF \E a \in reply : a.status < 400 THEN 1 ELSE 0)

\* What is on its way is what the method wrote.
FlightIsWire == \A w \in flight, r \in call : w = Wire(r)

IInv == TypeOK /\ OneRequest /\ FlightIsWire /\ FateIsTold
=============================================================================
